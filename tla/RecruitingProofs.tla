--------------------------- MODULE RecruitingProofs ---------------------------
(***************************************************************************)
(* Proofs about the recruiting side, component by component: for any        *)
(* overlap of requests that the funnel keeps up with the applications and   *)
(* that an answer is filed under whoever gave it; for one request at a time *)
(* that the rules of a round fit the job, that interviews do not clash,     *)
(* that a board has one posting of a job and a person one application.      *)
(***************************************************************************)
EXTENDS Outreach, JobFunnel, JobBoard, Intake, RoundRules, InterviewSlots,
        DataLemmas, TLAPS

(* One request at a time: the desk at work is the only one.                 *)
LEMMA OnlyDesk ==
  ASSUME staffed \in {{CHOOSE d \in Desks : TRUE}, Desks}, Alone, NEW d \in staffed, NEW e \in staffed
  PROVE  d = e
<1> DEFINE one == CHOOSE c \in Desks : TRUE
<1>1. IsFiniteSet(staffed)
  <2>1. staffed = {one} \/ staffed = Desks
    OBVIOUS
  <2> HIDE DEF one
  <2> QED BY <2>1, RequestsAssumption, FS_Singleton
<1> QED BY <1>1, FS_Singleton DEF Alone

-------------------------------------------------------------------------------
(* JobFunnel *)

(* Whoever was in the funnel when the application was committed has a       *)
(* document there ever since, and it says "applied" unless the call that is *)
(* to say so is still under way or was lost.                                *)
FunnelInv ==
  /\ funnel = [k \in Keys |-> funnel[k]]
  /\ applicants = [e \in Addresses |-> applicants[e]]
  /\ scout = [d \in Desks |-> scout[d]]
  /\ \A k \in Keys : funnel[k] = [status |-> funnel[k].status, applied |-> funnel[k].applied]
  /\ \A d \in Desks : scout[d] # Idle => /\ scout[d] \in Errands
                                         /\ scout[d].kind = "apply" => scout[d].key \in Addresses
                                         /\ scout[d].kind \in {"invite", "flip"}
                                              => scout[d].how \in {"sent", "failed"}
  /\ \A e \in Addresses : applicants[e] = "known" => funnel[e] # Absent
  /\ FunnelKeepsUp

(* An address is the key of its owner's document.                          *)
LEMMA AddressesAreKeys == Addresses \subseteq Keys
  BY DEF Addresses, Keys, KeyOf

LEMMA FunnelStep == FunnelInv /\ [FunnelNext]_funnelVars => FunnelInv'
<1> SUFFICES ASSUME FunnelInv, [FunnelNext]_funnelVars PROVE FunnelInv'
  OBVIOUS
<1>1. CASE EditPage
  BY <1>1 DEF EditPage, FunnelInv, FunnelKeepsUp, Marking
<1>2. ASSUME NEW d \in Desks, NEW p \in Profiles, Shortlist(d, p) PROVE FunnelInv'
  <2>1. KeyOf(p) \in Keys
    BY DEF Keys
  <2>2. /\ funnel' = [funnel EXCEPT ![KeyOf(p)] = Shortlisted(@)]
        /\ UNCHANGED <<applicants, unmarked, scout>>
    BY <1>2 DEF Shortlist
  <2>3. \A k \in Keys : /\ funnel'[k] = [status |-> funnel'[k].status, applied |-> funnel'[k].applied]
                        /\ funnel[k] # Absent => funnel'[k] = funnel[k]
    BY <2>1, <2>2 DEF FunnelInv, Shortlisted, Absent
  <2>4. funnel' = [k \in Keys |-> funnel'[k]]
    BY <2>2 DEF FunnelInv
  <2>5. \A e \in Addresses : applicants[e] = "known" => funnel'[e] = funnel[e] /\ funnel[e] # Absent
    BY <2>3, AddressesAreKeys DEF FunnelInv
  <2> QED BY <2>2, <2>3, <2>4, <2>5, AddressesAreKeys DEF FunnelInv, FunnelKeepsUp, Marking
<1>3. ASSUME NEW d \in Desks, NEW w \in Errands, ScoutGoes(d, w),
             w.kind = "apply" => w.key \in Addresses,
             w.kind \in {"invite", "flip"} => w.how \in {"sent", "failed"},
             UNCHANGED <<page, funnel, applicants, unmarked>>, w.kind # "mark"
      PROVE  FunnelInv'
  <2>1. scout' = [scout EXCEPT ![d] = w] /\ scout[d] = Idle
    BY <1>3 DEF ScoutGoes
  <2>2. \A e : Marking(e) => Marking(e)'
    BY <2>1 DEF Marking, FunnelInv
  <2>3. FunnelKeepsUp'
    BY <1>3, <2>2 DEF FunnelInv, FunnelKeepsUp
  <2> QED BY <1>3, <2>1, <2>3 DEF FunnelInv
<1>4. ASSUME NEW d \in Desks, NEW p \in Profiles, Invite(d, p) PROVE FunnelInv'
  BY <1>3, <1>4 DEF Invite, Errands, Keys
<1>5. ASSUME NEW d \in Desks, NEW p \in Profiles, SendSourcedInvite(d, p) PROVE FunnelInv'
  BY <1>3, <1>5 DEF SendSourcedInvite, Errands, Keys
<1>6. ASSUME NEW d \in Desks, NEW e \in Addresses, LoadApplication(d, e) PROVE FunnelInv'
  BY <1>3, <1>6, AddressesAreKeys DEF LoadApplication, Errands
<1>7. ASSUME NEW d \in Desks, CommitApplication(d) PROVE FunnelInv'
  <2>0. PICK e : e = scout[d].key
    OBVIOUS
  <2>1. /\ scout[d] \in Errands /\ scout[d].kind = "apply" /\ e \in Addresses
        /\ applicants[e] = "none"
        /\ applicants' = [applicants EXCEPT ![e] = IF funnel[e] = Absent THEN "stranger" ELSE "known"]
        /\ scout' = [scout EXCEPT ![d].kind = "mark"]
        /\ UNCHANGED <<funnel, unmarked>>
    BY <1>7, <2>0 DEF CommitApplication, FunnelInv
  <2>2. /\ scout'[d] \in Errands /\ scout'[d].kind = "mark" /\ scout'[d].key = e
        /\ scout'[d] # Idle
        /\ scout' = [c \in Desks |-> scout'[c]]
        /\ \A c \in Desks \ {d} : scout'[c] = scout[c]
    BY <2>0, <2>1, FunnelAssumption DEF FunnelInv, Errands
  <2>3. \A a : Marking(a) => Marking(a)'
    BY <2>1, <2>2 DEF Marking
  <2>4. Marking(e)'
    BY <2>2 DEF Marking
  <2>5. \A a \in Addresses : a # e => applicants'[a] = applicants[a]
    BY <2>1 DEF FunnelInv
  <2>6. FunnelKeepsUp'
    <3> SUFFICES ASSUME NEW a \in Addresses \ unmarked, applicants'[a] = "known", ~Marking(a)'
                 PROVE  funnel[a].applied
      BY <2>1 DEF FunnelKeepsUp
    <3>1. a # e
      BY <2>4
    <3> QED BY <2>3, <2>5, <3>1 DEF FunnelInv, FunnelKeepsUp
  <2>7. applicants' = [a \in Addresses |-> applicants'[a]]
    BY <2>1 DEF FunnelInv
  <2>8. \A a \in Addresses : applicants'[a] = "known" => funnel'[a] # Absent
    BY <2>1, <2>5 DEF FunnelInv
  <2> QED BY <2>1, <2>2, <2>6, <2>7, <2>8 DEF FunnelInv
<1>8. ASSUME NEW d \in Desks, Record(d) PROVE FunnelInv'
  <2> DEFINE w == scout[d]
             k == w.key
  <2>1. /\ w # Idle /\ w \in Errands /\ w.kind # "apply" /\ k \in Keys
        /\ scout' = [scout EXCEPT ![d] = Idle]
        /\ UNCHANGED <<applicants, unmarked>>
        /\ funnel' = [funnel EXCEPT ![k] = CASE w.kind = "invite" -> Invited(funnel[k], w.how)
                                              [] w.kind = "flip" -> Flipped(funnel[k], w.how)
                                              [] w.kind = "mark" -> Marked(funnel[k])]
    BY <1>8 DEF Record, FunnelInv, Errands
  <2>2. /\ funnel' = [x \in Keys |-> funnel'[x]] /\ \A x \in Keys \ {k} : funnel'[x] = funnel[x]
        /\ scout' = [c \in Desks |-> scout'[c]] /\ scout'[d] = Idle
        /\ \A c \in Desks \ {d} : scout'[c] = scout[c]
    <3>1. PICK new : funnel' = [funnel EXCEPT ![k] = new]
      BY <2>1
    <3>2. funnel' = [x \in Keys |-> funnel'[x]] /\ \A x \in Keys \ {k} : funnel'[x] = funnel[x]
      BY <3>1 DEF FunnelInv
    <3> QED BY <2>1, <3>2 DEF FunnelInv
  <2>3. /\ funnel[k] = [status |-> funnel[k].status, applied |-> funnel[k].applied]
        /\ w.kind \in {"invite", "flip"} => w.how \in {"sent", "failed"}
    BY <2>1 DEF FunnelInv
  <2>4. /\ funnel'[k] = [status |-> funnel'[k].status, applied |-> funnel'[k].applied]
        /\ funnel[k] # Absent => funnel'[k] # Absent
        /\ funnel[k] # Absent /\ funnel[k].applied => funnel'[k].applied
        /\ funnel[k] # Absent /\ w.kind = "mark" => funnel'[k].applied
    <3>1. CASE w.kind = "invite"
      BY <2>1, <2>2, <2>3, <3>1 DEF Invited, Absent, FunnelInv
    <3>2. CASE w.kind = "flip"
      BY <2>1, <2>2, <2>3, <3>2 DEF Flipped, Absent, FunnelInv
    <3>3. CASE w.kind = "mark"
      BY <2>1, <2>2, <2>3, <3>3 DEF Marked, Absent, FunnelInv
    <3> QED BY <2>1, <3>1, <3>2, <3>3 DEF Errands
  <2>5. FunnelKeepsUp'
    <3> SUFFICES ASSUME NEW e \in Addresses \ unmarked, applicants[e] = "known", ~Marking(e)'
                 PROVE  funnel'[e].applied
      BY <2>1 DEF FunnelKeepsUp
    <3>1. funnel[e] # Absent /\ e \in Keys
      BY AddressesAreKeys DEF FunnelInv
    <3>2. CASE Marking(e)
      <4>1. w.kind = "mark" /\ k = e
        BY <2>2, <3>2 DEF Marking
      <4> QED BY <2>4, <3>1, <4>1
    <3>3. CASE ~Marking(e)
      <4>1. funnel[e].applied
        BY <3>3 DEF FunnelInv, FunnelKeepsUp
      <4> QED BY <2>2, <2>4, <3>1, <4>1
    <3> QED BY <3>2, <3>3
  <2> HIDE DEF w, k
  <2>6. \A e \in Addresses : applicants[e] = "known" => funnel'[e] # Absent
    BY <2>2, <2>4, AddressesAreKeys DEF FunnelInv
  <2>7. \A x \in Keys : funnel'[x] = [status |-> funnel'[x].status, applied |-> funnel'[x].applied]
    BY <2>2, <2>4 DEF FunnelInv
  <2> QED BY <2>1, <2>2, <2>5, <2>6, <2>7 DEF FunnelInv
<1>9. ASSUME NEW d \in Desks, ScoutLeaves(d) PROVE FunnelInv'
  <2>1. /\ scout[d] # Idle /\ scout' = [scout EXCEPT ![d] = Idle]
        /\ UNCHANGED <<funnel, applicants>>
        /\ unmarked' = IF scout[d].kind = "mark" THEN unmarked \cup {scout[d].key} ELSE unmarked
    BY <1>9 DEF ScoutLeaves
  <2>2. FunnelKeepsUp'
    BY <2>1 DEF FunnelInv, FunnelKeepsUp, Marking
  <2> QED BY <2>1, <2>2 DEF FunnelInv
<1>10. CASE UNCHANGED funnelVars
  BY <1>10 DEF funnelVars, FunnelInv, FunnelKeepsUp, Marking
<1> QED BY <1>1, <1>2, <1>4, <1>5, <1>6, <1>7, <1>8, <1>9, <1>10 DEF FunnelNext

(* With any overlap of shortlisting, inviting and applying, no later or     *)
(* concurrent update of the funnel takes back that somebody applied.        *)
THEOREM FunnelKept == FunnelSpec => []FunnelKeepsUp
<1>1. FunnelInit => FunnelInv
  BY DEF FunnelInit, FunnelInv, FunnelKeepsUp, Absent
<1>2. FunnelInv => FunnelKeepsUp
  BY DEF FunnelInv
<1> QED BY <1>1, <1>2, FunnelStep, PTL DEF FunnelSpec

-------------------------------------------------------------------------------
(* Outreach *)

Urls == {p.url : p \in Hits}

Statuses == {"", "Not Contacted", "mail_sent", "Contacted", "Responded", "Interested",
             "Interest Expressed", "Not a fit", "Hired", "No Response"}

\* A row of the shortlist, NoRow among them.
SlateRow == [sid : Nat, url : Urls \cup {""}, email : Mails \cup {""}, opening : Openings \cup {""},
             status : Statuses, asked : {"never", "lately", "long ago"}, replied : BOOLEAN]

OutreachTypes ==
  /\ sids \in Nat
  /\ slate \in Seq(SlateRow)
  /\ caller = [d \in Desks |-> caller[d]]
  /\ \A d \in Desks : caller[d] # Idle =>
       /\ caller[d].kind = "shortlist" =>
            /\ caller[d].sid \in Nat /\ caller[d].p \in Hits /\ caller[d].opening \in Openings
       /\ caller[d].kind = "sweep" =>
            \A i \in DOMAIN caller[d].verdict : caller[d].verdict[i] \in Statuses

\* Id s names address m: on a row, in a mailed link, or in a shortlisting under way.
StandsFor(s, m) ==
  \/ s = 0 /\ m = ""
  \/ \E i \in DOMAIN slate : slate[i].sid = s /\ slate[i].email = m
  \/ \E link \in links : link.sid = s /\ link.to = m
  \/ \E d \in Desks : /\ caller[d] # Idle /\ caller[d].kind = "shortlist"
                      /\ caller[d].sid = s /\ caller[d].p.email = m

(* Every shortlist id names one address only, wherever it is written down,  *)
(* because an address is only ever stored together with a new id.           *)
OutreachInv ==
  /\ OutreachTypes
  /\ \A s, m : StandsFor(s, m) => s \in 0 .. sids
  /\ \A s, m, n : StandsFor(s, m) /\ StandsFor(s, n) => m = n
  /\ \A d \in Desks : (caller[d] # Idle /\ caller[d].kind = "form") => caller[d].email = caller[d].by

(* Replacing a row by one that names nothing new.                           *)
LEMMA SlateKept ==
  ASSUME OutreachTypes, NEW i, NEW r, i \in DOMAIN slate => r \in SlateRow,
         i \in DOMAIN slate => StandsFor(r.sid, r.email),
         slate' = [slate EXCEPT ![i] = r]
  PROVE  /\ slate' \in Seq(SlateRow)
         /\ \A j \in DOMAIN slate' : \A s, m :
              slate'[j].sid = s /\ slate'[j].email = m => StandsFor(s, m)
<1>1. /\ slate' \in Seq(SlateRow) /\ DOMAIN slate' = DOMAIN slate
      /\ \A j \in DOMAIN slate : slate'[j] = IF j = i THEN r ELSE slate[j]
  BY RowsReplaced DEF OutreachTypes
<1>2. \A j \in DOMAIN slate : StandsFor(slate[j].sid, slate[j].email)
  BY DEF StandsFor
<1> QED BY <1>1, <1>2

(* A step that writes down no new pair of id and address.                   *)
LEMMA NothingNew ==
  ASSUME OutreachInv, OutreachTypes', sids' \in Nat, sids <= sids',
         \A j \in DOMAIN slate' : \A s, m :
           slate'[j].sid = s /\ slate'[j].email = m => StandsFor(s, m),
         \A link \in links' : StandsFor(link.sid, link.to),
         \A d \in Desks : \/ caller'[d] = caller[d] \/ caller'[d] = Idle
                          \/ caller'[d].kind \notin {"shortlist", "form"}
                          \/ caller'[d].kind = "form" /\ caller'[d].email = caller'[d].by
  PROVE  OutreachInv'
<1>1. ASSUME NEW s, NEW m, StandsFor(s, m)' PROVE StandsFor(s, m)
  <2>1. CASE s = 0 /\ m = ""
    BY <2>1 DEF StandsFor
  <2>2. CASE \E i \in DOMAIN slate' : slate'[i].sid = s /\ slate'[i].email = m
    BY <2>2
  <2>3. CASE \E link \in links' : link.sid = s /\ link.to = m
    BY <2>3
  <2>4. CASE \E d \in Desks : /\ caller'[d] # Idle /\ caller'[d].kind = "shortlist"
                              /\ caller'[d].sid = s /\ caller'[d].p.email = m
    BY <2>4 DEF StandsFor
  <2> QED BY <1>1, <2>1, <2>2, <2>3, <2>4 DEF StandsFor
<1>2. \A s, m : StandsFor(s, m)' => s \in 0 .. sids'
  BY <1>1 DEF OutreachInv, OutreachTypes
<1>3. \A s, m, n : StandsFor(s, m)' /\ StandsFor(s, n)' => m = n
  BY <1>1 DEF OutreachInv
<1>4. \A d \in Desks : (caller'[d] # Idle /\ caller'[d].kind = "form") => caller'[d].email = caller'[d].by
  BY DEF OutreachInv
<1> QED BY <1>2, <1>3, <1>4 DEF OutreachInv

(* What is written down keeps its address.                                 *)
LEMMA WrittenStands ==
  /\ \A j \in DOMAIN slate : \A s, m : slate[j].sid = s /\ slate[j].email = m => StandsFor(s, m)
  /\ \A link \in links : StandsFor(link.sid, link.to)
  BY DEF StandsFor

LEMMA NoRowType == NoRow \in SlateRow /\ NoRow.sid = 0 /\ NoRow.email = ""
  BY DEF NoRow, SlateRow, Statuses

(* Giving out an id: it names the address it was given out for.             *)
LEMMA ShortlistStep ==
  ASSUME OutreachInv, NEW d \in Desks, NEW p \in Hits, NEW opening \in Openings,
         ShortlistFor(d, p, opening)
  PROVE  OutreachInv'
<1>1. PICK fresh \in BOOLEAN :
        caller' = [caller EXCEPT ![d] = [kind |-> "shortlist", sid |-> sids + 1, p |-> p,
                                         opening |-> opening, fresh |-> fresh]]
  BY DEF ShortlistFor, Dials
<1>2. sids' = sids + 1 /\ slate' = slate /\ links' = links /\ sids \in Nat
  BY DEF ShortlistFor, OutreachInv, OutreachTypes
<1>3. /\ caller'[d] = [kind |-> "shortlist", sid |-> sids + 1, p |-> p, opening |-> opening,
                       fresh |-> fresh]
      /\ \A e \in Desks \ {d} : caller'[e] = caller[e]
      /\ caller' = [e \in Desks |-> caller'[e]]
  BY <1>1 DEF OutreachInv, OutreachTypes
<1>4. OutreachTypes'
  <2> SUFFICES ASSUME NEW e \in Desks, caller'[e] # Idle
               PROVE  /\ caller'[e].kind = "shortlist" =>
                           /\ caller'[e].sid \in Nat /\ caller'[e].p \in Hits
                           /\ caller'[e].opening \in Openings
                      /\ caller'[e].kind = "sweep" =>
                           \A i \in DOMAIN caller'[e].verdict : caller'[e].verdict[i] \in Statuses
    BY <1>2, <1>3 DEF OutreachInv, OutreachTypes
  <2>1. CASE e = d
    BY <1>2, <1>3, <2>1
  <2>2. CASE e # d
    BY <1>3, <2>2 DEF OutreachInv, OutreachTypes
  <2> QED BY <2>1, <2>2
<1>5. ASSUME NEW s, NEW m, StandsFor(s, m)'
      PROVE  StandsFor(s, m) \/ (s = sids + 1 /\ m = p.email)
  <2>1. CASE \E e \in Desks : /\ caller'[e] # Idle /\ caller'[e].kind = "shortlist"
                              /\ caller'[e].sid = s /\ caller'[e].p.email = m
    <3>1. PICK e \in Desks : /\ caller'[e] # Idle /\ caller'[e].kind = "shortlist"
                             /\ caller'[e].sid = s /\ caller'[e].p.email = m
      BY <2>1
    <3>2. CASE e = d
      BY <1>3, <3>1, <3>2
    <3>3. CASE e # d
      BY <1>3, <3>1, <3>3 DEF StandsFor
    <3> QED BY <3>2, <3>3
  <2>2. CASE ~\E e \in Desks : /\ caller'[e] # Idle /\ caller'[e].kind = "shortlist"
                               /\ caller'[e].sid = s /\ caller'[e].p.email = m
    BY <1>2, <1>5, <2>2 DEF StandsFor
  <2> QED BY <2>1, <2>2
<1>6. \A m : ~StandsFor(sids + 1, m)
  BY <1>2 DEF OutreachInv
<1>7. \A s, m : StandsFor(s, m)' => s \in 0 .. sids'
  BY <1>2, <1>5 DEF OutreachInv
<1>8. \A s, m, n : StandsFor(s, m)' /\ StandsFor(s, n)' => m = n
  BY <1>5, <1>6 DEF OutreachInv
<1>9. \A e \in Desks : (caller'[e] # Idle /\ caller'[e].kind = "form") => caller'[e].email = caller'[e].by
  BY <1>3 DEF OutreachInv
<1> QED BY <1>4, <1>7, <1>8, <1>9 DEF OutreachInv

(* A call that ends leaves what is written down to the names it had.        *)
LEMMA CallEnds ==
  ASSUME OutreachInv, NEW d \in Desks, HangsUp(d), slate' \in Seq(SlateRow),
         UNCHANGED <<sids, links>>,
         \A j \in DOMAIN slate' : \A s, m :
           slate'[j].sid = s /\ slate'[j].email = m => StandsFor(s, m)
  PROVE  OutreachInv'
<1>1. /\ caller' = [e \in Desks |-> caller'[e]]
      /\ \A e \in Desks : caller'[e] = caller[e] \/ caller'[e] = Idle
  BY DEF HangsUp, OutreachInv, OutreachTypes
<1>2. OutreachTypes'
  BY <1>1 DEF OutreachInv, OutreachTypes
<1>3. \A link \in links' : StandsFor(link.sid, link.to)
  BY WrittenStands
<1>4. sids' \in Nat /\ sids <= sids'
  BY DEF OutreachInv, OutreachTypes
<1> QED BY <1>1, <1>2, <1>3, <1>4, NothingNew

(* A call that begins with nothing written down but a link to a known id.   *)
LEMMA CallBegins ==
  ASSUME OutreachInv, NEW d \in Desks, NEW call, Dials(d, call), UNCHANGED <<slate, sids>>,
         call.kind # "shortlist",
         call.kind = "form" => call.email = call.by,
         call.kind = "sweep" => \A i \in DOMAIN call.verdict : call.verdict[i] \in Statuses,
         \A link \in links' : StandsFor(link.sid, link.to)
  PROVE  OutreachInv'
<1>1. /\ caller' = [e \in Desks |-> caller'[e]]
      /\ \A e \in Desks : caller'[e] = caller[e] \/ caller'[e] = call
  BY DEF Dials, OutreachInv, OutreachTypes
<1>2. OutreachTypes'
  BY <1>1 DEF OutreachInv, OutreachTypes
<1>3. \A j \in DOMAIN slate' : \A s, m :
        slate'[j].sid = s /\ slate'[j].email = m => StandsFor(s, m)
  BY WrittenStands
<1>4. sids' \in Nat /\ sids <= sids'
  BY DEF OutreachInv, OutreachTypes
<1>5. \A e \in Desks : \/ caller'[e] = caller[e] \/ caller'[e] = Idle
                       \/ caller'[e].kind \notin {"shortlist", "form"}
                       \/ caller'[e].kind = "form" /\ caller'[e].email = caller'[e].by
  BY <1>1
<1> QED BY <1>2, <1>3, <1>4, <1>5, NothingNew

(* A change of the rows alone.                                             *)
LEMMA RowsChange ==
  ASSUME OutreachInv, slate' \in Seq(SlateRow), UNCHANGED <<sids, links, caller>>,
         \A j \in DOMAIN slate' : \A s, m :
           slate'[j].sid = s /\ slate'[j].email = m => StandsFor(s, m)
  PROVE  OutreachInv'
<1>1. OutreachTypes' /\ sids' \in Nat /\ sids <= sids'
  BY DEF OutreachInv, OutreachTypes
<1>2. \A link \in links' : StandsFor(link.sid, link.to)
  BY WrittenStands
<1> QED BY <1>1, <1>2, NothingNew

(* Rows rewritten in place, each with the id and the address it had.        *)
LEMMA RowsRewritten ==
  ASSUME OutreachTypes, NEW g, slate' = g, g = [i \in DOMAIN slate |-> g[i]],
         \A i \in DOMAIN slate : /\ g[i] \in SlateRow
                                 /\ g[i].sid = slate[i].sid /\ g[i].email = slate[i].email
  PROVE  /\ slate' \in Seq(SlateRow)
         /\ \A j \in DOMAIN slate' : \A s, m :
              slate'[j].sid = s /\ slate'[j].email = m => StandsFor(s, m)
<1>1. g \in Seq(SlateRow) /\ DOMAIN g = DOMAIN slate
  BY RowsMapped DEF OutreachTypes
<1> QED BY <1>1, WrittenStands

(* The document a request writes: row i with another status, or none.       *)
LEMMA RowAmended ==
  ASSUME OutreachTypes, NEW i, NEW r, slate' = Amended(i, r),
         i \in DOMAIN slate => /\ r \in SlateRow
                               /\ r.sid = slate[i].sid /\ r.email = slate[i].email
  PROVE  /\ slate' \in Seq(SlateRow)
         /\ \A j \in DOMAIN slate' : \A s, m :
              slate'[j].sid = s /\ slate'[j].email = m => StandsFor(s, m)
<1>1. CASE slate' = slate
  BY <1>1, WrittenStands DEF OutreachTypes
<1>2. CASE slate' = [slate EXCEPT ![i] = r]
  BY <1>2, SlateKept, WrittenStands
<1> QED BY <1>1, <1>2 DEF Amended

LEMMA StoreShortlistedStep ==
  ASSUME OutreachInv, NEW d \in Desks, StoreShortlisted(d) PROVE OutreachInv'
<1> DEFINE c == caller[d]
<1>1. /\ c # Idle /\ c.kind = "shortlist" /\ HangsUp(d) /\ UNCHANGED <<sids, links>>
      /\ slate \in Seq(SlateRow) /\ c.sid \in Nat /\ c.p \in Hits /\ c.opening \in Openings
  BY DEF StoreShortlisted, OutreachInv, OutreachTypes
<1>2. StandsFor(c.sid, c.p.email)
  BY <1>1 DEF StandsFor
<1>3. \A row \in SlateRow : \A before \in BOOLEAN :
        LET r == [Renewed(row, c) EXCEPT !.replied = before]
            n == [Renewed(row, c) EXCEPT !.sid = c.sid, !.replied = before]
        IN  /\ r \in SlateRow /\ r.sid = c.sid /\ r.email = c.p.email
            /\ n \in SlateRow /\ n.sid = c.sid /\ n.email = c.p.email
  <2> HIDE DEF c
  <2>1. c.p.url \in Urls /\ c.p.email \in Mails
    BY <1>1 DEF Urls, Mails, c
  <2>2. c.sid \in Nat
    BY <1>1 DEF c
  <2> SUFFICES ASSUME NEW row \in SlateRow, NEW before \in BOOLEAN
               PROVE  LET r == [Renewed(row, c) EXCEPT !.replied = before]
                          n == [Renewed(row, c) EXCEPT !.sid = c.sid, !.replied = before]
                      IN  /\ r \in SlateRow /\ r.sid = c.sid /\ r.email = c.p.email
                          /\ n \in SlateRow /\ n.sid = c.sid /\ n.email = c.p.email
    OBVIOUS
  <2> DEFINE q == Renewed(row, c)
  <2>3. q \in SlateRow /\ q.sid = c.sid /\ q.email = c.p.email
    BY <2>1, <2>2 DEF Renewed, SlateRow, Statuses
  <2> HIDE DEF q
  <2>4. LET r == [q EXCEPT !.replied = before]
        IN  r \in SlateRow /\ r.sid = c.sid /\ r.email = c.p.email
    BY <2>3 DEF SlateRow
  <2>5. LET n == [q EXCEPT !.sid = c.sid, !.replied = before]
        IN  n \in SlateRow /\ n.sid = c.sid /\ n.email = c.p.email
    BY <2>2, <2>3 DEF SlateRow
  <2> QED BY <2>4, <2>5 DEF q
<1> HIDE DEF c
<1>4. [NoRow EXCEPT !.opening = c.opening] \in SlateRow
  BY <1>1, NoRowType DEF SlateRow
<1>5. CASE \E n \in SlateRow : n.sid = c.sid /\ n.email = c.p.email /\ slate' = Append(slate, n)
  <2>1. PICK n \in SlateRow : n.sid = c.sid /\ n.email = c.p.email /\ slate' = Append(slate, n)
    BY <1>5
  <2>2. /\ slate' \in Seq(SlateRow)
        /\ \A j \in DOMAIN slate' : (j \in DOMAIN slate /\ slate'[j] = slate[j]) \/ slate'[j] = n
    BY <1>1, <2>1, RowsAppended
  <2>3. \A j \in DOMAIN slate' : \A s, m :
          slate'[j].sid = s /\ slate'[j].email = m => StandsFor(s, m)
    BY <1>2, <2>1, <2>2, WrittenStands
  <2> QED BY <1>1, <2>2, <2>3, CallEnds
<1>6. CASE \E i, r : /\ slate' = [slate EXCEPT ![i] = r]
                     /\ i \in DOMAIN slate =>
                          r \in SlateRow /\ r.sid = c.sid /\ r.email = c.p.email
  <2>1. PICK i, r : /\ slate' = [slate EXCEPT ![i] = r]
                    /\ i \in DOMAIN slate =>
                         r \in SlateRow /\ r.sid = c.sid /\ r.email = c.p.email
    BY <1>6
  <2>2. i \in DOMAIN slate => StandsFor(r.sid, r.email)
    BY <1>2, <2>1
  <2>3. /\ slate' \in Seq(SlateRow)
        /\ \A j \in DOMAIN slate' : \A s, m :
             slate'[j].sid = s /\ slate'[j].email = m => StandsFor(s, m)
    BY <2>1, <2>2, SlateKept DEF OutreachInv
  <2> QED BY <1>1, <2>3, CallEnds
<1> DEFINE i == OnSlate(c.p.url, c.opening)
           fresh == [NoRow EXCEPT !.opening = c.opening]
<1>7. PICK before \in BOOLEAN :
        \/ slate' = Append(slate, [Renewed(fresh, c) EXCEPT !.sid = c.sid, !.replied = before])
        \/ slate' = [slate EXCEPT ![i] = [Renewed(slate[i], c) EXCEPT !.replied = before]]
  BY DEF StoreShortlisted, c
<1> HIDE DEF i
<1>8. CASE slate' = Append(slate, [Renewed(fresh, c) EXCEPT !.sid = c.sid, !.replied = before])
  BY <1>3, <1>4, <1>5, <1>8
<1>9. CASE slate' = [slate EXCEPT ![i] = [Renewed(slate[i], c) EXCEPT !.replied = before]]
  <2>1. i \in DOMAIN slate => slate[i] \in SlateRow
    BY <1>1, RowsShape
  <2> DEFINE r == [Renewed(slate[i], c) EXCEPT !.replied = before]
  <2>2. i \in DOMAIN slate => r \in SlateRow /\ r.sid = c.sid /\ r.email = c.p.email
    BY <1>3, <2>1
  <2>3. slate' = [slate EXCEPT ![i] = r]
    BY <1>9
  <2> HIDE DEF r
  <2> QED BY <1>6, <2>2, <2>3
<1> QED BY <1>7, <1>8, <1>9

(* The status set by hand, the other job, the row removed.                  *)
LEMMA EditRowStep ==
  ASSUME OutreachInv, NEW i \in DOMAIN slate, EditRow(i) PROVE OutreachInv'
<1>1. slate[i] \in SlateRow /\ UNCHANGED <<sids, links, caller>>
  BY RowsShape DEF OutreachInv, OutreachTypes, EditRow
<1>2. PICK r : slate' = [slate EXCEPT ![i] = r] /\ r \in SlateRow /\ StandsFor(r.sid, r.email)
  <2>1. StandsFor(NoRow.sid, NoRow.email) /\ NoRow \in SlateRow
    BY NoRowType DEF StandsFor
  <2>2. \A status \in ByHand : LET r == [slate[i] EXCEPT !.status = status]
                               IN  /\ r \in SlateRow /\ r.sid = slate[i].sid
                                   /\ r.email = slate[i].email
    BY <1>1, OutreachAssumption DEF SlateRow, Statuses
  <2>3. \A opening \in Openings : LET r == [slate[i] EXCEPT !.opening = opening]
                                  IN  /\ r \in SlateRow /\ r.sid = slate[i].sid
                                      /\ r.email = slate[i].email
    BY <1>1 DEF SlateRow
  <2>4. StandsFor(slate[i].sid, slate[i].email)
    BY WrittenStands
  <2> QED BY <2>1, <2>2, <2>3, <2>4 DEF EditRow
<1>3. /\ slate' \in Seq(SlateRow)
      /\ \A j \in DOMAIN slate' : \A s, m :
           slate'[j].sid = s /\ slate'[j].email = m => StandsFor(s, m)
  BY <1>2, SlateKept DEF OutreachInv
<1> QED BY <1>1, <1>3, RowsChange

(* A mailed link carries the id and the address of one row.                 *)
LEMMA SendJDStep ==
  ASSUME OutreachInv, NEW d \in Desks, NEW email, NEW opening, SendJD(d, email, opening),
         Named(email, opening) # 0 => /\ Named(email, opening) \in DOMAIN slate
                                      /\ slate[Named(email, opening)].email = email
  PROVE  OutreachInv'
<1>1. \A link \in links' : StandsFor(link.sid, link.to)
  BY WrittenStands DEF SendJD
<1> QED BY <1>1, CallBegins DEF SendJD

(* A row that is found is a row.                                            *)
LEMMA FoundRow ==
  ASSUME OutreachInv, NEW set \in SUBSET DOMAIN slate
  PROVE  First(set) # 0 => First(set) \in set
<1>1. set \subseteq Nat
  BY RowsShape DEF OutreachInv, OutreachTypes
<1> QED BY <1>1, LeastMember DEF First

(* The status written when a mail went out, by either mail or by the form.  *)
LEMMA RecordStep ==
  ASSUME OutreachInv, NEW d \in Desks, RecordSent(d) \/ RecordContact(d) \/ StoreInterest(d)
  PROVE  OutreachInv'
<1>1. PICK i, r : /\ slate' = Amended(i, r) /\ HangsUp(d) /\ UNCHANGED <<sids, links>>
                  /\ \/ r = [slate[i] EXCEPT !.status = "mail_sent"]
                     \/ r = [slate[i] EXCEPT !.status = "Contacted", !.asked = "lately", !.replied = FALSE]
                     \/ r = [slate[i] EXCEPT !.status = "Interest Expressed"]
  BY DEF RecordSent, RecordContact, StoreInterest
<1>2. i \in DOMAIN slate => /\ r \in SlateRow
                            /\ r.sid = slate[i].sid /\ r.email = slate[i].email
  <2>1. i \in DOMAIN slate => slate[i] \in SlateRow
    BY RowsShape DEF OutreachInv, OutreachTypes
  <2> QED BY <1>1, <2>1 DEF SlateRow, Statuses
<1>3. /\ slate' \in Seq(SlateRow)
      /\ \A j \in DOMAIN slate' : \A s, m :
           slate'[j].sid = s /\ slate'[j].email = m => StandsFor(s, m)
  BY <1>1, <1>2, RowAmended DEF OutreachInv
<1> QED BY <1>1, <1>3, CallEnds

(* The form is opened at the row its link leads to: by OutreachInv a row of *)
(* the one it was mailed to.                                                *)
LEMMA OpenFormStep ==
  ASSUME OutreachInv, NEW d \in Desks, NEW link \in links, OpenForm(d, link) PROVE OutreachInv'
<1>1. PICK i \in DOMAIN slate :
        /\ slate[i].sid = link.sid
        /\ Dials(d, [kind |-> "form", sid |-> link.sid, email |-> slate[i].email, by |-> link.to])
        /\ UNCHANGED <<slate, sids, links>>
  BY DEF OpenForm
<1>2. slate[i].email = link.to
  BY <1>1, WrittenStands DEF OutreachInv
<1> QED BY <1>1, <1>2, WrittenStands, CallBegins

(* What a sweep takes down and writes are statuses.                         *)
LEMMA LoadSweepStep ==
  ASSUME OutreachInv, NEW d \in Desks, LoadSweep(d) PROVE OutreachInv'
<1> DEFINE verdict == [i \in {k \in DOMAIN slate : slate[k].status = "Contacted"} |->
                          Verdict(slate[i])]
<1>1. \A i \in DOMAIN verdict : verdict[i] \in Statuses
  <2>1. \A row \in SlateRow : Verdict(row) \in Statuses
    BY DEF Verdict, SlateRow, Statuses
  <2> QED BY <2>1, RowsShape DEF OutreachInv, OutreachTypes
<1>2. Dials(d, [kind |-> "sweep", verdict |-> verdict]) /\ UNCHANGED <<slate, sids, links>>
  BY DEF LoadSweep
<1> HIDE DEF verdict
<1> QED BY <1>1, <1>2, WrittenStands, CallBegins

LEMMA StoreSweepStep ==
  ASSUME OutreachInv, NEW d \in Desks, StoreSweep(d) PROVE OutreachInv'
<1> DEFINE c == caller[d]
           judged(i) == Kept(i) /\ i \in DOMAIN c.verdict /\ c.verdict[i] # "Contacted"
           g == [i \in DOMAIN slate |-> IF judged(i) THEN [slate[i] EXCEPT !.status = c.verdict[i]]
                                        ELSE slate[i]]
<1>1. slate' = g /\ HangsUp(d) /\ UNCHANGED <<sids, links>>
  BY DEF StoreSweep
<1>2. \A i \in DOMAIN slate : judged(i) => c.verdict[i] \in Statuses
  BY DEF StoreSweep, OutreachInv, OutreachTypes
<1>3. \A i \in DOMAIN slate : slate[i] \in SlateRow
  BY RowsShape DEF OutreachInv, OutreachTypes
<1>4. \A i \in DOMAIN slate : /\ g[i] \in SlateRow
                              /\ g[i].sid = slate[i].sid /\ g[i].email = slate[i].email
  <2> SUFFICES ASSUME NEW i \in DOMAIN slate
               PROVE  /\ g[i] \in SlateRow
                      /\ g[i].sid = slate[i].sid /\ g[i].email = slate[i].email
    OBVIOUS
  <2>1. CASE judged(i)
    <3>1. g[i] = [slate[i] EXCEPT !.status = c.verdict[i]] /\ c.verdict[i] \in Statuses
      BY <1>2, <2>1
    <3> HIDE DEF g, c
    <3> QED BY <1>3, <3>1 DEF SlateRow
  <2>2. CASE ~judged(i)
    BY <1>3, <2>2
  <2> QED BY <2>1, <2>2
<1>5. g = [i \in DOMAIN slate |-> g[i]]
  OBVIOUS
<1> HIDE DEF g
<1> QED BY <1>1, <1>4, <1>5, RowsRewritten, CallEnds DEF OutreachInv

(* A reply is synced, or the window for replies closes.                     *)
LEMMA MarkStep ==
  ASSUME OutreachInv, WindowCloses \/ \E email \in Mails : SyncReply(email) PROVE OutreachInv'
<1>1. \A i \in DOMAIN slate : slate[i] \in SlateRow
  BY RowsShape DEF OutreachInv, OutreachTypes
<1> DEFINE Rewrites(g) ==
             /\ slate' = g /\ g = [i \in DOMAIN slate |-> g[i]]
             /\ \A i \in DOMAIN slate : /\ g[i] \in SlateRow
                                        /\ g[i].sid = slate[i].sid /\ g[i].email = slate[i].email
<1>2. PICK g : Rewrites(g)
  <2>1. CASE WindowCloses
    <3> DEFINE g == [i \in DOMAIN slate |->
                       [slate[i] EXCEPT !.asked = IF @ = "never" THEN @ ELSE "long ago"]]
    <3>1. \A i \in DOMAIN slate : /\ g[i] \in SlateRow
                                  /\ g[i].sid = slate[i].sid /\ g[i].email = slate[i].email
      BY <1>1 DEF SlateRow
    <3> QED BY <2>1, <3>1 DEF WindowCloses
  <2>2. ASSUME NEW email \in Mails, SyncReply(email) PROVE \E g : Rewrites(g)
    <3> DEFINE g == [i \in DOMAIN slate |-> IF slate[i].email = email
                                            THEN [slate[i] EXCEPT !.replied = TRUE] ELSE slate[i]]
    <3>1. \A i \in DOMAIN slate : /\ g[i] \in SlateRow
                                  /\ g[i].sid = slate[i].sid /\ g[i].email = slate[i].email
      BY <1>1 DEF SlateRow
    <3> QED BY <2>2, <3>1 DEF SyncReply
  <2> QED BY <2>1, <2>2
<1>3. UNCHANGED <<sids, links, caller>>
  BY DEF WindowCloses, SyncReply
<1> QED BY <1>2, <1>3, RowsRewritten, RowsChange DEF OutreachInv

LEMMA OutreachStep == OutreachInv /\ [OutreachNext]_outreachVars => OutreachInv'
<1> SUFFICES ASSUME OutreachInv, [OutreachNext]_outreachVars PROVE OutreachInv'
  OBVIOUS
<1>1. ASSUME NEW d \in Desks, CallerNext(d) PROVE OutreachInv'
  <2>1. ASSUME NEW email \in Mails, NEW opening \in Openings, SendJD(d, email, opening)
        PROVE  OutreachInv'
    <3>1. Named(email, opening) # 0 => /\ Named(email, opening) \in DOMAIN slate
                                       /\ slate[Named(email, opening)].email = email
      BY FoundRow DEF Named
    <3> QED BY <2>1, <3>1, SendJDStep
  <2>2. ASSUME NEW email \in Mails, Contact(d, email) PROVE OutreachInv'
    BY <2>2, WrittenStands, CallBegins DEF Contact
  <2>3. CASE CallDrops(d)
    BY <2>3, WrittenStands, CallEnds DEF CallDrops, OutreachInv, OutreachTypes
  <2> QED BY <1>1, <2>1, <2>2, <2>3, ShortlistStep, StoreShortlistedStep, RecordStep,
             OpenFormStep, LoadSweepStep, StoreSweepStep DEF CallerNext
<1>2. CASE UNCHANGED outreachVars
  <2>1. /\ slate' = slate /\ UNCHANGED <<sids, links, caller>>
        /\ slate' \in Seq(SlateRow)
    BY <1>2 DEF outreachVars, OutreachInv, OutreachTypes
  <2> QED BY <2>1, WrittenStands, RowsChange
<1> QED BY <1>1, <1>2, EditRowStep, MarkStep DEF OutreachNext

(* With any overlap of mailing, shortlisting again under a corrected        *)
(* address, moving, removing and answering, a link finds only the row of    *)
(* the one it was mailed to, and an answer is filed under the address of    *)
(* whoever gave it.                                                        *)
THEOREM AnswersFiled == OutreachSpec => []AnswersAreTheirs
<1>1. OutreachInit => OutreachInv
  <2> SUFFICES ASSUME OutreachInit PROVE OutreachInv
    OBVIOUS
  <2>1. slate = <<>> /\ sids = 0 /\ links = {} /\ caller = [d \in Desks |-> Idle]
    BY DEF OutreachInit
  <2>2. DOMAIN slate = {} /\ \A d \in Desks : caller[d] = Idle
    BY <2>1
  <2>3. \A s, m : StandsFor(s, m) => s = 0 /\ m = NoRow.email
    <3> SUFFICES ASSUME NEW s, NEW m, StandsFor(s, m) PROVE s = 0 /\ m = NoRow.email
      OBVIOUS
    <3> QED BY <2>1, <2>2, NoRowType DEF StandsFor
  <2>4. OutreachTypes
    BY <2>1, <2>2 DEF OutreachTypes
  <2>5. \A s, m : StandsFor(s, m) => s \in 0 .. sids
    <3> SUFFICES ASSUME NEW s, NEW m, StandsFor(s, m) PROVE s \in 0 .. sids
      OBVIOUS
    <3>1. s = 0
      BY <2>3, Zenon
    <3> QED BY <2>1, <3>1
  <2>6. \A s, m, n : StandsFor(s, m) /\ StandsFor(s, n) => m = n
    BY <2>3
  <2> QED BY <2>2, <2>4, <2>5, <2>6 DEF OutreachInv
<1>2. OutreachInv => AnswersAreTheirs
  BY WrittenStands DEF OutreachInv, AnswersAreTheirs
<1> QED BY <1>1, <1>2, OutreachStep, PTL DEF OutreachSpec

-------------------------------------------------------------------------------
(* RoundRules *)

RuleRec == [kind : Kinds \cup {"none"}, at : Stages \cup {Elsewhere}, by : {"form", "pilot"},
            moved : BOOLEAN, late : BOOLEAN]

\* What a request may be about to write to the rules as they stand.
PenGood(w) ==
  /\ w.rows \in Seq(RuleRec)
  /\ \/ \A k \in DOMAIN w.rows : w.rows[k].by = "pilot"
     \/ /\ w.move = 0
        /\ \E kind \in Kinds, at \in Stages :
              w.rows = <<Row(kind, at, "form")>> /\ w.doomed = ArmedFor(kind, at)
  /\ w.life \in {"", "live", "deleted"}
  /\ w.life = "deleted" => DOMAIN w.rows = {} /\ w.move = 0 /\ w.doomed = Armed
  /\ w.at \in Stages \cup {Elsewhere, 0}
  /\ w.move # 0 => w.at \in Stages \cup {Elsewhere}

(* One request at a time finds the rules as it left them when it was        *)
(* drafted.                                                                *)
RulesInv ==
  /\ staffed \in {{CHOOSE d \in Desks : TRUE}, Desks}
  /\ pen = [d \in Desks |-> pen[d]]
  /\ \A d \in Desks : pen[d] # Idle => d \in staffed
  /\ Alone =>
       /\ rules \in Seq(RuleRec)
       /\ post.life \in {"none", "live", "deleted"}
       /\ \A d \in Desks : pen[d] # Idle => PenGood(pen[d])
       /\ \A i, j \in Armed : (rules[i].kind = rules[j].kind /\ rules[i].at = rules[j].at) =>
            \/ i = j
            \/ rules[i].by = "pilot" \/ rules[i].moved
            \/ rules[j].by = "pilot" \/ rules[j].moved
       /\ post.life = "deleted" => \A i \in Armed : rules[i].late \/ rules[i].moved

LEMMA DraftStep ==
  ASSUME RulesInv, NEW d \in Desks, NEW w, Draft(d, w), Alone => PenGood(w)
  PROVE  RulesInv'
<1>1. /\ pen' = [pen EXCEPT ![d] = w] /\ d \in staffed
      /\ UNCHANGED <<staffed, post, rules>>
  BY DEF Draft
<1>2. Alone' = Alone /\ Armed' = Armed
  BY <1>1 DEF Alone, Armed, Standing
<1>3. ASSUME NEW e \in Desks, pen'[e] # Idle, Alone PROVE PenGood(pen[e])'
  <2>1. e \in staffed
    BY <1>1, <1>3 DEF RulesInv
  <2>2. e = d
    BY <1>1, <1>3, <2>1, OnlyDesk DEF RulesInv
  <2>3. pen'[e] = w
    BY <1>1, <2>2 DEF RulesInv
  <2>4. \A kind, at : ArmedFor(kind, at)' = ArmedFor(kind, at)
    BY <1>1, <1>2 DEF ArmedFor
  <2>5. PenGood(w)
    BY <1>3
  <2> QED BY <1>2, <2>3, <2>4, <2>5 DEF PenGood
<1>4. pen' = [e \in Desks |-> pen'[e]] /\ \A e \in Desks : pen'[e] # Idle => e \in staffed'
  BY <1>1 DEF RulesInv
<1> QED BY <1>1, <1>2, <1>3, <1>4 DEF RulesInv

(* Every request drafts what PenGood says.                                 *)
LEMMA DraftsGood ==
  ASSUME RulesInv, NEW d \in Desks, PenNext(d), ~CommitRules(d), ~Withdraw(d)
  PROVE  RulesInv'
<1>1. ASSUME NEW kind \in Kinds, NEW at \in Stages, ArmRound(d, kind, at) PROVE RulesInv'
  <2> DEFINE w == [NoChange EXCEPT !.rows = <<Row(kind, at, "form")>>, !.doomed = ArmedFor(kind, at)]
  <2>1. Draft(d, w)
    BY <1>1 DEF ArmRound, Replaced
  <2>2. Row(kind, at, "form") \in RuleRec
    BY DEF Row, RuleRec
  <2>3. <<Row(kind, at, "form")>> \in Seq(RuleRec)
    BY <2>2, OneRow
  <2>4. PenGood(w)
    BY <2>3 DEF PenGood, NoChange
  <2> HIDE DEF w
  <2> QED BY <2>1, <2>4, DraftStep
<1>2. ASSUME NEW kind \in Kinds, NEW at \in Stages, Setup(d, kind, at) PROVE RulesInv'
  <2> DEFINE row == Row(kind, at, "pilot")
             w == [NoChange EXCEPT !.rows = <<row>>]
  <2>1. Draft(d, w)
    BY <1>2 DEF Setup
  <2>2. row \in RuleRec /\ row.by = "pilot"
    BY DEF Row, RuleRec
  <2> HIDE DEF row
  <2>3. <<row>> \in Seq(RuleRec) /\ \A k \in DOMAIN <<row>> : <<row>>[k] = row
    BY <2>2, OneRow
  <2>4. PenGood(w)
    BY <2>2, <2>3 DEF PenGood, NoChange
  <2> HIDE DEF w
  <2> QED BY <2>1, <2>4, DraftStep
<1>3. CASE BuildPipeline(d)
  <2> DEFINE w == [NoChange EXCEPT !.rows = Pipeline, !.life = "live", !.rounds = 5]
  <2>1. Draft(d, w)
    BY <1>3 DEF BuildPipeline
  <2>2. /\ Pipeline = [k \in DOMAIN Pipeline |-> Pipeline[k]]
        /\ \A k \in DOMAIN Pipeline : Pipeline[k] \in RuleRec /\ Pipeline[k].by = "pilot"
    <3> DEFINE S == [kind : Kinds, at : Stages, by : {"pilot"}, moved : {FALSE}, late : {FALSE}]
    <3>1. \A row \in S : row \in RuleRec /\ row.by = "pilot"
      BY DEF RuleRec
    <3>2. Pipeline \in Seq(S)
      BY RoundRulesAssumption
    <3> HIDE DEF S
    <3> QED BY <3>1, <3>2, RowsShape
  <2>3. Pipeline \in Seq(RuleRec)
    BY <2>2, RowsMapped, RoundRulesAssumption
  <2>4. PenGood(w)
    BY <2>2, <2>3 DEF PenGood, NoChange
  <2> HIDE DEF w
  <2> QED BY <2>1, <2>4, DraftStep
<1>4. <<>> \in Seq(RuleRec) /\ DOMAIN <<>> = {}
  OBVIOUS
<1>5. CASE DeletePost(d)
  <2> DEFINE w == [NoChange EXCEPT !.life = "deleted", !.doomed = Armed]
  <2>1. Draft(d, w)
    BY <1>5 DEF DeletePost
  <2>2. PenGood(w)
    BY <1>4 DEF PenGood, NoChange
  <2> HIDE DEF w
  <2> QED BY <2>1, <2>2, DraftStep
<1>6. ASSUME NEW w, Draft(d, w),
             w.rows = <<>>, w.life \in {"", "live"},
             w.at \in Stages \cup {Elsewhere, 0}, w.move # 0 => w.at \in Stages \cup {Elsewhere}
      PROVE  RulesInv'
  <2>1. PenGood(w)
    BY <1>4, <1>6 DEF PenGood
  <2> QED BY <1>6, <2>1, DraftStep
<1>7. ASSUME NEW i, NEW at \in Stages \cup {Elsewhere}, ChangeRule(d, i, at) PROVE RulesInv'
  <2> DEFINE w == [NoChange EXCEPT !.move = i, !.at = at]
  <2>1. Draft(d, w) /\ w.rows = <<>> /\ w.life = "" /\ w.at = at
    BY <1>7 DEF ChangeRule, NoChange
  <2> HIDE DEF w
  <2> QED BY <1>6, <2>1
<1>8. ASSUME NEW i, DropRule(d, i) PROVE RulesInv'
  <2> DEFINE w == [NoChange EXCEPT !.drop = i]
  <2>1. Draft(d, w) /\ w.rows = <<>> /\ w.life = "" /\ w.at = 0 /\ w.move = 0
    BY <1>8 DEF DropRule, NoChange
  <2> HIDE DEF w
  <2> QED BY <1>6, <2>1
<1>9. ASSUME NEW n, SetRounds(d, n) PROVE RulesInv'
  <2> DEFINE w == [NoChange EXCEPT !.rounds = n]
  <2>1. Draft(d, w) /\ w.rows = <<>> /\ w.life = "" /\ w.at = 0 /\ w.move = 0
    BY <1>9 DEF SetRounds, NoChange
  <2> HIDE DEF w
  <2> QED BY <1>6, <2>1
<1>10. ASSUME NEW n, CreatePost(d, n) PROVE RulesInv'
  <2> DEFINE w == [NoChange EXCEPT !.life = "live", !.rounds = n]
  <2>1. Draft(d, w) /\ w.rows = <<>> /\ w.life = "live" /\ w.at = 0 /\ w.move = 0
    BY <1>10 DEF CreatePost, NoChange
  <2> HIDE DEF w
  <2> QED BY <1>6, <2>1
<1>11. CASE RestorePost(d)
  <2> DEFINE w == [NoChange EXCEPT !.life = "live"]
  <2>1. Draft(d, w) /\ w.rows = <<>> /\ w.life = "live" /\ w.at = 0 /\ w.move = 0
    BY <1>11 DEF RestorePost, NoChange
  <2> HIDE DEF w
  <2> QED BY <1>6, <2>1
<1> QED BY <1>1, <1>2, <1>3, <1>5, <1>7, <1>8, <1>9, <1>10, <1>11 DEF PenNext

(* What a commit leaves of the rules: a row of before that is gone, moved   *)
(* or as it was, or a new row.                                             *)
LEMMA StoredRules ==
  ASSUME rules \in Seq(RuleRec), NEW w, PenGood(w)
  PROVE  /\ RuleStored(w) \in Seq(RuleRec)
         /\ DOMAIN rules \subseteq DOMAIN RuleStored(w)
         /\ \A i \in DOMAIN rules :
              RuleStored(w)[i] = IF i \in w.doomed \cup {w.drop} THEN Gone
                                 ELSE IF i = w.move THEN [rules[i] EXCEPT !.at = w.at, !.moved = TRUE]
                                 ELSE rules[i]
         /\ \A i \in DOMAIN RuleStored(w) \ DOMAIN rules :
              /\ i - Len(rules) \in DOMAIN w.rows
              /\ RuleStored(w)[i] = [w.rows[i - Len(rules)] EXCEPT !.late = post.life = "deleted"]
<1> DEFINE kept(i) == IF i \in w.doomed \cup {w.drop} THEN Gone
                      ELSE IF i = w.move THEN [rules[i] EXCEPT !.at = w.at, !.moved = TRUE]
                      ELSE rules[i]
           f == [i \in DOMAIN rules |-> kept(i)]
           late == post.life = "deleted"
           g == [k \in DOMAIN w.rows |-> [w.rows[k] EXCEPT !.late = late]]
<1>1. f = [i \in DOMAIN rules |-> f[i]] /\ g = [k \in DOMAIN w.rows |-> g[k]]
  OBVIOUS
<1>2. \A i \in DOMAIN rules : f[i] \in RuleRec
  <2>1. Gone \in RuleRec
    BY DEF Gone, Row, RuleRec
  <2>2. \A i \in DOMAIN rules : rules[i] \in RuleRec /\ i # 0
    BY RowsShape
  <2>3. ASSUME NEW i \in DOMAIN rules, i = w.move
        PROVE  [rules[i] EXCEPT !.at = w.at, !.moved = TRUE] \in RuleRec
    BY <2>2, <2>3 DEF PenGood, RuleRec
  <2> QED BY <2>1, <2>2, <2>3
<1>3. w.rows \in Seq(RuleRec)
  BY DEF PenGood
<1>4. \A k \in DOMAIN w.rows : g[k] \in RuleRec
  <2>1. \A k \in DOMAIN w.rows : w.rows[k] \in RuleRec
    BY <1>3, RowsShape
  <2> QED BY <2>1 DEF RuleRec
<1>5. RuleStored(w) = f \o g
  BY DEF RuleStored
<1>6. /\ \A i \in DOMAIN rules : f[i] = kept(i)
      /\ \A k \in DOMAIN w.rows : g[k] = [w.rows[k] EXCEPT !.late = late]
  OBVIOUS
<1> HIDE DEF f, g, kept
<1>7. f \in Seq(RuleRec) /\ DOMAIN f = DOMAIN rules /\ Len(f) = Len(rules)
  BY <1>1, <1>2, RowsMapped
<1>8. g \in Seq(RuleRec) /\ DOMAIN g = DOMAIN w.rows
  BY <1>1, <1>3, <1>4, RowsMapped
<1>9. /\ RuleStored(w) \in Seq(RuleRec)
      /\ DOMAIN rules \subseteq DOMAIN RuleStored(w)
      /\ \A i \in DOMAIN rules : RuleStored(w)[i] = kept(i)
      /\ \A i \in DOMAIN RuleStored(w) \ DOMAIN rules :
           /\ i - Len(rules) \in DOMAIN w.rows
           /\ RuleStored(w)[i] = [w.rows[i - Len(rules)] EXCEPT !.late = late]
  <2> DEFINE p == f \o g
  <2>1. /\ p \in Seq(RuleRec) /\ DOMAIN f \subseteq DOMAIN p
        /\ \A i \in DOMAIN f : p[i] = f[i]
        /\ \A i \in DOMAIN p \ DOMAIN f : i - Len(f) \in DOMAIN g /\ p[i] = g[i - Len(f)]
    BY <1>7, <1>8, RowsJoined
  <2> HIDE DEF p
  <2>2. RuleStored(w) = p
    BY <1>5 DEF p
  <2> QED BY <1>6, <1>7, <1>8, <2>1, <2>2
<1> QED BY <1>9 DEF kept

LEMMA CommitRulesStep ==
  ASSUME RulesInv, NEW d \in Desks, CommitRules(d) PROVE RulesInv'
<1> DEFINE w == pen[d]
<1>1. /\ w # Idle /\ rules' = RuleStored(w) /\ pen' = [pen EXCEPT ![d] = Idle] /\ staffed' = staffed
      /\ post'.life = IF w.life = "" THEN post.life ELSE w.life
  BY DEF CommitRules
<1>2. pen' = [e \in Desks |-> pen'[e]] /\ \A e \in Desks : pen'[e] # Idle => pen[e] # Idle /\ e # d
  BY <1>1 DEF RulesInv
<1>3. Alone' = Alone
  BY <1>1 DEF Alone
<1>4. SUFFICES ASSUME Alone
               PROVE  /\ rules' \in Seq(RuleRec)
                      /\ post'.life \in {"none", "live", "deleted"}
                      /\ \A e \in Desks : pen'[e] = Idle
                      /\ \A i, j \in Armed' :
                           (rules'[i].kind = rules'[j].kind /\ rules'[i].at = rules'[j].at) =>
                              \/ i = j
                              \/ rules'[i].by = "pilot" \/ rules'[i].moved
                              \/ rules'[j].by = "pilot" \/ rules'[j].moved
                      /\ post'.life = "deleted" => \A i \in Armed' : rules'[i].late \/ rules'[i].moved
  BY <1>1, <1>2, <1>3 DEF RulesInv
<1>5. PenGood(w) /\ rules \in Seq(RuleRec) /\ post.life \in {"none", "live", "deleted"}
  BY <1>1, <1>4 DEF RulesInv
<1> HIDE DEF w
<1>6. /\ rules' \in Seq(RuleRec) /\ DOMAIN rules \subseteq DOMAIN rules'
      /\ \A i \in DOMAIN rules :
           rules'[i] = IF i \in w.doomed \cup {w.drop} THEN Gone
                       ELSE IF i = w.move THEN [rules[i] EXCEPT !.at = w.at, !.moved = TRUE]
                       ELSE rules[i]
      /\ \A i \in DOMAIN rules' \ DOMAIN rules :
           /\ i - Len(rules) \in DOMAIN w.rows
           /\ rules'[i] = [w.rows[i - Len(rules)] EXCEPT !.late = post.life = "deleted"]
  BY <1>1, <1>5, StoredRules
<1>7. \A i \in DOMAIN rules : rules[i] \in RuleRec
  BY <1>5, RowsShape
<1>8. ASSUME NEW i \in Armed', i \in DOMAIN rules
      PROVE  /\ i \notin w.doomed
             /\ \/ i \in Armed /\ rules'[i] = rules[i]
                \/ rules'[i].moved /\ i = w.move
  <2>1. rules'[i] # Gone /\ rules'[i].at # Elsewhere
    BY <1>8 DEF Armed, Standing
  <2>2. i \notin w.doomed \cup {w.drop}
    BY <1>6, <1>8, <2>1
  <2>3. CASE i = w.move
    BY <1>6, <1>7, <1>8, <2>1, <2>2, <2>3 DEF RuleRec
  <2>4. CASE i # w.move
    BY <1>6, <1>8, <2>1, <2>2, <2>4 DEF Armed, Standing
  <2> QED BY <2>2, <2>3, <2>4
<1>9. w.life = "deleted" => Armed' \subseteq {}
  <2> SUFFICES ASSUME w.life = "deleted", NEW i \in Armed' PROVE FALSE
    OBVIOUS
  <2>1. DOMAIN w.rows = {} /\ w.move = 0 /\ w.doomed = Armed
    BY <1>5 DEF PenGood
  <2>2. i \in DOMAIN rules
    BY <1>6, <2>1 DEF Armed, Standing
  <2>3. i # 0
    BY <1>5, <2>2, RowsShape
  <2> QED BY <1>8, <2>1, <2>2, <2>3
<1>10. ASSUME NEW i \in Armed', post.life = "deleted" PROVE rules'[i].late \/ rules'[i].moved
  <2>1. CASE i \in DOMAIN rules
    BY <1>4, <1>8, <1>10, <2>1 DEF RulesInv
  <2>2. CASE i \notin DOMAIN rules
    <3> DEFINE k == i - Len(rules)
    <3>1. k \in DOMAIN w.rows /\ rules'[i] = [w.rows[k] EXCEPT !.late = TRUE]
      BY <1>6, <1>10, <2>2 DEF Armed, Standing
    <3>2. w.rows[k] \in RuleRec
      BY <1>5, <3>1, RowsShape DEF PenGood
    <3> HIDE DEF k
    <3> QED BY <3>1, <3>2 DEF RuleRec
  <2> QED BY <2>1, <2>2
<1>11. post'.life = "deleted" => \A i \in Armed' : rules'[i].late \/ rules'[i].moved
  BY <1>1, <1>5, <1>9, <1>10 DEF w
<1>12. ASSUME NEW i \in Armed', i \notin DOMAIN rules
       PROVE  \/ rules'[i].by = "pilot"
              \/ /\ w.move = 0 /\ i = Len(rules) + 1
                 /\ w.doomed = ArmedFor(rules'[i].kind, rules'[i].at)
  <2> DEFINE k == i - Len(rules)
  <2>1. k \in DOMAIN w.rows /\ rules'[i] = [w.rows[k] EXCEPT !.late = post.life = "deleted"]
    BY <1>6, <1>12 DEF Armed, Standing
  <2>2. w.rows[k] \in RuleRec
    BY <1>5, <2>1, RowsShape DEF PenGood
  <2>3. i \in Int /\ Len(rules) \in Int
    <3>1. i \in DOMAIN rules'
      BY DEF Armed, Standing
    <3>2. DOMAIN rules' \subseteq Int
      <4>1. rules' \in Seq(RuleRec)
        BY <1>6
      <4> QED BY <4>1, RowsShape
    <3>3. Len(rules) \in Nat
      BY <1>5, RowsShape
    <3> QED BY <3>1, <3>2, <3>3
  <2>4. /\ rules'[i].by = w.rows[k].by /\ rules'[i].kind = w.rows[k].kind
        /\ rules'[i].at = w.rows[k].at
    <3> HIDE DEF k
    <3> QED BY <2>1, <2>2 DEF RuleRec
  <2>5. CASE \A j \in DOMAIN w.rows : w.rows[j].by = "pilot"
    BY <2>1, <2>4, <2>5
  <2>6. ASSUME NEW kind \in Kinds, NEW at \in Stages, w.move = 0,
               w.rows = <<Row(kind, at, "form")>>, w.doomed = ArmedFor(kind, at)
        PROVE  /\ i = Len(rules) + 1
               /\ w.doomed = ArmedFor(rules'[i].kind, rules'[i].at)
    <3> DEFINE row == Row(kind, at, "form")
    <3>1. row \in RuleRec /\ row.kind = kind /\ row.at = at
      BY DEF Row, RuleRec
    <3> HIDE DEF row
    <3>2. DOMAIN w.rows = {1} /\ w.rows[1] = row
      BY <2>6, <3>1, OneRow DEF row
    <3>3. k = 1
      BY <2>1, <3>2
    <3> QED BY <2>3, <2>4, <2>6, <3>1, <3>2, <3>3
  <2> QED BY <1>5, <2>5, <2>6 DEF PenGood
<1>13. ASSUME NEW i \in Armed', NEW j \in Armed', i \in DOMAIN rules,
              rules'[i].kind = rules'[j].kind, rules'[i].at = rules'[j].at
       PROVE  \/ i = j
              \/ rules'[i].by = "pilot" \/ rules'[i].moved
              \/ rules'[j].by = "pilot" \/ rules'[j].moved
  <2>1. CASE j \in DOMAIN rules
    BY <1>4, <1>8, <1>13, <2>1 DEF RulesInv
  <2>2. CASE j \notin DOMAIN rules
    <3> SUFFICES ASSUME w.move = 0, w.doomed = ArmedFor(rules'[j].kind, rules'[j].at)
                 PROVE  FALSE
      BY <1>8, <1>12, <1>13, <2>2
    <3>1. i \in Nat /\ i # 0
      BY <1>5, <1>13, RowsShape
    <3>2. i \in Armed /\ rules'[i] = rules[i]
      BY <1>8, <1>13, <3>1
    <3> QED BY <1>8, <1>13, <3>2 DEF ArmedFor
  <2> QED BY <2>1, <2>2
<1>14. ASSUME NEW i \in Armed', NEW j \in Armed', i \notin DOMAIN rules, j \notin DOMAIN rules
       PROVE  i = j \/ rules'[i].by = "pilot" \/ rules'[j].by = "pilot"
  BY <1>12, <1>14
<1>15. \A e \in Desks : pen'[e] = Idle
  <2> SUFFICES ASSUME NEW e \in Desks, pen'[e] # Idle PROVE FALSE
    OBVIOUS
  <2>1. e \in staffed /\ d \in staffed /\ e # d
    BY <1>1, <1>2 DEF RulesInv, w
  <2> QED BY <1>4, <2>1, OnlyDesk DEF RulesInv
<1>16. \A i, j \in Armed' :
         (rules'[i].kind = rules'[j].kind /\ rules'[i].at = rules'[j].at) =>
            \/ i = j
            \/ rules'[i].by = "pilot" \/ rules'[i].moved
            \/ rules'[j].by = "pilot" \/ rules'[j].moved
  BY <1>13, <1>14
<1>17. post'.life \in {"none", "live", "deleted"}
  BY <1>1, <1>5 DEF PenGood, w
<1> QED BY <1>6, <1>11, <1>15, <1>16, <1>17

LEMMA RulesStep == RulesInv /\ [RulesNext]_ruleVars => RulesInv'
<1> SUFFICES ASSUME RulesInv, [RulesNext]_ruleVars PROVE RulesInv'
  OBVIOUS
<1>1. ASSUME NEW g, pen' = g, g = [e \in Desks |-> g[e]],
             \A e \in Desks : g[e] # Idle => g[e] = pen[e],
             UNCHANGED <<staffed, post, rules>>
      PROVE  RulesInv'
  <2>1. /\ Alone' = Alone /\ Armed' = Armed
        /\ \A kind, at : ArmedFor(kind, at)' = ArmedFor(kind, at)
    BY <1>1 DEF Alone, Armed, Standing, ArmedFor
  <2>2. ASSUME NEW e \in Desks, pen'[e] # Idle, Alone PROVE PenGood(pen[e])'
    <3>1. pen'[e] = pen[e] /\ PenGood(pen[e])
      BY <1>1, <2>2 DEF RulesInv
    <3> QED BY <2>1, <3>1 DEF PenGood
  <2>3. pen' = [e \in Desks |-> pen'[e]] /\ \A e \in Desks : pen'[e] # Idle => e \in staffed'
    BY <1>1 DEF RulesInv
  <2> QED BY <1>1, <2>1, <2>2, <2>3 DEF RulesInv
<1>2. ASSUME NEW d \in Desks, PenNext(d) PROVE RulesInv'
  <2>1. CASE Withdraw(d)
    <3>1. [pen EXCEPT ![d] = Idle] = [e \in Desks |-> [pen EXCEPT ![d] = Idle][e]]
      BY DEF RulesInv
    <3> QED BY <1>1, <2>1, <3>1 DEF Withdraw, RulesInv
  <2> QED BY <1>2, <2>1, CommitRulesStep, DraftsGood
<1>3. ASSUME NEW i, BeginWork(i) PROVE RulesInv'
  BY <1>1, <1>3 DEF BeginWork, RulesInv
<1>4. CASE UNCHANGED ruleVars
  BY <1>1, <1>4 DEF ruleVars, RulesInv
<1> QED BY <1>2, <1>3, <1>4 DEF RulesNext

(* One request at a time, over any order of arming, moving, dropping,       *)
(* deleting and restoring and any number of rules: a second rule for a      *)
(* round was armed by the assistant or moved there, and a deleted job keeps *)
(* no rule of its life but one moved to another job and back.               *)
THEOREM RulesAlone == RulesSpec => []RulesFitTheJob
<1>1. RulesInit => RulesInv
  <2> SUFFICES ASSUME RulesInit PROVE RulesInv
    OBVIOUS
  <2>1. rules \in Seq(RuleRec) /\ Armed = {}
    BY DEF RulesInit, Armed, Standing
  <2>2. \A d \in Desks : pen[d] = Idle
    BY DEF RulesInit
  <2> QED BY <2>1, <2>2 DEF RulesInit, StaffedInit, RulesInv
<1>2. RulesInv => RulesFitTheJob
  BY DEF RulesInv, RulesFitTheJob, ArmedFor
<1> QED BY <1>1, <1>2, RulesStep, PTL DEF RulesSpec

-------------------------------------------------------------------------------
(* InterviewSlots *)

SlotRec == [day : Nat, at : Nat, spare : BOOLEAN]

(* The request at work holds the slot the search would find again, and an   *)
(* interview of the window lies on no day after it: the day that those past *)
(* the window are put on is one the search has never used.                  *)
SlotsInv ==
  /\ staffed \in {{CHOOSE d \in Desks : TRUE}, Desks}
  /\ rule \in SlotRules /\ today \in Nat
  /\ booker = [d \in Desks |-> booker[d]]
  /\ \A d \in Desks : booker[d] # Idle => d \in staffed
  /\ Alone =>
       /\ booked \in Seq(SlotRec)
       /\ \A d \in Desks : booker[d] # Idle => booker[d] = FindAvailableSlot
       /\ \A i \in DOMAIN booked : ~booked[i].spare => booked[i].day <= EndDay
       /\ SlotsDoNotClash

LEMMA GreaterOf ==
  ASSUME NEW a \in Nat, NEW b \in Nat
  PROVE  Max({a, b}) \in Nat /\ Max({a, b}) >= a /\ Max({a, b}) >= b /\ Max({a, b}) \in {a, b}
<1>1. {a, b} \in SUBSET Int /\ {a, b} # {} /\ (\A y \in {a, b} : y <= a + b) /\ a + b \in Int
  OBVIOUS
<1>2. Max({a, b}) \in {a, b} /\ \A y \in {a, b} : Max({a, b}) >= y
  BY <1>1, GreatestMember
<1> QED BY <1>2

(* The days and the limit of a rule.                                       *)
LEMMA SlotNumbers ==
  ASSUME SlotsInv
  PROVE  /\ Minutes \in Nat /\ DailyLimit \in Nat /\ FirstDay \in Nat /\ EndDay \in Nat
         /\ FirstDay >= today + 1 /\ FirstDay >= rule.from /\ FirstDay \in {today + 1, rule.from}
         /\ rule.starts \in Nat /\ rule.ends \in Nat /\ rule.slots \subseteq Nat
         /\ rule.from \in Nat /\ rule.until \in Nat
<1>1. /\ rule.starts \in Nat /\ rule.ends \in Nat /\ rule.slots \subseteq Nat
      /\ rule.duration \in Nat /\ rule.limit \in Nat
      /\ rule.from \in Nat /\ rule.until \in Nat /\ today + 1 \in Nat
  BY SlotsAssumption DEF SlotsInv
<1>2. Minutes \in Nat /\ DailyLimit \in Nat
  BY <1>1, GreaterOf DEF Minutes, DailyLimit
<1>3. /\ FirstDay \in Nat /\ FirstDay >= today + 1 /\ FirstDay >= rule.from
      /\ FirstDay \in {today + 1, rule.from}
  BY <1>1, GreaterOf DEF FirstDay
<1>4. EndDay \in Nat
  BY <1>1, <1>3, SlotsAssumption DEF EndDay
<1> QED BY <1>1, <1>2, <1>3, <1>4

(* What the search finds: a free time of an open day of the window, or the  *)
(* day after it.                                                           *)
LEMMA SlotFound ==
  ASSUME SlotsInv
  PROVE  LET s == FindAvailableSlot
         IN  /\ s \in SlotRec
             /\ s.spare => s.day = EndDay + 1
             /\ ~s.spare => /\ s.day <= EndDay /\ s.at \in OpenTimes(s.day)
<1> DEFINE s == FindAvailableSlot
           open == {day \in FirstDay .. EndDay : day < FirstDay + Horizon /\ OpenTimes(day) # {}}
<1>1. Offered \subseteq Nat
  BY SlotNumbers DEF Offered
<1>2. \A day : OpenTimes(day) \subseteq Nat
  BY <1>1 DEF OpenTimes
<1>3. open \subseteq Nat
  BY SlotNumbers
<1>4. CASE open # {}
  <2> DEFINE day == Min(open)
             at == Min(OpenTimes(day))
  <2>1. s = [day |-> day, at |-> at, spare |-> FALSE]
    BY <1>4 DEF FindAvailableSlot
  <2>2. day \in open
    <3> HIDE DEF open
    <3> QED BY <1>3, <1>4, LeastMember
  <2> HIDE DEF day
  <2>3. day \in Nat /\ day <= EndDay /\ OpenTimes(day) # {}
    BY <1>3, <2>2, SlotNumbers
  <2>4. at \in OpenTimes(day) /\ at \in Nat
    BY <1>2, <2>3, LeastMember
  <2> HIDE DEF at
  <2> QED BY <2>1, <2>3, <2>4 DEF SlotRec
<1>5. CASE open = {}
  <2> DEFINE at == IF rule.slots # {} THEN Min(rule.slots) ELSE rule.starts
  <2>1. s = [day |-> EndDay + 1, spare |-> TRUE, at |-> at]
    BY <1>5 DEF FindAvailableSlot
  <2>2. at \in Nat
    BY SlotNumbers, LeastMember
  <2> HIDE DEF at
  <2> QED BY <2>1, <2>2, SlotNumbers DEF SlotRec
<1> QED BY <1>4, <1>5

(* Storing what the search finds.                                          *)
LEMMA BookedStep ==
  ASSUME SlotsInv, Alone, NEW d \in Desks, BookCommit(d)
  PROVE  /\ booked' \in Seq(SlotRec)
         /\ \A i \in DOMAIN booked' : ~booked'[i].spare => booked'[i].day <= EndDay'
         /\ SlotsDoNotClash'
<1>0. PICK s : s = FindAvailableSlot
  OBVIOUS
<1> DEFINE n == Len(booked) + 1
<1>1. booked' = Append(booked, s) /\ UNCHANGED <<staffed, rule, today>>
  BY <1>0 DEF BookCommit, SlotsInv
<1>2. EndDay' = EndDay /\ Minutes' = Minutes /\ DailyLimit' = DailyLimit
  BY <1>1 DEF EndDay, FirstDay, Minutes, DailyLimit
<1>3. /\ s \in SlotRec
      /\ s.spare => s.day = EndDay + 1
      /\ ~s.spare => s.day <= EndDay /\ s.at \in OpenTimes(s.day)
  BY <1>0, SlotFound
<1>4. booked \in Seq(SlotRec)
  BY DEF SlotsInv
<1>5. /\ booked' \in Seq(SlotRec)
      /\ DOMAIN booked' = DOMAIN booked \cup {n} /\ n \notin DOMAIN booked
      /\ booked'[n] = s
      /\ \A i \in DOMAIN booked : booked'[i] = booked[i]
  BY <1>1, <1>3, <1>4, RowsAppended
<1>6. DOMAIN booked = 1 .. Len(booked) /\ Len(booked) \in Nat
      /\ \A i \in DOMAIN booked : booked[i] \in SlotRec
  BY <1>4, RowsShape
<1>7. \A i \in DOMAIN booked' : ~booked'[i].spare => booked'[i].day <= EndDay'
  BY <1>2, <1>3, <1>5 DEF SlotsInv
<1>8. ASSUME NEW j \in DOMAIN booked
      PROVE  {i \in TakenOn(booked[j].day)' : i < j} = {i \in TakenOn(booked[j].day) : i < j}
  <2>1. \A i \in DOMAIN booked' : i < j => i \in DOMAIN booked
    BY <1>5, <1>6, <1>8
  <2> QED BY <1>5, <1>8, <2>1 DEF TakenOn
<1>9. {i \in TakenOn(s.day)' : i < n} = TakenOn(s.day)
  BY <1>5, <1>6 DEF TakenOn
<1>10. SUFFICES ASSUME NEW j \in DOMAIN booked'
                PROVE  LET earlier == {i \in TakenOn(booked[j].day)' : i < j}
                       IN  IF booked'[j].spare THEN \A i \in earlier : booked'[i].spare
                           ELSE /\ booked'[j].day \notin Weekend
                                /\ Cardinality(earlier) < DailyLimit
                                /\ \A i \in earlier : \/ booked'[i].at + Minutes <= booked'[j].at
                                                      \/ booked'[j].at + Minutes <= booked'[i].at
  BY <1>2, <1>5, <1>7 DEF SlotsDoNotClash
<1>11. CASE j \in DOMAIN booked
  <2>1. \A i \in TakenOn(booked[j].day) : i \in DOMAIN booked
    BY DEF TakenOn
  <2> QED BY <1>5, <1>8, <1>11, <2>1 DEF SlotsInv, SlotsDoNotClash
<1>12. CASE j = n
  <2>1. booked'[j] = s
    BY <1>5, <1>12
  <2>2. \A i \in TakenOn(s.day) : i \in DOMAIN booked /\ booked'[i] = booked[i] /\ booked[i].day = s.day
    BY <1>5 DEF TakenOn
  <2>3. CASE s.spare
    <3>1. \A i \in TakenOn(s.day) : booked[i].spare
      BY <1>3, <1>6, <2>2, <2>3, SlotNumbers DEF SlotsInv
    <3> QED BY <1>9, <1>12, <2>1, <2>2, <2>3, <3>1
  <2>4. CASE ~s.spare
    <3>1. /\ s.day \notin Weekend /\ ~(Cardinality(TakenOn(s.day)) >= DailyLimit)
          /\ \A i \in TakenOn(s.day) : ~Clash(booked[i].at, s.at)
      BY <1>3, <2>4 DEF OpenTimes
    <3>2. Cardinality(TakenOn(s.day)) \in Nat
      <4>1. IsFiniteSet(1 .. Len(booked)) /\ TakenOn(s.day) \in SUBSET (1 .. Len(booked))
        BY <1>6, FS_Interval DEF TakenOn
      <4> QED BY <4>1, FS_Subset, FS_CardinalityType
    <3>3. Cardinality(TakenOn(s.day)) < DailyLimit
      BY <3>1, <3>2, SlotNumbers
    <3>4. ASSUME NEW i \in TakenOn(s.day)
          PROVE  booked'[i].at + Minutes <= s.at \/ s.at + Minutes <= booked'[i].at
      <4>1. booked[i].at \in Nat /\ s.at \in Nat
        BY <1>3, <1>6, <2>2 DEF SlotRec
      <4> QED BY <2>2, <3>1, <4>1, SlotNumbers DEF Clash
    <3> QED BY <1>9, <1>12, <2>1, <2>4, <3>1, <3>3, <3>4
  <2> QED BY <2>3, <2>4
<1> QED BY <1>5, <1>11, <1>12

LEMMA SlotsStep == SlotsInv /\ [SlotsNext]_slotVars => SlotsInv'
<1> SUFFICES ASSUME SlotsInv, [SlotsNext]_slotVars PROVE SlotsInv'
  OBVIOUS
<1>1. ASSUME UNCHANGED <<staffed, rule, today>>
      PROVE  /\ Alone' = Alone /\ EndDay' = EndDay /\ Minutes' = Minutes /\ DailyLimit' = DailyLimit
             /\ booked' = booked => /\ FindAvailableSlot' = FindAvailableSlot
                                    /\ SlotsDoNotClash' = SlotsDoNotClash
  <2>1. /\ Alone' = Alone /\ FirstDay' = FirstDay /\ EndDay' = EndDay
        /\ Minutes' = Minutes /\ DailyLimit' = DailyLimit
    BY <1>1 DEF Alone, EndDay, FirstDay, Minutes, DailyLimit
  <2> SUFFICES ASSUME booked' = booked
               PROVE  FindAvailableSlot' = FindAvailableSlot /\ SlotsDoNotClash' = SlotsDoNotClash
    BY <2>1
  <2>2. Offered' = Offered
    BY <1>1, <2>1 DEF Offered
  <2>3. \A day : TakenOn(day)' = TakenOn(day)
    BY DEF TakenOn
  <2>4. \A day : OpenTimes(day)' = OpenTimes(day)
    BY <2>1, <2>2, <2>3 DEF OpenTimes, Clash
  <2>5. FindAvailableSlot' = FindAvailableSlot
    BY <1>1, <2>1, <2>4 DEF FindAvailableSlot
  <2>6. SlotsDoNotClash' = SlotsDoNotClash
    BY <2>1, <2>3 DEF SlotsDoNotClash
  <2> QED BY <2>5, <2>6
<1>2. ASSUME NEW d \in Desks, Book(d) PROVE SlotsInv'
  <2>1. /\ booker' = [booker EXCEPT ![d] = FindAvailableSlot] /\ d \in staffed
        /\ UNCHANGED <<staffed, rule, today, booked>>
    BY <1>2 DEF Book
  <2>2. /\ booker' = [e \in Desks |-> booker'[e]]
        /\ \A e \in Desks : booker'[e] # Idle => e \in staffed'
    BY <2>1 DEF SlotsInv
  <2>3. ASSUME Alone, NEW e \in Desks, booker'[e] # Idle PROVE booker'[e] = FindAvailableSlot'
    BY <1>1, <2>1, <2>3 DEF SlotsInv
  <2> QED BY <1>1, <2>1, <2>2, <2>3 DEF SlotsInv
<1>3. ASSUME NEW d \in Desks, BookCommit(d) PROVE SlotsInv'
  <2>1. /\ booker' = [booker EXCEPT ![d] = Idle] /\ booker[d] # Idle
        /\ UNCHANGED <<staffed, rule, today>>
    BY <1>3 DEF BookCommit
  <2>2. /\ booker' = [e \in Desks |-> booker'[e]]
        /\ \A e \in Desks : booker'[e] # Idle => e # d /\ booker[e] # Idle /\ e \in staffed'
    BY <2>1 DEF SlotsInv
  <2>3. ASSUME Alone, NEW e \in Desks PROVE booker'[e] = Idle
    BY <2>1, <2>2, <2>3, OnlyDesk DEF SlotsInv
  <2> QED BY <1>1, <1>3, <2>1, <2>2, <2>3, BookedStep DEF SlotsInv
<1>4. ASSUME NEW d \in Desks, BookAbandon(d) PROVE SlotsInv'
  <2>1. booker' = [booker EXCEPT ![d] = Idle] /\ UNCHANGED <<staffed, rule, today, booked>>
    BY <1>4 DEF BookAbandon
  <2>2. /\ booker' = [e \in Desks |-> booker'[e]]
        /\ \A e \in Desks : booker'[e] # Idle => booker'[e] = booker[e]
    BY <2>1 DEF SlotsInv
  <2> QED BY <1>1, <2>1, <2>2 DEF SlotsInv
<1>5. CASE NextDay
  <2>1. /\ today' = today + 1 /\ (\A d \in Desks : booker'[d] = Idle)
        /\ UNCHANGED <<staffed, rule, booked, booker>>
    BY <1>5 DEF NextDay
  <2>2. /\ Alone' = Alone
        /\ SlotsDoNotClash' = SlotsDoNotClash
    BY <2>1 DEF Alone, SlotsDoNotClash, TakenOn, Minutes, DailyLimit
  <2>3. today' \in Nat
    BY <2>1 DEF SlotsInv
  <2>4. FirstDay' \in Nat /\ FirstDay <= FirstDay'
    <3>1. FirstDay' = Max({(today + 1) + 1, rule.from})
      BY <2>1 DEF FirstDay
    <3>2. (today + 1) + 1 \in Nat
      BY <2>3, <2>1 DEF SlotsInv
    <3>3. rule.from \in Nat /\ FirstDay \in {today + 1, rule.from} /\ today \in Nat
      BY SlotNumbers DEF SlotsInv
    <3>4. FirstDay' \in Nat /\ FirstDay' >= (today + 1) + 1 /\ FirstDay' >= rule.from
      BY <3>1, <3>2, <3>3, GreaterOf
    <3> QED BY <3>3, <3>4
  <2>5. EndDay <= EndDay' /\ EndDay' \in Nat
    <3>1. EndDay' = IF rule.until >= FirstDay' THEN rule.until ELSE FirstDay' + Horizon
      BY <2>1 DEF EndDay
    <3>2. rule.until \in Nat /\ FirstDay \in Nat /\ Horizon \in Nat
      BY SlotNumbers, SlotsAssumption
    <3>3. EndDay = IF rule.until >= FirstDay THEN rule.until ELSE FirstDay + Horizon
      BY DEF EndDay
    <3>4. \A u, f, g, h \in Nat :
            f <= g => /\ (IF u >= f THEN u ELSE f + h) <= (IF u >= g THEN u ELSE g + h)
                      /\ (IF u >= g THEN u ELSE g + h) \in Nat
      OBVIOUS
    <3> QED BY <2>4, <3>1, <3>2, <3>3, <3>4
  <2>6. ASSUME Alone, NEW i \in DOMAIN booked, ~booked[i].spare PROVE booked[i].day <= EndDay'
    <3>1. booked[i].day \in Nat /\ booked[i].day <= EndDay
      <4>1. booked \in Seq(SlotRec) /\ booked[i].day <= EndDay
        BY <2>6 DEF SlotsInv
      <4>2. booked[i] \in SlotRec
        BY <2>6, <4>1, RowsShape
      <4> QED BY <4>1, <4>2 DEF SlotRec
    <3> QED BY <2>5, <3>1, SlotNumbers
  <2> QED BY <2>1, <2>2, <2>3, <2>6 DEF SlotsInv
<1>6. CASE UNCHANGED slotVars
  BY <1>1, <1>6 DEF slotVars, SlotsInv
<1> QED BY <1>2, <1>3, <1>4, <1>5, <1>6 DEF SlotsNext

(* One request at a time, for any rule, over days that pass and windows     *)
(* that move or run out: an interview found within the window clashes with  *)
(* none booked before it and keeps the day's limit, and one put past the    *)
(* window never lands on a day that the search had used.                    *)
THEOREM SlotsAlone == SlotsSpec => []SlotsDoNotClash
<1>1. SlotsInit => SlotsInv
  <2> SUFFICES ASSUME SlotsInit PROVE SlotsInv
    OBVIOUS
  <2>1. booked \in Seq(SlotRec) /\ DOMAIN booked = {} /\ \A d \in Desks : booker[d] = Idle
    BY DEF SlotsInit
  <2> QED BY <2>1 DEF SlotsInit, StaffedInit, SlotsInv, SlotsDoNotClash
<1>2. SlotsInv => SlotsDoNotClash
  BY DEF SlotsInv, SlotsDoNotClash
<1> QED BY <1>1, <1>2, SlotsStep, PTL DEF SlotsSpec

-------------------------------------------------------------------------------
(* JobBoard *)

PostingRec == [board : Boards, live : BOOLEAN, here : BOOLEAN]

\* What a request may be about to write to the postings as they stand.
SeatGood(w) ==
  w.kind = "publish" =>
    /\ w.rows \in Seq(PostingRec)
    /\ \A k \in DOMAIN w.rows : On(w.rows[k].board) = {}
    /\ \A k, l \in DOMAIN w.rows : w.rows[k].board = w.rows[l].board => k = l
    /\ \A i \in DOMAIN w.kept : w.kept[i] \in BOOLEAN

(* One request at a time finds the postings as they were when it looked     *)
(* for the rows of its boards.                                             *)
BoardInv ==
  /\ staffed \in {{CHOOSE d \in Desks : TRUE}, Desks}
  /\ seat = [d \in Desks |-> seat[d]]
  /\ \A d \in Desks : seat[d] # Idle => d \in staffed
  /\ (Alone /\ NamedOnce) =>
       /\ postings \in Seq(PostingRec)
       /\ \A i, j \in DOMAIN postings :
            (postings[i].here /\ postings[j].here /\ postings[i].board = postings[j].board) => i = j
       /\ \A d \in Desks : seat[d] # Idle => SeatGood(seat[d])

(* A list that names as many boards as it has names names none twice.       *)
LEMMA NamesApart ==
  ASSUME NamedOnce, NEW ask \in Asks, NEW k \in DOMAIN ask, NEW l \in DOMAIN ask,
         BoardOf[ask[k]] = BoardOf[ask[l]]
  PROVE  k = l
<1> DEFINE S == 1 .. Len(ask)
           T == {BoardOf[n] : n \in Range(ask)}
           f == [i \in S |-> BoardOf[ask[i]]]
<1>1. Len(ask) \in Nat /\ DOMAIN ask = S
  BY JobBoardAssumption, RowsShape
<1>2. f \in Surjection(S, T)
  BY <1>1 DEF Surjection, Range
<1>3. IsFiniteSet(S) /\ Cardinality(S) = Len(ask)
  <2>1. \A n \in Nat : IsFiniteSet(1 .. n) /\ Cardinality(1 .. n) = n
    BY FS_Interval
  <2> QED BY <1>1, <2>1
<1>4. Cardinality(T) = Len(ask)
  BY DEF NamedOnce
<1>5. f[k] = f[l] /\ k \in S /\ l \in S /\ DOMAIN f = S
  BY <1>1
<1> HIDE DEF S, T, f
<1>6. f \in Injection(S, T)
  BY <1>2, <1>3, <1>4, FS_Surjection
<1> QED BY <1>5, <1>6 DEF Injection, IsInjective

(* The names a request found no row for, each once.                         *)
LEMMA ListedOnce ==
  ASSUME NEW P, IsFiniteSet(P)
  PROVE  LET s == SetToSeq(P)
         IN  /\ s \in Seq(P)
             /\ \A k, l \in DOMAIN s : s[k] = s[l] => k = l
<1> DEFINE n == Cardinality(P)
           s == SetToSeq(P)
<1>1. n \in Nat /\ ExistsBijection(1 .. n, P)
  BY FS_CardinalityType
<1>2. \E f \in [1 .. n -> P] : IsInjective(f)
  BY <1>1 DEF ExistsBijection, Bijection, Injection
<1>3. s \in [1 .. n -> P] /\ IsInjective(s)
  BY <1>2 DEF SetToSeq
<1> HIDE DEF s
<1>4. s \in Seq(P)
  BY <1>1, <1>3, SeqDef
<1>5. \A k, l \in DOMAIN s : s[k] = s[l] => k = l
  BY <1>3 DEF IsInjective
<1> QED BY <1>4, <1>5 DEF s

(* A request that sits down with what SeatGood says.                        *)
LEMMA SitStep ==
  ASSUME BoardInv, NEW d \in Desks, NEW w, Sit(d, w), (Alone /\ NamedOnce) => SeatGood(w)
  PROVE  BoardInv'
<1>1. /\ seat' = [seat EXCEPT ![d] = w] /\ d \in staffed
      /\ UNCHANGED <<staffed, postings>>
  BY DEF Sit
<1>2. Alone' = Alone /\ NamedOnce' = NamedOnce /\ \A board : On(board)' = On(board)
  BY <1>1 DEF Alone, On, NamedOnce
<1>3. ASSUME NEW e \in Desks, seat'[e] # Idle, Alone, NamedOnce PROVE SeatGood(seat[e])'
  <2>1. e \in staffed
    BY <1>1, <1>3 DEF BoardInv
  <2>2. e = d
    BY <1>1, <1>3, <2>1, OnlyDesk DEF BoardInv
  <2>3. seat'[e] = w /\ SeatGood(w)
    BY <1>1, <1>3, <2>2 DEF BoardInv
  <2> QED BY <1>2, <2>3 DEF SeatGood
<1>4. seat' = [e \in Desks |-> seat'[e]] /\ \A e \in Desks : seat'[e] # Idle => e \in staffed'
  BY <1>1 DEF BoardInv
<1> QED BY <1>1, <1>2, <1>3, <1>4 DEF BoardInv

LEMMA PublishStep ==
  ASSUME BoardInv, NEW d \in Desks, NEW ask \in Asks, Publish(d, ask)
  PROVE  BoardInv'
<1> DEFINE P == {k \in DOMAIN ask : Found(ask[k]) = {}}
           fresh == SetToSeq(P)
           rows == [k \in DOMAIN fresh |-> Posting(ask[fresh[k]])]
           kept == UNION {Found(n) : n \in Range(ask)}
           w == [kind |-> "publish", rows |-> rows, kept |-> [i \in kept |-> Listed(postings[i].board)]]
<1>1. Sit(d, w)
  BY DEF Publish
<1>2. ask \in Seq(Names) /\ Len(ask) \in Nat /\ DOMAIN ask = 1 .. Len(ask)
      /\ \A k \in DOMAIN ask : ask[k] \in Names
  BY JobBoardAssumption, RowsShape
<1>3. IsFiniteSet(P)
  <2>1. IsFiniteSet(1 .. Len(ask)) /\ P \in SUBSET (1 .. Len(ask))
    BY <1>2, FS_Interval
  <2> HIDE DEF P
  <2> QED BY <2>1, FS_Subset
<1>4. fresh \in Seq(P) /\ \A k, l \in DOMAIN fresh : fresh[k] = fresh[l] => k = l
  <2> HIDE DEF P
  <2> QED BY <1>3, ListedOnce
<1>5. \A n \in Names : Posting(n) \in PostingRec /\ Posting(n).board = BoardOf[n]
  BY DEF Posting, PostingRec, Boards, Listed
<1>6. \A k \in DOMAIN fresh : fresh[k] \in DOMAIN ask /\ On(BoardOf[ask[fresh[k]]]) = {}
  <2>1. \A k \in DOMAIN fresh : fresh[k] \in P
    <3> HIDE DEF P, fresh
    <3> QED BY <1>4, RowsShape
  <2> HIDE DEF fresh
  <2> QED BY <2>1 DEF Found
<1>7. rows = [k \in DOMAIN fresh |-> rows[k]] /\ \A k \in DOMAIN fresh : rows[k] = Posting(ask[fresh[k]])
  OBVIOUS
<1> HIDE DEF rows, fresh, P
<1>8. rows \in Seq(PostingRec) /\ DOMAIN rows = DOMAIN fresh
  BY <1>2, <1>4, <1>5, <1>6, <1>7, RowsMapped
<1>9. ASSUME NamedOnce PROVE SeatGood(w)
  <2>4. \A k \in DOMAIN rows : rows[k].board = BoardOf[ask[fresh[k]]]
    BY <1>2, <1>5, <1>6, <1>7, <1>8
  <2>1. \A k \in DOMAIN rows : On(rows[k].board) = {}
    BY <1>6, <1>8, <2>4
  <2>2. ASSUME NEW k \in DOMAIN rows, NEW l \in DOMAIN rows, rows[k].board = rows[l].board
        PROVE  k = l
    <3>1. BoardOf[ask[fresh[k]]] = BoardOf[ask[fresh[l]]]
      BY <2>2, <2>4
    <3>2. fresh[k] = fresh[l]
      BY <1>6, <1>8, <1>9, <2>2, <3>1, NamesApart
    <3> QED BY <1>4, <1>8, <2>2, <3>2
  <2>3. \A i \in kept : Listed(postings[i].board) \in BOOLEAN
    BY DEF Listed
  <2> HIDE DEF kept
  <2> QED BY <1>8, <2>1, <2>2, <2>3 DEF SeatGood
<1> HIDE DEF w
<1> QED BY <1>1, <1>9, SitStep

LEMMA CommitJobStep ==
  ASSUME BoardInv, NEW d \in Desks, CommitJob(d)
  PROVE  BoardInv'
<1> DEFINE w == seat[d]
           rows == IF w.kind = "publish" THEN w.rows ELSE <<>>
           kept(i) == CASE w.kind = "publish" /\ i \in DOMAIN w.kept ->
                             [postings[i] EXCEPT !.live = w.kept[i]]
                        [] w.kind = "drop" /\ i = w.at -> [postings[i] EXCEPT !.here = FALSE]
                        [] w.kind = "life" /\ w.to = "purged" -> [postings[i] EXCEPT !.here = FALSE]
                        [] OTHER -> postings[i]
           f == [i \in DOMAIN postings |-> kept(i)]
<1>1. /\ w # Idle /\ postings' = f \o rows /\ seat' = [seat EXCEPT ![d] = Idle]
      /\ staffed' = staffed
  BY DEF CommitJob, BoardStored
<1>2. seat' = [e \in Desks |-> seat'[e]] /\ \A e \in Desks : seat'[e] # Idle => seat[e] # Idle /\ e # d
  BY <1>1 DEF BoardInv
<1>3. Alone' = Alone /\ NamedOnce' = NamedOnce
  BY <1>1 DEF Alone, NamedOnce
<1>4. SUFFICES ASSUME Alone, NamedOnce
               PROVE  /\ postings' \in Seq(PostingRec)
                      /\ \A i, j \in DOMAIN postings' :
                           (postings'[i].here /\ postings'[j].here
                            /\ postings'[i].board = postings'[j].board) => i = j
                      /\ \A e \in Desks : seat'[e] = Idle
  BY <1>1, <1>2, <1>3 DEF BoardInv
<1>5. \A e \in Desks : seat'[e] = Idle
  <2> SUFFICES ASSUME NEW e \in Desks, seat'[e] # Idle PROVE FALSE
    OBVIOUS
  <2>1. e \in staffed /\ d \in staffed /\ e # d
    BY <1>1, <1>2 DEF BoardInv
  <2> QED BY <1>4, <2>1, OnlyDesk DEF BoardInv
<1>6. SeatGood(w) /\ postings \in Seq(PostingRec)
  BY <1>1, <1>4 DEF BoardInv
<1>7. \A i \in DOMAIN postings : postings[i] \in PostingRec
  BY <1>6, RowsShape
<1>8. ASSUME NEW i \in DOMAIN postings
      PROVE  /\ f[i] \in PostingRec /\ f[i].board = postings[i].board
             /\ f[i].here => postings[i].here
  <2> HIDE DEF w
  <2>1. f[i] = kept(i)
    BY <1>8
  <2>2. CASE w.kind = "publish" /\ i \in DOMAIN w.kept
    <3>1. w.kept[i] \in BOOLEAN
      BY <1>6, <2>2 DEF SeatGood
    <3>2. f[i] = [postings[i] EXCEPT !.live = w.kept[i]]
      BY <2>1, <2>2
    <3> HIDE DEF f
    <3> QED BY <1>7, <1>8, <3>1, <3>2 DEF PostingRec
  <2>3. CASE f[i] = [postings[i] EXCEPT !.here = FALSE]
    <3> HIDE DEF f
    <3> QED BY <1>7, <1>8, <2>3 DEF PostingRec
  <2>4. CASE f[i] = postings[i]
    BY <1>7, <1>8, <2>4
  <2> QED BY <2>1, <2>2, <2>3, <2>4
<1>9. /\ rows \in Seq(PostingRec)
      /\ \A k \in DOMAIN rows : On(rows[k].board) = {}
      /\ \A k, l \in DOMAIN rows : rows[k].board = rows[l].board => k = l
  <2> HIDE DEF w
  <2>1. CASE w.kind = "publish"
    BY <1>6, <2>1 DEF SeatGood
  <2>2. CASE w.kind # "publish"
    BY <2>2
  <2> QED BY <2>1, <2>2
<1>10. f = [i \in DOMAIN postings |-> f[i]]
  OBVIOUS
<1> HIDE DEF f, rows, w
<1>11. f \in Seq(PostingRec) /\ DOMAIN f = DOMAIN postings /\ Len(f) = Len(postings)
  BY <1>6, <1>8, <1>10, RowsMapped
<1> DEFINE p == f \o rows
<1>12. /\ p \in Seq(PostingRec)
       /\ \A i \in DOMAIN f : p[i] = f[i]
       /\ \A i \in DOMAIN p \ DOMAIN f : i - Len(f) \in DOMAIN rows /\ p[i] = rows[i - Len(f)]
  BY <1>9, <1>11, RowsJoined
<1> HIDE DEF p
<1>13. postings' = p
  BY <1>1 DEF p
<1>14. ASSUME NEW i \in DOMAIN p, NEW j \in DOMAIN p, i \in DOMAIN f,
              p[i].here, p[j].here, p[i].board = p[j].board
       PROVE  i = j
  <2>1. i \in DOMAIN postings /\ postings[i].here /\ postings[i].board = p[i].board
    BY <1>8, <1>11, <1>12, <1>14
  <2>2. CASE j \in DOMAIN f
    <3>1. j \in DOMAIN postings /\ postings[j].here /\ postings[j].board = p[j].board
      BY <1>8, <1>11, <1>12, <1>14, <2>2
    <3> QED BY <1>4, <1>14, <2>1, <3>1 DEF BoardInv
  <2>3. CASE j \notin DOMAIN f
    <3>1. On(p[j].board) = {}
      BY <1>9, <1>12, <1>14, <2>3
    <3> QED BY <1>14, <2>1, <3>1 DEF On
  <2> QED BY <2>2, <2>3
<1>15. ASSUME NEW i \in DOMAIN p, NEW j \in DOMAIN p, i \notin DOMAIN f, j \notin DOMAIN f,
              p[i].board = p[j].board
       PROVE  i = j
  <2>1. i - Len(f) = j - Len(f)
    BY <1>9, <1>12, <1>15
  <2>2. i \in Int /\ j \in Int /\ Len(f) \in Int
    BY <1>11, <1>12, <1>15, RowsShape
  <2> QED BY <2>1, <2>2
<1> QED BY <1>5, <1>12, <1>13, <1>14, <1>15

LEMMA BoardStep == BoardInv /\ [JobBoardNext]_boardVars => BoardInv'
<1> SUFFICES ASSUME BoardInv, [JobBoardNext]_boardVars PROVE BoardInv'
  OBVIOUS
<1>1. ASSUME NEW d \in Desks, NEW w, Sit(d, w), w.kind # "publish" PROVE BoardInv'
  BY <1>1, SitStep DEF SeatGood
<1>2. ASSUME NEW g, seat' = g, g = [e \in Desks |-> g[e]],
             \A e \in Desks : g[e] # Idle => g[e] = seat[e],
             UNCHANGED <<staffed, postings>>
      PROVE  BoardInv'
  <2>1. Alone' = Alone /\ NamedOnce' = NamedOnce /\ \A board : On(board)' = On(board)
    BY <1>2 DEF Alone, On, NamedOnce
  <2>2. ASSUME NEW e \in Desks, seat'[e] # Idle, Alone, NamedOnce PROVE SeatGood(seat[e])'
    <3>1. seat'[e] = seat[e] /\ SeatGood(seat[e])
      BY <1>2, <2>2 DEF BoardInv
    <3> QED BY <2>1, <3>1 DEF SeatGood
  <2>3. seat' = [e \in Desks |-> seat'[e]] /\ \A e \in Desks : seat'[e] # Idle => e \in staffed'
    BY <1>2 DEF BoardInv
  <2> QED BY <1>2, <2>1, <2>2, <2>3 DEF BoardInv
<1>3. ASSUME NEW d \in Desks, BoardsNext(d) PROVE BoardInv'
  <2>1. ASSUME NEW n \in Names, Unpublish(d, n) PROVE BoardInv'
    BY <1>1, <2>1 DEF Unpublish
  <2>2. CASE UpdateJob(d) \/ DeleteJob(d) \/ RestoreJob(d) \/ PurgeJob(d)
    BY <1>1, <2>2 DEF UpdateJob, DeleteJob, RestoreJob, PurgeJob
  <2>3. CASE LeaveSeat(d)
    <3>1. [seat EXCEPT ![d] = Idle] = [e \in Desks |-> [seat EXCEPT ![d] = Idle][e]]
      BY DEF BoardInv
    <3> QED BY <1>2, <2>3, <3>1 DEF LeaveSeat, BoardInv
  <2> QED BY <1>3, <2>1, <2>2, <2>3, PublishStep, CommitJobStep DEF BoardsNext
<1>4. CASE \/ SomebodyApplies \/ UNCHANGED boardVars
           \/ \E board \in Boards : Connect(board) \/ Disconnect(board)
  BY <1>2, <1>4 DEF SomebodyApplies, boardVars, Connect, Disconnect, BoardInv
<1> QED BY <1>3, <1>4 DEF JobBoardNext

(* One request at a time and no board named twice in it: over every history *)
(* of publishing again, under old names too, taking off, closing, deleting  *)
(* and restoring, a job has at most one posting on a board.                 *)
THEOREM PostingsAlone == JobBoardSpec => []OnePostingPerBoard
<1>1. JobBoardInit => BoardInv
  <2> SUFFICES ASSUME JobBoardInit PROVE BoardInv
    OBVIOUS
  <2>1. postings \in Seq(PostingRec) /\ DOMAIN postings = {} /\ \A d \in Desks : seat[d] = Idle
    BY DEF JobBoardInit
  <2> QED BY <2>1 DEF JobBoardInit, StaffedInit, BoardInv
<1>2. BoardInv => OnePostingPerBoard
  <2> SUFFICES ASSUME BoardInv, Alone, NamedOnce, NEW board \in Boards
               PROVE  Cardinality(On(board)) <= 1
    BY DEF OnePostingPerBoard
  <2>1. \A i, j \in On(board) : i = j
    BY DEF On, BoardInv
  <2>2. CASE On(board) = {}
    <3>1. Cardinality(On(board)) = 0
      BY <2>2, FS_EmptySet
    <3> QED BY <3>1
  <2>3. CASE On(board) # {}
    <3>1. PICK i : On(board) = {i}
      BY <2>1, <2>3
    <3>2. Cardinality(On(board)) = 1
      BY <3>1, FS_Singleton
    <3> QED BY <3>2
  <2> QED BY <2>2, <2>3
<1> QED BY <1>1, <1>2, BoardStep, PTL DEF JobBoardSpec

-------------------------------------------------------------------------------
(* Intake *)

States == {"live", "archived", "purged"}
PersonRec == [co : Companies, email : Emails \cup {NoEmail}, state : States]
AppRec == [who : Int, job : Jobs, live : BOOLEAN]
MailRec == [job : Jobs, email : Emails, seen : BOOLEAN]

Whole(w) == w = [people |-> w.people, apps |-> w.apps, drop |-> w.drop, move |-> w.move,
                 keep |-> w.keep, email |-> w.email, state |-> w.state, broken |-> w.broken]

\* The rows of a write: people in the table, or of the write itself, who do not have the jb.
RowsGood(w) ==
  /\ w.people \in Seq(PersonRec) /\ w.apps \in Seq(AppRec)
  /\ \A k \in DOMAIN w.apps :
       \/ /\ w.apps[k].who \in DOMAIN people
          /\ \A a \in LiveApps(w.apps[k].who) : apps[a].job # w.apps[k].job
       \/ w.apps[k].who < 0 /\ -w.apps[k].who \in DOMAIN w.people
  /\ \A k, l \in DOMAIN w.apps :
       (w.apps[k].who = w.apps[l].who /\ w.apps[k].job = w.apps[l].job) => k = l

\* What a request may be about to write; a merge moves applications and adds none.
WorkGood(w) ==
  /\ RowsGood(w)
  /\ w.email \in Emails \cup {NoEmail}
  /\ w.state # <<>> => w.state[2] \in States
  /\ w.move # {} =>
       /\ DOMAIN w.apps = {} /\ w.keep \in DOMAIN people
       /\ \A a, b \in w.move : apps[a].job = apps[b].job => a = b
       /\ \A a \in w.move : \A b \in LiveApps(w.keep) : apps[b].job # apps[a].job

(* One request at a time finds people and applications as they were when it *)
(* looked for them, and an application is always somebody's.                *)
IntakeInv ==
  /\ staffed \in {{CHOOSE d \in Desks : TRUE}, Desks}
  /\ intake = [d \in Desks |-> intake[d]]
  /\ \A d \in Desks : intake[d] # Idle => d \in staffed
  /\ mailbox \in Seq(MailRec)
  /\ Alone =>
       /\ people \in Seq(PersonRec) /\ apps \in Seq(AppRec)
       /\ \A a \in DOMAIN apps : apps[a].who \in DOMAIN people
       /\ OneApplicationPerJob
       /\ \A d \in Desks : intake[d] # Idle => WorkGood(intake[d])

(* Put finds or adds the person and adds the application if there is none.  *)
LEMMA PutKeeps ==
  ASSUME people \in Seq(PersonRec), NEW v, Whole(v), RowsGood(v), NEW co \in Companies,
         NEW jb \in Jobs \cup {NoJob}, NEW email \in Emails \cup {NoEmail}
  PROVE  LET w == Put(v, co, jb, email)
         IN  /\ Whole(w) /\ RowsGood(w)
             /\ w.move = v.move /\ w.state = v.state /\ w.email = v.email
<1> DEFINE found == Match(v, co, email)
           who == IF found = {} THEN -(Len(v.people) + 1) ELSE CHOOSE i \in found : TRUE
           with == IF found = {} THEN [v EXCEPT !.people = Append(@, Person(co, email))] ELSE v
<1>1. v.people \in Seq(PersonRec) /\ v.apps \in Seq(AppRec) /\ Len(v.people) \in Nat
      /\ DOMAIN v.people = 1 .. Len(v.people) /\ DOMAIN people \subseteq Nat
  BY RowsShape DEF RowsGood
<1>2. /\ Whole(with) /\ with.people \in Seq(PersonRec) /\ with.apps = v.apps
      /\ DOMAIN v.people \subseteq DOMAIN with.people
      /\ found = {} => Len(v.people) + 1 \in DOMAIN with.people
      /\ with.move = v.move /\ with.state = v.state /\ with.email = v.email
  <2>1. CASE found = {}
    <3> DEFINE person == Person(co, email)
               more == Append(v.people, person)
    <3>1. person \in PersonRec
      BY DEF Person, PersonRec, States
    <3> HIDE DEF person
    <3>2. more \in Seq(PersonRec) /\ DOMAIN more = DOMAIN v.people \cup {Len(v.people) + 1}
      BY <1>1, <3>1, RowsAppended
    <3>3. with = [v EXCEPT !.people = more]
      BY <2>1 DEF person
    <3> HIDE DEF more, with
    <3> QED BY <2>1, <3>2, <3>3 DEF Whole
  <2>2. CASE found # {}
    BY <1>1, <2>2
  <2> QED BY <2>1, <2>2
<1>3. /\ who \in Int
      /\ \/ who \in DOMAIN people
         \/ who < 0 /\ -who \in DOMAIN with.people
  <2>1. CASE found = {}
    <3>1. who = -(Len(v.people) + 1)
      BY <2>1
    <3> HIDE DEF who, with, found
    <3> QED BY <1>1, <1>2, <2>1, <3>1
  <2>2. CASE found # {}
    <3>1. who \in found
      BY <2>2
    <3>2. \A i \in found : i \in DOMAIN people \/ (\E k \in DOMAIN v.people : i = -k)
      BY DEF Match, Rows
    <3> HIDE DEF who, with, found
    <3>3. CASE who \in DOMAIN people
      BY <1>1, <3>3
    <3>4. ASSUME NEW k \in DOMAIN v.people, who = -k
          PROVE  who \in Int /\ who < 0 /\ -who \in DOMAIN with.people
      <4>1. k \in Nat /\ k > 0
        BY <1>1
      <4>2. -who = k /\ who \in Int /\ who < 0
        BY <3>4, <4>1
      <4> QED BY <1>2, <4>2
    <3> QED BY <3>1, <3>2, <3>3, <3>4
  <2> QED BY <2>1, <2>2
<1> HIDE DEF who, with, found
<1>4. RowsGood(with)
  BY <1>1, <1>2 DEF RowsGood
<1>5. CASE /\ jb # NoJob /\ ~OnJob(v, who, jb)
           /\ Put(v, co, jb, email) = [with EXCEPT !.apps = Append(@, Application(who, jb))]
  <2> DEFINE row == Application(who, jb)
             more == Append(with.apps, row)
             w == [with EXCEPT !.apps = Append(@, Application(who, jb))]
  <2>1. row \in AppRec /\ row.who = who /\ row.job = jb
    BY <1>3, <1>5 DEF Application, AppRec
  <2> HIDE DEF row
  <2>2. /\ more \in Seq(AppRec) /\ DOMAIN more = DOMAIN v.apps \cup {Len(v.apps) + 1}
        /\ Len(v.apps) + 1 \notin DOMAIN v.apps /\ more[Len(v.apps) + 1] = row
        /\ \A k \in DOMAIN v.apps : more[k] = v.apps[k]
    BY <1>1, <1>2, <2>1, RowsAppended
  <2>3. w = [with EXCEPT !.apps = more]
    BY DEF row
  <2> HIDE DEF more, w
  <2>4. /\ Whole(w) /\ w.people = with.people /\ w.apps = more
        /\ w.move = v.move /\ w.state = v.state /\ w.email = v.email
    BY <1>2, <2>3 DEF Whole
  <2>5. /\ \A a \in LiveApps(who) : apps[a].job # jb
        /\ \A k \in DOMAIN v.apps : ~(v.apps[k].who = who /\ v.apps[k].job = jb)
    BY <1>5 DEF OnJob
  <2>6. ASSUME NEW k \in DOMAIN more
        PROVE  \/ /\ more[k].who \in DOMAIN people
                  /\ \A a \in LiveApps(more[k].who) : apps[a].job # more[k].job
               \/ more[k].who < 0 /\ -more[k].who \in DOMAIN with.people
    <3>1. CASE k \in DOMAIN v.apps
      BY <1>2, <1>4, <2>2, <3>1 DEF RowsGood
    <3>2. CASE k = Len(v.apps) + 1
      BY <1>3, <2>1, <2>2, <2>5, <3>2
    <3> QED BY <2>2, <3>1, <3>2
  <2>7. ASSUME NEW k \in DOMAIN more, NEW l \in DOMAIN more,
               more[k].who = more[l].who, more[k].job = more[l].job
        PROVE  k = l
    BY <2>1, <2>2, <2>5, <2>7 DEF RowsGood
  <2>8. RowsGood(w)
    BY <1>2, <2>2, <2>4, <2>6, <2>7 DEF RowsGood
  <2> QED BY <1>5, <2>4, <2>8 DEF w
<1>6. CASE Put(v, co, jb, email) = v
  BY <1>6
<1>7. CASE Put(v, co, jb, email) = [v EXCEPT !.broken = TRUE]
  <2> DEFINE w == [v EXCEPT !.broken = TRUE]
  <2>1. /\ Whole(w) /\ w.people = v.people /\ w.apps = v.apps
        /\ w.move = v.move /\ w.state = v.state /\ w.email = v.email
    <3>1. \A b : LET u == [v EXCEPT !.broken = b]
                 IN  /\ Whole(u) /\ u.people = v.people /\ u.apps = v.apps
                     /\ u.move = v.move /\ u.state = v.state /\ u.email = v.email
      BY DEF Whole
    <3> QED BY <3>1
  <2> HIDE DEF w
  <2> QED BY <1>7, <2>1 DEF RowsGood, w
<1>8. CASE Put(v, co, jb, email) = with
  BY <1>2, <1>4, <1>8
<1>9. \/ Put(v, co, jb, email) = v
      \/ Put(v, co, jb, email) = [v EXCEPT !.broken = TRUE]
      \/ Put(v, co, jb, email) = with
      \/ /\ jb # NoJob /\ ~OnJob(v, who, jb)
         /\ Put(v, co, jb, email) = [with EXCEPT !.apps = Append(@, Application(who, jb))]
  BY DEF Put, found, who, with
<1> QED BY <1>5, <1>6, <1>7, <1>8, <1>9

(* The messages of a mailbox, filed one after the other.                    *)
LEMMA FiledGood ==
  ASSUME people \in Seq(PersonRec), mailbox \in Seq(MailRec), NEW jb \in Jobs
  PROVE  WorkGood(Filed(jb))
<1> DEFINE co == JobOf[jb]
           n == Len(mailbox)
           Next_(i, v) == IF i \in UnseenOf(jb) THEN Put(v, co, jb, mailbox[i].email) ELSE v
           Files(f, m) == f = [i \in 0 .. m |-> IF i = 0 THEN Blank ELSE Next_(i, f[i - 1])]
<1>1. n \in Nat /\ DOMAIN mailbox = 1 .. n /\ co \in Companies
      /\ \A i \in DOMAIN mailbox : mailbox[i].email \in Emails
  <2>1. \A i \in DOMAIN mailbox : mailbox[i] \in MailRec
    BY RowsShape
  <2> QED BY <2>1, RowsShape DEF MailRec, Companies
<1>2. \A m \in Nat : \E f : Files(f, m)
  <2> DEFINE Without == {m \in Nat : ~\E f : Files(f, m)}
             m == Min(Without)
  <2> SUFFICES ASSUME Without # {} PROVE FALSE
    OBVIOUS
  <2>1. m \in Without /\ \A k \in Without : m <= k
    <3>1. Without \in SUBSET Nat
      OBVIOUS
    <3> HIDE DEF Without
    <3> QED BY <3>1, LeastMember
  <2> HIDE DEF m
  <2>2. m \in Nat /\ ~\E f : Files(f, m)
    BY <2>1
  <2>3. CASE m = 0
    <3>1. Files([i \in 0 .. 0 |-> Blank], 0)
      OBVIOUS
    <3> QED BY <2>2, <2>3, <3>1
  <2>4. CASE m # 0
    <3>1. m - 1 \in Nat /\ m - 1 \notin Without
      <4>1. m - 1 \in Nat /\ ~(m <= m - 1)
        BY <2>2, <2>4
      <4> HIDE DEF Without
      <4> QED BY <2>1, <4>1
    <3>2. PICK f : Files(f, m - 1)
      BY <3>1
    <3> DEFINE g == [i \in 0 .. m |-> IF i = m THEN Next_(m, f[m - 1]) ELSE f[i]]
    <3>3. \A i \in 0 .. m : g[i] = IF i = m THEN Next_(m, f[m - 1]) ELSE f[i]
      OBVIOUS
    <3>4. \A i \in 0 .. m - 1 : f[i] = IF i = 0 THEN Blank ELSE Next_(i, f[i - 1])
      BY <3>2
    <3>5. g = [i \in 0 .. m |-> g[i]]
      OBVIOUS
    <3> HIDE DEF g, Next_
    <3>6. \A i \in 0 .. m : g[i] = IF i = 0 THEN Blank ELSE Next_(i, g[i - 1])
      <4> TAKE i \in 0 .. m
      <4>1. CASE i = 0
        BY <2>2, <2>4, <3>3, <3>4, <4>1
      <4>2. CASE i # 0
        <5>1. i - 1 \in 0 .. m /\ i - 1 # m /\ i - 1 \in 0 .. m - 1
          BY <2>2, <4>2
        <5>2. g[i - 1] = f[i - 1]
          BY <3>3, <5>1
        <5>3. CASE i = m
          BY <3>3, <4>2, <5>2, <5>3
        <5>4. CASE i # m
          <6>1. i \in 0 .. m - 1
            BY <2>2, <5>4
          <6> QED BY <3>3, <3>4, <4>2, <5>2, <5>4, <6>1
        <5> QED BY <5>3, <5>4
      <4> QED BY <4>1, <4>2
    <3>7. Files(g, m)
      BY <3>5, <3>6
    <3> QED BY <2>2, <3>7
  <2> QED BY <2>3, <2>4
<1>3. PICK f : Files(f, n) /\ Filed(jb) = f[n]
  <2>1. \E f : Files(f, n)
    BY <1>1, <1>2
  <2> QED BY <2>1 DEF Filed
<1> DEFINE Good(v) == /\ Whole(v) /\ RowsGood(v)
                      /\ v.move = {} /\ v.state = <<>> /\ v.email = NoEmail
           Bad == {i \in 0 .. n : ~Good(f[i])}
<1>4. Good(Blank)
  <2>1. Blank.people = <<>> /\ Blank.apps = <<>> /\ <<>> \in Seq(PersonRec) /\ <<>> \in Seq(AppRec)
    BY DEF Blank
  <2> QED BY <2>1 DEF Blank, Whole, RowsGood
<1>5. \A i \in 0 .. n : f[i] = IF i = 0 THEN Blank ELSE Next_(i, f[i - 1])
  BY <1>3
<1>6. ASSUME NEW i \in 0 .. n, NEW v, Good(v) PROVE Good(Next_(i, v))
  <2>1. CASE i \in UnseenOf(jb)
    <3>1. mailbox[i].email \in Emails
      BY <1>1, <2>1 DEF UnseenOf, Unseen
    <3>2. LET w == Put(v, co, jb, mailbox[i].email)
          IN  /\ Whole(w) /\ RowsGood(w)
              /\ w.move = v.move /\ w.state = v.state /\ w.email = v.email
      BY <1>1, <1>6, <3>1, PutKeeps
    <3> QED BY <1>6, <2>1, <3>2
  <2>2. CASE i \notin UnseenOf(jb)
    BY <1>6, <2>2
  <2> QED BY <2>1, <2>2
<1> HIDE DEF Good, Next_, Files
<1>7. Bad = {}
  <2> SUFFICES ASSUME Bad # {} PROVE FALSE
    OBVIOUS
  <2> DEFINE i == Min(Bad)
  <2>1. i \in Bad /\ \A k \in Bad : i <= k
    <3>1. Bad \in SUBSET Nat
      BY <1>1
    <3> HIDE DEF Bad
    <3> QED BY <3>1, LeastMember
  <2> HIDE DEF i
  <2>2. i \in 0 .. n /\ ~Good(f[i])
    BY <2>1
  <2>3. i # 0
    BY <1>4, <1>5, <2>2
  <2>4. i - 1 \in 0 .. n /\ i - 1 \notin Bad
    BY <1>1, <2>1, <2>2, <2>3
  <2>5. Good(f[i - 1])
    BY <2>4
  <2> QED BY <1>5, <1>6, <2>2, <2>3, <2>5
<1>8. Good(f[n])
  BY <1>1, <1>7
<1> QED BY <1>3, <1>8 DEF Good, WorkGood

LEMMA TakeStep ==
  ASSUME IntakeInv, NEW d \in Desks, NEW w, Take(d, w), Alone => WorkGood(w),
         UNCHANGED <<staffed, people, apps>>, mailbox' \in Seq(MailRec)
  PROVE  IntakeInv'
<1>1. intake' = [intake EXCEPT ![d] = w] /\ d \in staffed
  BY DEF Take
<1>2. Alone' = Alone /\ OneApplicationPerJob' = OneApplicationPerJob
      /\ \A who : LiveApps(who)' = LiveApps(who)
  BY DEF Alone, OneApplicationPerJob, LiveApps
<1>3. ASSUME NEW e \in Desks, intake'[e] # Idle, Alone PROVE WorkGood(intake[e])'
  <2>1. e \in staffed
    BY <1>1, <1>3 DEF IntakeInv
  <2>2. e = d
    BY <1>1, <1>3, <2>1, OnlyDesk DEF IntakeInv
  <2>3. intake'[e] = w /\ WorkGood(w)
    BY <1>1, <1>3, <2>2 DEF IntakeInv
  <2> QED BY <1>2, <2>3 DEF WorkGood, RowsGood
<1>4. intake' = [e \in Desks |-> intake'[e]] /\ \A e \in Desks : intake'[e] # Idle => e \in staffed'
  BY <1>1 DEF IntakeInv
<1> QED BY <1>1, <1>2, <1>3, <1>4 DEF IntakeInv

LEMMA AcceptStep ==
  ASSUME IntakeInv, NEW d \in Desks, NEW w, Accept(d, w), Alone => WorkGood(w)
  PROVE  IntakeInv'
  BY TakeStep DEF Accept, IntakeInv

(* Every request takes in hand what WorkGood says.                          *)
LEMMA PeopleStep ==
  ASSUME IntakeInv, NEW d \in Desks, PeopleNext(d) PROVE IntakeInv'
<1>1. /\ <<>> \in Seq(PersonRec) /\ <<>> \in Seq(AppRec)
      /\ Whole(Blank) /\ RowsGood(Blank) /\ DOMAIN Blank.apps = {}
      /\ Blank.move = {} /\ Blank.state = <<>> /\ Blank.email = NoEmail
  BY DEF Blank, Whole, RowsGood
<1>2. ASSUME NEW co \in Companies, NEW email \in Emails \cup {NoEmail}, ImportProfile(d, co, email)
      PROVE  IntakeInv'
  <2> DEFINE w == Put(Blank, co, NoJob, email)
  <2>1. ASSUME Alone PROVE WorkGood(w)
    <3>1. /\ RowsGood(w) /\ w.move = {} /\ w.state = <<>> /\ w.email = NoEmail
      <4>1. people \in Seq(PersonRec) /\ NoJob \in Jobs \cup {NoJob}
        BY <2>1 DEF IntakeInv
      <4> QED BY <1>1, <4>1, PutKeeps
    <3> HIDE DEF w
    <3> QED BY <3>1 DEF WorkGood
  <2> HIDE DEF w
  <2> QED BY <1>2, <2>1, AcceptStep DEF ImportProfile, w
<1>3. ASSUME NEW i \in DOMAIN people, NEW jb \in Jobs, AddToJob(d, i, jb) PROVE IntakeInv'
  <2> DEFINE row == Application(i, jb)
             w == [Blank EXCEPT !.apps = <<row>>]
  <2>1. ASSUME Alone PROVE WorkGood(w)
    <3>1. i \in Int
      BY <2>1, RowsShape DEF IntakeInv
    <3>2. row \in AppRec /\ row.who = i /\ row.job = jb
      BY <3>1 DEF Application, AppRec
    <3>3. \A a \in LiveApps(i) : apps[a].job # jb
      BY <1>3 DEF AddToJob, OnJob
    <3> HIDE DEF row
    <3>4. <<row>> \in Seq(AppRec) /\ DOMAIN <<row>> = {1} /\ <<row>>[1] = row
      BY <3>2, OneRow
    <3> DEFINE rows == <<row>>
    <3>5. w = [Blank EXCEPT !.apps = rows]
      OBVIOUS
    <3> HIDE DEF rows, w
    <3>6. /\ w.people = <<>> /\ w.apps = rows
          /\ w.move = {} /\ w.state = <<>> /\ w.email = NoEmail
      BY <3>5 DEF Blank
    <3> QED BY <1>1, <3>2, <3>3, <3>4, <3>6 DEF WorkGood, RowsGood, rows
  <2> HIDE DEF w
  <2> QED BY <1>3, <2>1, AcceptStep DEF AddToJob, w
<1>4. ASSUME NEW keep \in DOMAIN people, NEW other \in DOMAIN people, Merge(d, keep, other)
      PROVE  IntakeInv'
  <2> DEFINE kept == {apps[a].job : a \in LiveApps(keep)}
             move == {a \in LiveApps(other) : apps[a].job \notin kept}
             email == IF people[keep].email = NoEmail THEN people[other].email ELSE NoEmail
             w == [Blank EXCEPT !.keep = keep, !.state = <<other, "archived">>, !.move = move,
                                !.email = email]
  <2>1. Accept(d, w)
    BY <1>4 DEF Merge
  <2>2. /\ w.people = <<>> /\ w.apps = <<>> /\ w.keep = keep /\ w.state = <<other, "archived">>
        /\ w.move = move /\ w.email = email
    <3> HIDE DEF move, email
    <3> QED BY DEF Blank
  <2> HIDE DEF w
  <2>3. ASSUME Alone PROVE WorkGood(w)
    <3>1. email \in Emails \cup {NoEmail}
      <4>1. people[other] \in PersonRec
        BY <2>3, RowsShape DEF IntakeInv
      <4> QED BY <4>1 DEF PersonRec
    <3>2. w.state[2] \in States
      BY <2>2 DEF States
    <3>3. \A a, b \in move : apps[a].job = apps[b].job => a = b
      BY <2>3 DEF IntakeInv, OneApplicationPerJob, LiveApps
    <3>4. \A a \in move : \A b \in LiveApps(keep) : apps[b].job # apps[a].job
      OBVIOUS
    <3>5. RowsGood(w)
      BY <1>1, <2>2 DEF RowsGood, Blank
    <3> HIDE DEF move, email
    <3> QED BY <2>2, <3>1, <3>2, <3>3, <3>4, <3>5 DEF WorkGood
  <2> QED BY <2>1, <2>3, AcceptStep
<1>5. ASSUME NEW i, NEW state \in States, Accept(d, [Blank EXCEPT !.state = <<i, state>>])
      PROVE  IntakeInv'
  <2> DEFINE w == [Blank EXCEPT !.state = <<i, state>>]
  <2>1. w.people = <<>> /\ w.apps = <<>> /\ w.move = {} /\ w.email = NoEmail /\ w.state[2] = state
    BY DEF Blank
  <2> HIDE DEF w
  <2>2. WorkGood(w)
    BY <1>1, <2>1 DEF WorkGood, RowsGood, Blank
  <2> QED BY <1>5, <2>2, AcceptStep DEF w
<1>6. "live" \in States /\ "purged" \in States
  BY DEF States
<1> QED BY <1>2, <1>3, <1>4, <1>5, <1>6 DEF PeopleNext, Restore, Purge

LEMMA JobStep ==
  ASSUME IntakeInv, NEW d \in Desks,
         JobNext(d) \/ \E a \in DOMAIN apps : RemoveApplications(d, {a})
  PROVE  IntakeInv'
<1>1. /\ <<>> \in Seq(PersonRec) /\ <<>> \in Seq(AppRec)
      /\ Whole(Blank) /\ RowsGood(Blank) /\ DOMAIN Blank.apps = {}
      /\ Blank.move = {} /\ Blank.state = <<>> /\ Blank.email = NoEmail
  BY DEF Blank, Whole, RowsGood
<1>2. ASSUME NEW jb \in Jobs, NEW email \in Emails \cup {NoEmail}, FromCv(d, jb, email)
      PROVE  IntakeInv'
  <2> DEFINE w == Put(Blank, JobOf[jb], jb, email)
  <2>1. Alone => WorkGood(w)
    <3>1. JobOf[jb] \in Companies
      BY DEF Companies
    <3> QED BY <1>1, <3>1, PutKeeps DEF WorkGood, IntakeInv
  <2> HIDE DEF w
  <2> QED BY <1>2, <2>1, AcceptStep DEF FromCv, w
<1>3. ASSUME NEW jb \in Jobs, NEW email \in Emails, CareersApply(d, jb, email)
      PROVE  IntakeInv'
  <2> DEFINE found == UNION {Rows(co, email) : co \in Companies}
             person == Person(JobOf[jb], email)
             who == IF found = {} THEN -1 ELSE CHOOSE i \in found : TRUE
             row == Application(who, jb)
             added == IF found = {} THEN <<person>> ELSE <<>>
             rows == <<row>>
             w == [Blank EXCEPT !.people = added, !.apps = rows]
  <2>1. Accept(d, w) /\ \A a \in DOMAIN apps : ~(apps[a].who \in found /\ apps[a].job = jb)
    BY <1>3 DEF CareersApply
  <2>2. ASSUME Alone PROVE WorkGood(w)
    <3>1. person \in PersonRec
      BY DEF Person, PersonRec, States, Companies
    <3> HIDE DEF person
    <3>2. added \in Seq(PersonRec) /\ (found = {} => DOMAIN added = {1})
      BY <1>1, <3>1, OneRow
    <3>3. /\ who \in Int
          /\ \/ who \in found /\ who \in DOMAIN people
             \/ found = {} /\ who = -1
      <4>1. found \subseteq DOMAIN people /\ DOMAIN people \subseteq Int
        BY <2>2, RowsShape DEF Rows, IntakeInv
      <4>2. CASE found = {}
        BY <4>2
      <4>3. CASE found # {}
        <5>1. who \in found
          BY <4>3
        <5> HIDE DEF who, found
        <5> QED BY <4>1, <5>1
      <4> QED BY <4>2, <4>3
    <3> HIDE DEF who, added, found
    <3>4. row \in AppRec /\ row.who = who /\ row.job = jb
      BY <3>3 DEF Application, AppRec
    <3> HIDE DEF row
    <3>5. rows \in Seq(AppRec) /\ DOMAIN rows = {1} /\ rows[1] = row
      BY <3>4, OneRow
    <3> HIDE DEF rows
    <3>6. /\ w.people = added /\ w.apps = rows
          /\ w.move = {} /\ w.state = <<>> /\ w.email = NoEmail
      BY DEF Blank
    <3> HIDE DEF w
    <3>7. \/ who \in DOMAIN people /\ \A a \in LiveApps(who) : apps[a].job # jb
          \/ who < 0 /\ -who \in DOMAIN added
      <4>1. CASE who \in found /\ who \in DOMAIN people
        BY <2>1, <4>1 DEF LiveApps
      <4>2. CASE found = {} /\ who = -1
        <5>1. \A k \in Int : -k = 0 - k
          OBVIOUS
        <5>3. \A k \in Int : (k = -1) => (0 - k = 1 /\ k < 0)
          OBVIOUS
        <5>2. -who = 1 /\ who < 0
          BY <3>3, <4>2, <5>1, <5>3
        <5> QED BY <3>2, <4>2, <5>2
      <4> QED BY <3>3, <4>1, <4>2
    <3>8. RowsGood(w)
      BY <3>2, <3>4, <3>5, <3>6, <3>7 DEF RowsGood
    <3> QED BY <3>6, <3>8 DEF WorkGood
  <2> HIDE DEF w
  <2> QED BY <2>1, <2>2, AcceptStep
<1>4. ASSUME NEW gone, RemoveApplications(d, gone) PROVE IntakeInv'
  <2> DEFINE w == [Blank EXCEPT !.drop = gone]
  <2>1. w.people = <<>> /\ w.apps = <<>> /\ w.move = {} /\ w.email = NoEmail /\ w.state = <<>>
    BY DEF Blank
  <2> HIDE DEF w
  <2>2. WorkGood(w)
    BY <1>1, <2>1 DEF WorkGood, RowsGood, Blank
  <2> QED BY <1>4, <2>2, AcceptStep DEF RemoveApplications, w
<1>5. ASSUME NEW jb \in Jobs, CheckInbox(d, jb) PROVE IntakeInv'
  <2>1. UNCHANGED <<staffed, people, apps>> /\ (intake' = intake \/ Take(d, Filed(jb)))
    BY <1>5 DEF CheckInbox
  <2>2. mailbox' \in Seq(MailRec)
    <3> DEFINE read == [i \in DOMAIN mailbox |-> [mailbox[i] EXCEPT !.seen = TRUE]]
    <3>1. \A i \in DOMAIN mailbox : mailbox[i] \in MailRec
      BY RowsShape DEF IntakeInv
    <3>2. \A i \in DOMAIN mailbox : read[i] \in MailRec
      BY <3>1 DEF MailRec
    <3>3. read = [i \in DOMAIN mailbox |-> read[i]] /\ mailbox' = read
      BY <1>5 DEF CheckInbox
    <3> HIDE DEF read
    <3> QED BY <3>2, <3>3, RowsMapped DEF IntakeInv
  <2>3. Alone => WorkGood(Filed(jb))
    BY FiledGood DEF IntakeInv
  <2>4. CASE Take(d, Filed(jb))
    BY <2>1, <2>2, <2>3, <2>4, TakeStep
  <2>5. CASE intake' = intake
    BY <2>1, <2>2, <2>5 DEF IntakeInv, Alone, OneApplicationPerJob, WorkGood, RowsGood, LiveApps
  <2> QED BY <2>1, <2>4, <2>5
<1> QED BY <1>2, <1>3, <1>4, <1>5 DEF JobNext

(* What a commit leaves: the people of before with those of the write, the  *)
(* applications of before, some moved, with those of the write.             *)
LEMMA IntakeStored ==
  ASSUME people \in Seq(PersonRec), apps \in Seq(AppRec), NEW w, WorkGood(w),
         \A a \in DOMAIN apps : apps[a].who \in DOMAIN people
  PROVE  /\ StoredPeople(w) \in Seq(PersonRec)
         /\ DOMAIN people \subseteq DOMAIN StoredPeople(w)
         /\ \A k \in DOMAIN w.people : Len(people) + k \in DOMAIN StoredPeople(w)
         /\ StoredApps(w) \in Seq(AppRec)
         /\ \A a \in DOMAIN apps :
              /\ StoredApps(w)[a].who = IF a \in w.move THEN w.keep ELSE apps[a].who
              /\ StoredApps(w)[a].job = apps[a].job
              /\ StoredApps(w)[a].live => apps[a].live
         /\ \A a \in DOMAIN StoredApps(w) \ DOMAIN apps :
              LET k == a - Len(apps)
              IN  /\ k \in DOMAIN w.apps /\ StoredApps(w)[a].job = w.apps[k].job
                  /\ StoredApps(w)[a].who = IF w.apps[k].who < 0 THEN Len(people) - w.apps[k].who
                                            ELSE w.apps[k].who
<1>1. /\ w.people \in Seq(PersonRec) /\ w.apps \in Seq(AppRec)
      /\ \A i \in DOMAIN people : people[i] \in PersonRec
      /\ \A a \in DOMAIN apps : apps[a] \in AppRec
      /\ \A k \in DOMAIN w.apps : w.apps[k] \in AppRec
      /\ Len(people) \in Nat /\ DOMAIN people \subseteq Int
  BY RowsShape DEF WorkGood, RowsGood
<1>2. /\ StoredPeople(w) \in Seq(PersonRec)
      /\ DOMAIN people \subseteq DOMAIN StoredPeople(w)
      /\ \A k \in DOMAIN w.people : Len(people) + k \in DOMAIN StoredPeople(w)
  <2> DEFINE email(i) == IF i = w.keep /\ w.email # NoEmail THEN w.email ELSE people[i].email
             state(i) == IF w.state # <<>> /\ w.state[1] = i THEN w.state[2] ELSE people[i].state
             f == [i \in DOMAIN people |->
                     [people[i] EXCEPT !.email = IF i = w.keep /\ w.email # NoEmail THEN w.email ELSE @,
                                       !.state = IF w.state # <<>> /\ w.state[1] = i THEN w.state[2] ELSE @]]
             p == f \o w.people
  <2>1. ASSUME NEW i \in DOMAIN people PROVE f[i] \in PersonRec
    <3>1. f[i] = [people[i] EXCEPT !.email = email(i), !.state = state(i)]
      OBVIOUS
    <3>2. email(i) \in Emails \cup {NoEmail} /\ state(i) \in States
      BY <1>1 DEF WorkGood, PersonRec
    <3> HIDE DEF f, email, state
    <3> QED BY <1>1, <3>1, <3>2 DEF PersonRec
  <2>2. f = [i \in DOMAIN people |-> f[i]] /\ StoredPeople(w) = p
    BY DEF StoredPeople
  <2> HIDE DEF f
  <2>3. f \in Seq(PersonRec) /\ DOMAIN f = DOMAIN people /\ Len(f) = Len(people)
    BY <2>1, <2>2, RowsMapped
  <2>4. /\ p \in Seq(PersonRec) /\ DOMAIN f \subseteq DOMAIN p
        /\ \A k \in DOMAIN w.people : Len(f) + k \in DOMAIN p
    BY <1>1, <2>3, RowsJoined
  <2> HIDE DEF p
  <2> QED BY <2>2, <2>3, <2>4
<1> DEFINE at(who) == IF who < 0 THEN Len(people) - who ELSE who
           f == [a \in DOMAIN apps |->
                   [apps[a] EXCEPT !.live = @ /\ a \notin w.drop,
                                   !.who = IF a \in w.move THEN w.keep ELSE @]]
           g == [k \in DOMAIN w.apps |-> [w.apps[k] EXCEPT !.who = at(@)]]
           p == f \o g
<1>3. f = [a \in DOMAIN apps |-> f[a]] /\ g = [k \in DOMAIN w.apps |-> g[k]] /\ StoredApps(w) = p
  BY DEF StoredApps
<1>4. ASSUME NEW a \in DOMAIN apps
      PROVE  /\ f[a] \in AppRec
             /\ f[a].who = IF a \in w.move THEN w.keep ELSE apps[a].who
             /\ f[a].job = apps[a].job
             /\ f[a].live => apps[a].live
  <2> DEFINE who == IF a \in w.move THEN w.keep ELSE apps[a].who
  <2>1. PICK live \in BOOLEAN : live = (apps[a].live /\ a \notin w.drop)
    OBVIOUS
  <2>2. who \in Int
    BY <1>1 DEF WorkGood, AppRec
  <2>3. f[a] = [apps[a] EXCEPT !.live = live, !.who = who]
    BY <2>1
  <2> HIDE DEF f, who
  <2>4. f[a] \in AppRec /\ f[a].who = who /\ f[a].job = apps[a].job /\ f[a].live = live
    BY <1>1, <2>2, <2>3 DEF AppRec
  <2> QED BY <2>1, <2>4 DEF who
<1>5. ASSUME NEW k \in DOMAIN w.apps
      PROVE  g[k] \in AppRec /\ g[k].who = at(w.apps[k].who) /\ g[k].job = w.apps[k].job
  <2> DEFINE who == at(w.apps[k].who)
  <2>1. who \in Int
    BY <1>1 DEF AppRec
  <2>2. g[k] = [w.apps[k] EXCEPT !.who = who]
    OBVIOUS
  <2> HIDE DEF g, who
  <2> QED BY <1>1, <2>1, <2>2 DEF AppRec, who
<1> HIDE DEF f, g
<1>6. f \in Seq(AppRec) /\ DOMAIN f = DOMAIN apps /\ Len(f) = Len(apps)
  BY <1>3, <1>4, RowsMapped
<1>7. g \in Seq(AppRec) /\ DOMAIN g = DOMAIN w.apps
  BY <1>1, <1>3, <1>5, RowsMapped
<1>8. /\ p \in Seq(AppRec) /\ \A a \in DOMAIN f : p[a] = f[a]
      /\ \A a \in DOMAIN p \ DOMAIN f : a - Len(f) \in DOMAIN g /\ p[a] = g[a - Len(f)]
  BY <1>6, <1>7, RowsJoined
<1> HIDE DEF p
<1>9. ASSUME NEW a \in DOMAIN apps
      PROVE  /\ p[a].who = IF a \in w.move THEN w.keep ELSE apps[a].who
             /\ p[a].job = apps[a].job
             /\ p[a].live => apps[a].live
  BY <1>4, <1>6, <1>8
<1>10. ASSUME NEW a \in DOMAIN p \ DOMAIN apps
       PROVE  LET k == a - Len(apps)
              IN  /\ k \in DOMAIN w.apps /\ p[a].job = w.apps[k].job
                  /\ p[a].who = at(w.apps[k].who)
  <2> DEFINE k == a - Len(apps)
  <2>1. k \in DOMAIN w.apps /\ p[a] = g[k]
    BY <1>6, <1>7, <1>8
  <2> HIDE DEF k, at
  <2> QED BY <1>5, <2>1 DEF k
<1> QED BY <1>2, <1>3, <1>8, <1>9, <1>10

LEMMA IntakeCommitStep ==
  ASSUME IntakeInv, NEW d \in Desks, IntakeCommit(d) PROVE IntakeInv'
<1> DEFINE w == intake[d]
<1>1. /\ w # Idle /\ people' = StoredPeople(w) /\ apps' = StoredApps(w)
      /\ intake' = [intake EXCEPT ![d] = Idle] /\ UNCHANGED <<staffed, mailbox>>
  BY DEF IntakeCommit
<1>2. /\ intake' = [e \in Desks |-> intake'[e]]
      /\ \A e \in Desks : intake'[e] # Idle => intake[e] # Idle /\ e # d
  BY <1>1 DEF IntakeInv
<1>3. Alone' = Alone
  BY <1>1 DEF Alone
<1>4. SUFFICES ASSUME Alone
               PROVE  /\ people' \in Seq(PersonRec) /\ apps' \in Seq(AppRec)
                      /\ \A a \in DOMAIN apps' : apps'[a].who \in DOMAIN people'
                      /\ \A a, b \in DOMAIN apps' :
                           (apps'[a].live /\ apps'[b].live /\ apps'[a].who = apps'[b].who
                            /\ apps'[a].job = apps'[b].job) => a = b
                      /\ \A e \in Desks : intake'[e] = Idle
  BY <1>1, <1>2, <1>3 DEF IntakeInv, OneApplicationPerJob
<1>5. \A e \in Desks : intake'[e] = Idle
  <2> SUFFICES ASSUME NEW e \in Desks, intake'[e] # Idle PROVE FALSE
    OBVIOUS
  <2>1. e \in staffed /\ d \in staffed /\ e # d
    BY <1>1, <1>2 DEF IntakeInv
  <2> QED BY <1>4, <2>1, OnlyDesk DEF IntakeInv
<1>6. /\ WorkGood(w) /\ people \in Seq(PersonRec) /\ apps \in Seq(AppRec)
      /\ \A a \in DOMAIN apps : apps[a].who \in DOMAIN people
      /\ OneApplicationPerJob
  BY <1>1, <1>4 DEF IntakeInv
<1> HIDE DEF w
<1>7. /\ people' \in Seq(PersonRec)
      /\ DOMAIN people \subseteq DOMAIN people'
      /\ \A k \in DOMAIN w.people : Len(people) + k \in DOMAIN people'
      /\ apps' \in Seq(AppRec)
      /\ \A a \in DOMAIN apps :
           /\ apps'[a].who = IF a \in w.move THEN w.keep ELSE apps[a].who
           /\ apps'[a].job = apps[a].job
           /\ apps'[a].live => apps[a].live
      /\ \A a \in DOMAIN apps' \ DOMAIN apps :
           /\ a - Len(apps) \in DOMAIN w.apps /\ apps'[a].job = w.apps[a - Len(apps)].job
           /\ apps'[a].who = IF w.apps[a - Len(apps)].who < 0
                             THEN Len(people) - w.apps[a - Len(apps)].who
                             ELSE w.apps[a - Len(apps)].who
  BY <1>1, <1>6, IntakeStored
<1>8. /\ Len(people) \in Nat /\ DOMAIN people = 1 .. Len(people)
      /\ w.people \in Seq(PersonRec) /\ DOMAIN w.people \subseteq Nat \ {0}
      /\ \A k \in DOMAIN w.apps : w.apps[k].who \in Int
  <2>1. w.people \in Seq(PersonRec) /\ w.apps \in Seq(AppRec)
    BY <1>6 DEF WorkGood, RowsGood
  <2>2. \A k \in DOMAIN w.apps : w.apps[k] \in AppRec
    BY <2>1, RowsShape
  <2> QED BY <1>6, <2>1, <2>2, RowsShape DEF AppRec
<1>9. ASSUME NEW a \in DOMAIN apps', a \notin DOMAIN apps
      PROVE  LET k == a - Len(apps)
             IN  /\ k \in DOMAIN w.apps /\ w.move = {} /\ apps'[a].job = w.apps[k].job
                 /\ \/ /\ apps'[a].who = w.apps[k].who /\ apps'[a].who \in DOMAIN people
                       /\ \A b \in LiveApps(apps'[a].who) : apps[b].job # apps'[a].job
                    \/ /\ apps'[a].who = Len(people) - w.apps[k].who
                       /\ apps'[a].who \notin DOMAIN people /\ apps'[a].who \in DOMAIN people'
  <2> DEFINE k == a - Len(apps)
  <2>1. /\ k \in DOMAIN w.apps /\ apps'[a].job = w.apps[k].job
        /\ apps'[a].who = IF w.apps[k].who < 0 THEN Len(people) - w.apps[k].who ELSE w.apps[k].who
    BY <1>7, <1>9
  <2> HIDE DEF k
  <2>2. w.move = {}
    BY <1>6, <2>1 DEF WorkGood
  <2>3. CASE /\ w.apps[k].who \in DOMAIN people
             /\ \A b \in LiveApps(w.apps[k].who) : apps[b].job # w.apps[k].job
    <3>1. ~(w.apps[k].who < 0)
      BY <1>8, <2>3
    <3> QED BY <2>1, <2>2, <2>3, <3>1 DEF k
  <2>4. CASE w.apps[k].who < 0 /\ -w.apps[k].who \in DOMAIN w.people
    <3> DEFINE n == -w.apps[k].who
    <3>1. n \in Nat \ {0} /\ w.apps[k].who = 0 - n /\ Len(people) + n \in DOMAIN people'
      <4>1. \A x \in Int : -x = 0 - x
        OBVIOUS
      <4>2. n \in DOMAIN w.people /\ n = 0 - w.apps[k].who
        BY <1>8, <2>1, <2>4, <4>1
      <4>3. \A x, y \in Int : y = 0 - x => x = 0 - y
        OBVIOUS
      <4> HIDE DEF n
      <4>4. n \in Nat \ {0} /\ w.apps[k].who \in Int
        BY <1>8, <2>1, <4>2
      <4> QED BY <1>7, <4>2, <4>3, <4>4
    <3> HIDE DEF n
    <3>2. apps'[a].who = Len(people) - w.apps[k].who
      BY <2>1, <2>4
    <3>3. apps'[a].who = Len(people) + n
      BY <1>8, <2>1, <3>1, <3>2
    <3>4. Len(people) + n \notin DOMAIN people
      BY <1>8, <3>1
    <3> QED BY <2>1, <2>2, <3>1, <3>2, <3>3, <3>4 DEF k
  <2> QED BY <1>6, <2>1, <2>3, <2>4 DEF WorkGood, RowsGood
<1>10. \A a \in DOMAIN apps' : apps'[a].who \in DOMAIN people'
  <2> SUFFICES ASSUME NEW a \in DOMAIN apps' PROVE apps'[a].who \in DOMAIN people'
    OBVIOUS
  <2>1. CASE a \in DOMAIN apps
    BY <1>6, <1>7, <2>1 DEF WorkGood
  <2>2. CASE a \notin DOMAIN apps
    BY <1>7, <1>9, <2>2
  <2> QED BY <2>1, <2>2
<1>11. ASSUME NEW a \in DOMAIN apps', NEW b \in DOMAIN apps', a \in DOMAIN apps,
              apps'[a].live, apps'[b].live, apps'[a].who = apps'[b].who, apps'[a].job = apps'[b].job
       PROVE  a = b
  <2>1. CASE b \in DOMAIN apps /\ (a \in w.move <=> b \in w.move)
    <3>1. apps[a].job = apps[b].job /\ apps[a].live /\ apps[b].live
      BY <1>7, <1>11, <2>1
    <3>2. CASE a \in w.move
      BY <1>6, <2>1, <3>1, <3>2 DEF WorkGood
    <3>3. CASE a \notin w.move
      <4>1. apps[a].who = apps[b].who
        BY <1>7, <1>11, <2>1, <3>3
      <4> QED BY <1>4, <1>6, <1>11, <2>1, <3>1, <4>1 DEF OneApplicationPerJob
    <3> QED BY <3>2, <3>3
  <2>2. ASSUME NEW m \in w.move, NEW n \in DOMAIN apps, n \notin w.move, m \in DOMAIN apps,
               apps'[n].live, apps'[m].who = apps'[n].who, apps'[m].job = apps'[n].job
        PROVE  FALSE
    <3>1. n \in LiveApps(w.keep)
      BY <1>7, <2>2 DEF LiveApps
    <3> QED BY <1>6, <1>7, <2>2, <3>1 DEF WorkGood
  <2>3. CASE b \notin DOMAIN apps
    <3>1. /\ w.move = {}
          /\ apps'[b].who \in DOMAIN people
               => \A c \in LiveApps(apps'[b].who) : apps[c].job # apps'[b].job
      BY <1>9, <1>11, <2>3
    <3>2. apps'[a].who = apps[a].who /\ apps[a].live /\ apps[a].job = apps'[a].job
      BY <1>7, <1>11, <3>1
    <3> QED BY <1>6, <1>11, <3>1, <3>2 DEF LiveApps
  <2> QED BY <1>11, <2>1, <2>2, <2>3
<1>12. ASSUME NEW a \in DOMAIN apps', NEW b \in DOMAIN apps', a \notin DOMAIN apps, b \notin DOMAIN apps,
              apps'[a].who = apps'[b].who, apps'[a].job = apps'[b].job
       PROVE  a = b
  <2> DEFINE k == a - Len(apps)
             l == b - Len(apps)
  <2>1. k \in DOMAIN w.apps /\ l \in DOMAIN w.apps /\ w.apps[k].job = w.apps[l].job
    BY <1>9, <1>12
  <2>2. w.apps[k].who = w.apps[l].who
    <3>1. \/ apps'[a].who = w.apps[k].who /\ apps'[b].who = w.apps[l].who
          \/ /\ apps'[a].who = Len(people) - w.apps[k].who
             /\ apps'[b].who = Len(people) - w.apps[l].who
      BY <1>9, <1>12
    <3> HIDE DEF k, l
    <3> QED BY <1>8, <1>12, <2>1, <3>1
  <2>3. k = l
    BY <1>6, <2>1, <2>2 DEF WorkGood, RowsGood
  <2>4. a \in Int /\ b \in Int /\ Len(apps) \in Int
    BY <1>6, <1>7, RowsShape
  <2> QED BY <2>3, <2>4
<1> QED BY <1>5, <1>7, <1>10, <1>11, <1>12

LEMMA IntakeStep == IntakeInv /\ [IntakeNext]_intakeVars => IntakeInv'
<1> SUFFICES ASSUME IntakeInv, [IntakeNext]_intakeVars PROVE IntakeInv'
  OBVIOUS
<1>1. ASSUME NEW g, intake' = g, g = [e \in Desks |-> g[e]],
             \A e \in Desks : g[e] # Idle => g[e] = intake[e],
             UNCHANGED <<staffed, people, apps>>, mailbox' \in Seq(MailRec)
      PROVE  IntakeInv'
  <2>1. Alone' = Alone /\ OneApplicationPerJob' = OneApplicationPerJob
        /\ \A who : LiveApps(who)' = LiveApps(who)
    BY <1>1 DEF Alone, OneApplicationPerJob, LiveApps
  <2>2. ASSUME NEW e \in Desks, intake'[e] # Idle, Alone PROVE WorkGood(intake[e])'
    <3>1. intake'[e] = intake[e] /\ WorkGood(intake[e])
      BY <1>1, <2>2 DEF IntakeInv
    <3> QED BY <1>1, <2>1, <3>1 DEF WorkGood, RowsGood
  <2>3. intake' = [e \in Desks |-> intake'[e]] /\ \A e \in Desks : intake'[e] # Idle => e \in staffed'
    BY <1>1 DEF IntakeInv
  <2> QED BY <1>1, <2>1, <2>2, <2>3 DEF IntakeInv
<1>2. ASSUME NEW jb \in Jobs, NEW email \in Emails, Deliver(jb, email) PROVE IntakeInv'
  <2> DEFINE mail == [job |-> jb, email |-> email, seen |-> FALSE]
  <2>1. mail \in MailRec
    BY DEF MailRec
  <2> HIDE DEF mail
  <2>2. Append(mailbox, mail) \in Seq(MailRec)
    BY <2>1, RowsAppended DEF IntakeInv
  <2> QED BY <1>1, <1>2, <2>2 DEF Deliver, IntakeInv, mail
<1>3. ASSUME NEW d \in Desks, IntakeAbandon(d) PROVE IntakeInv'
  <2>1. [intake EXCEPT ![d] = Idle] = [e \in Desks |-> [intake EXCEPT ![d] = Idle][e]]
    BY DEF IntakeInv
  <2> QED BY <1>1, <1>3, <2>1 DEF IntakeAbandon, IntakeInv
<1>4. CASE UNCHANGED intakeVars
  BY <1>1, <1>4 DEF intakeVars, IntakeInv
<1> QED BY <1>2, <1>3, <1>4, PeopleStep, JobStep, IntakeCommitStep DEF IntakeNext

(* One request at a time, over every way in and back and any number of      *)
(* people, messages and jobs: a person has at most one live application for *)
(* a job.                                                                  *)
THEOREM ApplicationsAlone == IntakeSpec => []OneApplicationPerJob
<1>1. IntakeInit => IntakeInv
  <2> SUFFICES ASSUME IntakeInit PROVE IntakeInv
    OBVIOUS
  <2>1. /\ people \in Seq(PersonRec) /\ apps \in Seq(AppRec) /\ mailbox \in Seq(MailRec)
        /\ DOMAIN apps = {} /\ \A d \in Desks : intake[d] = Idle
    BY DEF IntakeInit
  <2> QED BY <2>1 DEF IntakeInit, StaffedInit, IntakeInv, OneApplicationPerJob
<1>2. IntakeInv => OneApplicationPerJob
  BY DEF IntakeInv, OneApplicationPerJob
<1> QED BY <1>1, <1>2, IntakeStep, PTL DEF IntakeSpec
===============================================================================
