----------------------- MODULE HiringPipelineProofs -----------------------
(***************************************************************************)
(* Proofs about one application's way through the rounds: the rules are     *)
(* never left half-way, whatever overlaps; and one session at a time makes  *)
(* one of each.                                                            *)
(***************************************************************************)
EXTENDS HiringPipeline, DataLemmas, TLAPS

\* What a session is about to store, by its columns.
Shaped(w) ==
  w = [stage |-> w.stage, logs |-> w.logs, talks |-> w.talks, board |-> w.board, file |-> w.file,
       row |-> w.row, settle |-> w.settle, seen |-> w.seen, mailing |-> w.mailing,
       wrote |-> w.wrote, closes |-> w.closes]

RowShaped(r) == r = [rule |-> r.rule, status |-> r.status, report |-> r.report]

\* Where an application may be left by the rules.
Settled(s) == s # 0 /\ Finished(s)

\* It moves the application to a round that is looked at to the end.
DeskGood(w) ==
  /\ w.stage \in 0 .. MaxStage
  /\ w.stage # 0 => Settled(w.stage)
  /\ w.seen \in 0 .. MaxStage /\ w.board \in 0 .. MaxStage
  /\ w.talks \subseteq Rounds
  /\ w.file \in {New, 0} \cup DOMAIN attempts
  /\ RowShaped(w.row) /\ w.closes \in BOOLEAN

\* Alone, what it is to insert is not there yet.
FileNew(w) == (w.file = New /\ w.row.rule # 0) => Held(w.row.rule) = {}

RestNew(w) ==
  /\ \A r \in w.talks : Scheduled(r) = {}
  /\ w.board # 0 => boarded = 0

OneEach ==
  /\ \A i, j \in DOMAIN attempts :
        (attempts[i].rule = attempts[j].rule /\ attempts[i].rule # 0) => i = j
  /\ \A i, j \in DOMAIN talks : talks[i] = talks[j] => i = j
  /\ boarded <= 1

PipeInv ==
  /\ plan \in PlanRecords /\ stage \in 0 .. MaxStage /\ boarded \in Nat
  /\ \E S : attempts \in Seq(S)
  /\ \A i \in DOMAIN attempts : RowShaped(attempts[i])
  /\ talks \in Seq(Rounds)
  /\ desk = [d \in Sessions |-> desk[d]]
  /\ \A d \in Sessions : desk[d] # Idle => DeskGood(desk[d])
  /\ mover # Worker
  /\ mover = "rules" => Settled(stage)
  /\ \A d \in Desks : mover = d => desk[d] # Idle /\ (desk[d].stage = 0 => Settled(stage))
  /\ alone => /\ \A d, e \in Sessions : (desk[d] # Idle /\ desk[e] # Idle) => d = e
              /\ \A d \in Sessions : desk[d] # Idle => FileNew(desk[d]) /\ RestNew(desk[d])
              /\ OneEach

LEMMA BlankShape ==
  Blank = [stage |-> 0, logs |-> {}, talks |-> {}, board |-> 0, file |-> 0, row |-> NoRow,
           settle |-> 0, seen |-> 0, mailing |-> 0, wrote |-> 0, closes |-> TRUE]
  BY DEF Blank

LEMMA NoRowShape == RowShaped(NoRow) /\ NoRow.rule = 0
<1>1. NoRow = [rule |-> 0, status |-> NoRow.status, report |-> NoRow.report]
  BY DEF NoRow
<1> QED BY <1>1 DEF RowShaped

(* The rounds, and who may be at work.                                      *)
LEMMA RoundsAre ==
  ASSUME PipeInv
  PROVE  /\ MaxStage \in Nat /\ MaxStage >= 1 /\ Rounds = 1 .. MaxStage
         /\ plan.rounds \in Rounds /\ Hired \in Rounds
         /\ plan.talk \subseteq Rounds /\ plan.board \subseteq Rounds
         /\ Desks \subseteq Sessions /\ Worker \in Sessions /\ Worker \notin Desks
         /\ \A d \in Sessions : d # "rules" /\ d # "other"
<1>2. plan.rounds \in Rounds /\ plan.talk \subseteq Rounds /\ plan.board \subseteq Rounds
  BY DEF PipeInv, PlanRecords
<1>3. MaxStage \in Nat /\ Hired \in Rounds
  BY PipelineAssumption
<1>4. /\ Desks \subseteq Sessions /\ Worker \in Sessions /\ Worker \notin Desks
      /\ \A d \in Sessions : d # "rules" /\ d # "other"
  BY PipelineAssumption DEF Sessions
<1> QED BY <1>2, <1>3, <1>4 DEF Rounds

(* A round is looked at to the end: the chain of mails ends in it.          *)
LEMMA RestingRests ==
  ASSUME PipeInv, NEW s \in Rounds
  PROVE  Resting(s) \in s .. MaxStage /\ Resting(s) \in Rounds /\ Rests(Resting(s))
<1> DEFINE S == {t \in s .. MaxStage : Rests(t)}
<1>1. s \in Nat /\ s >= 1 /\ s <= MaxStage /\ MaxStage \in Nat /\ plan.rounds \in Nat
      /\ plan.rounds <= MaxStage
  BY RoundsAre
<1>2. MaxStage \in S
  BY <1>1 DEF Rests
<1>3. S \in SUBSET Nat /\ S # {}
  BY <1>1, <1>2
<1>4. Resting(s) = Min(S)
  BY DEF Resting
<1>5. Min(S) \in S
  <2> HIDE DEF S
  <2> QED BY <1>3, LeastMember
<1> QED BY <1>1, <1>4, <1>5, RoundsAre

(* The greatest of some rounds.                                            *)
LEMMA LastRound ==
  ASSUME PipeInv, NEW R, R \subseteq Rounds, R # {}
  PROVE  Max(R) \in R /\ Max(R) \in Rounds
<1>1. R \in SUBSET Int /\ (\A y \in R : y <= MaxStage) /\ MaxStage \in Int
  BY RoundsAre
<1> QED BY <1>1, GreatestMember

(* What reaching a round makes of what a session is about to store.         *)
LEMMA TriggeredGood ==
  ASSUME PipeInv, NEW w, Shaped(w), DeskGood(w), NEW s \in Rounds, NEW base \in 0 .. MaxStage
  PROVE  LET v == Triggered(w, s, base)
         IN  /\ Shaped(v) /\ DeskGood(v) /\ RestNew(v)
             /\ v.file = w.file /\ v.row = w.row /\ v.logs \subseteq Rounds
             /\ v.settle = w.settle /\ v.seen = w.seen /\ v.mailing = w.mailing
             /\ v.wrote = w.wrote /\ v.closes = w.closes
             /\ (base = s /\ v.stage = 0) => Rests(s)
<1> DEFINE R == Resting(s)
           boards == plan.board \cap Reached(s)
<1>1. R \in Rounds /\ Rests(R)
  BY RestingRests
<1>2. PICK m : m = IF R = base THEN 0 ELSE R
  OBVIOUS
<1>3. PICK l : l = {r \in Reached(s) : Deferred(r)}
  OBVIOUS
<1>4. PICK t : t = {r \in plan.talk \cap Reached(s) : Scheduled(r) = {}}
  OBVIOUS
<1>5. PICK b : b = IF boards = {} \/ boarded > 0 THEN 0 ELSE Max(boards)
  OBVIOUS
<1>6. b \in 0 .. MaxStage /\ (b # 0 => boarded = 0)
  <2>1. boards = {} \/ Max(boards) \in Rounds
    BY RoundsAre, LastRound
  <2>2. boarded \in Nat
    BY DEF PipeInv
  <2> HIDE DEF boards
  <2> QED BY <1>5, <2>1, <2>2, RoundsAre
<1>7. t \subseteq Rounds /\ (\A r \in t : Scheduled(r) = {}) /\ l \subseteq Rounds
  <2>1. Reached(s) \subseteq Rounds
    BY <1>1, RoundsAre DEF Reached
  <2> QED BY <1>3, <1>4, <2>1, RoundsAre
<1>8. m \in 0 .. MaxStage /\ (m # 0 => Rests(m)) /\ ((base = s /\ m = 0) => Rests(s))
  <2>1. R # 0 /\ R \in 0 .. MaxStage /\ 0 \in 0 .. MaxStage
    BY <1>1, RoundsAre
  <2> HIDE DEF R
  <2> QED BY <1>1, <1>2, <2>1
<1>9. PICK v : v = [w EXCEPT !.stage = m, !.logs = l, !.talks = t, !.board = b]
  OBVIOUS
<1>10. v = Triggered(w, s, base)
  BY <1>2, <1>3, <1>4, <1>5, <1>9 DEF Triggered
<1> HIDE DEF R, boards
<1>11. /\ v.stage = m /\ v.logs = l /\ v.talks = t /\ v.board = b /\ v.file = w.file
       /\ v.row = w.row /\ v.settle = w.settle /\ v.seen = w.seen /\ v.mailing = w.mailing
       /\ v.wrote = w.wrote /\ v.closes = w.closes /\ Shaped(v)
  BY <1>9 DEF Shaped
<1>12. DeskGood(v) /\ RestNew(v)
  BY <1>6, <1>7, <1>8, <1>11 DEF DeskGood, RestNew, Settled, Finished
<1> QED BY <1>7, <1>8, <1>10, <1>11, <1>12

LEMMA BlankGood ==
  ASSUME PipeInv
  PROVE  Shaped(Blank) /\ DeskGood(Blank) /\ FileNew(Blank) /\ RestNew(Blank)
<1>1. Shaped(Blank)
  BY BlankShape DEF Shaped
<1>2. 0 \in 0 .. MaxStage
  BY RoundsAre
<1>3. New # 0
  BY DEF New
<1> QED BY <1>1, <1>2, <1>3, BlankShape, NoRowShape DEF DeskGood, FileNew, RestNew

(* A session computes what it will store: the tables stay as they are.      *)
LEMMA DeskKeeps ==
  ASSUME PipeInv, NEW d \in Sessions, NEW w, desk' = [desk EXCEPT ![d] = w],
         UNCHANGED <<alone, plan, overtaken, attempts, talks, boarded>>,
         stage' \in 0 .. MaxStage, mover' # Worker, mover' = "rules" => Settled(stage'),
         \A e \in Desks : mover' = e => desk'[e] # Idle /\ (desk'[e].stage = 0 => Settled(stage')),
         w # Idle => DeskGood(w),
         alone /\ w # Idle => /\ \A e \in Sessions \ {d} : desk[e] = Idle
                              /\ FileNew(w) /\ RestNew(w)
  PROVE  PipeInv'
<1>1. \A v : /\ DeskGood(v) <=> DeskGood(v)'
             /\ FileNew(v) <=> FileNew(v)'
             /\ RestNew(v) <=> RestNew(v)'
  BY DEF DeskGood, FileNew, RestNew, Settled, Finished, Rests, AutoMoves, Held, Scheduled
<1>2. \A s : Settled(s) <=> Settled(s)'
  BY DEF Settled, Finished, Rests, AutoMoves
<1>3. /\ desk' = [e \in Sessions |-> desk'[e]] /\ desk'[d] = w
      /\ \A e \in Sessions \ {d} : desk'[e] = desk[e]
  BY DEF PipeInv
<1>4. \A e \in Sessions : desk'[e] # Idle => DeskGood(desk[e])'
  BY <1>1, <1>3 DEF PipeInv
<1>5. alone' => /\ \A e, f \in Sessions : (desk'[e] # Idle /\ desk'[f] # Idle) => e = f
                /\ \A e \in Sessions : desk'[e] # Idle => FileNew(desk[e])' /\ RestNew(desk[e])'
  BY <1>1, <1>3 DEF PipeInv
<1>6. OneEach' = OneEach
  BY DEF OneEach
<1>7. /\ mover' = "rules" => Settled(stage)'
      /\ \A e \in Desks : mover' = e => desk'[e] # Idle /\ (desk'[e].stage = 0 => Settled(stage)')
  <2>1. Settled(stage') <=> Settled(stage)'
    BY DEF Settled, Finished, Rests, AutoMoves
  <2> QED BY <2>1
<1> QED BY <1>3, <1>4, <1>5, <1>6, <1>7 DEF PipeInv

(* A session that stores nothing yet and moves nothing.                     *)
LEMMA RequestKeeps ==
  ASSUME PipeInv, NEW d \in Desks, NEW w, Request(d, w), DeskGood(w), FileNew(w), RestNew(w)
  PROVE  PipeInv'
<1>1. /\ desk[d] = Idle /\ (alone => Pending = {}) /\ desk' = [desk EXCEPT ![d] = w]
      /\ UNCHANGED <<alone, plan, overtaken, stage, mover, attempts, talks, boarded>>
  BY DEF Request, Free, Works, job
<1>2. d \in Sessions
  BY RoundsAre
<1>3. alone => \A e \in Sessions : desk[e] = Idle
  BY <1>1 DEF Pending
<1>4. /\ stage' \in 0 .. MaxStage /\ mover' # Worker /\ (mover' = "rules" => Settled(stage'))
      /\ \A e \in Desks : mover' = e => e # d /\ desk[e] # Idle /\ (desk[e].stage = 0 => Settled(stage'))
  BY <1>1 DEF PipeInv
<1>5. \A e \in Desks : mover' = e => desk'[e] # Idle /\ (desk'[e].stage = 0 => Settled(stage'))
  BY <1>1, <1>4 DEF PipeInv
<1> QED BY <1>1, <1>2, <1>3, <1>4, <1>5, DeskKeeps

\* The records an automation writes for a session that has nothing else to store.
LEMMA SessionIsNotIdle ==
  ASSUME PipeInv, NEW s \in Rounds, NEW base \in 0 .. MaxStage
  PROVE  Triggered(Blank, s, base) # Idle
<1>1. PICK v : v = Triggered(Blank, s, base)
  OBVIOUS
<1>2. /\ Shaped(v) /\ DeskGood(v) /\ v.file = Blank.file /\ v.row = Blank.row /\ v.logs \subseteq Rounds
      /\ v.settle = Blank.settle /\ v.seen = Blank.seen /\ v.mailing = Blank.mailing
      /\ v.wrote = Blank.wrote /\ v.closes = Blank.closes
  BY <1>1, BlankGood, TriggeredGood
<1>3. /\ v.file = 0 /\ v.row = NoRow /\ v.settle = 0 /\ v.seen = 0 /\ v.mailing = 0
      /\ v.wrote = 0 /\ v.closes = TRUE
  BY <1>2, BlankShape
<1>4. v.stage \in 0 .. MaxStage /\ v.board \in 0 .. MaxStage /\ v.talks \subseteq Rounds
  BY <1>2 DEF DeskGood
<1>5. v \in [stage : 0 .. MaxStage, logs : SUBSET Rounds, talks : SUBSET Rounds,
             board : 0 .. MaxStage, file : {0}, row : {NoRow}, settle : {0}, seen : {0},
             mailing : {0}, wrote : {0}, closes : BOOLEAN]
  BY <1>2, <1>3, <1>4 DEF Shaped
<1> QED BY <1>1, <1>5, IdleAssumption

LEMMA ApplyKeeps ==
  ASSUME PipeInv, NEW d \in Desks, Apply(d)
  PROVE  PipeInv'
<1>1. 1 \in Rounds /\ 1 \in 0 .. MaxStage /\ d \in Sessions
  BY RoundsAre
<1>2. PICK v : v = Triggered(Blank, 1, 1)
  OBVIOUS
<1>3. Shaped(v) /\ DeskGood(v) /\ RestNew(v) /\ v.file = 0
  BY <1>1, <1>2, BlankGood, BlankShape, TriggeredGood
<1>4. PICK w : w = [v EXCEPT !.closes = FALSE]
  OBVIOUS
<1>5. /\ w.stage = v.stage /\ w.talks = v.talks /\ w.board = v.board /\ w.file = v.file
      /\ w.row = v.row /\ w.seen = v.seen /\ w.closes = FALSE
  BY <1>3, <1>4 DEF Shaped
<1>6. DeskGood(w) /\ RestNew(w) /\ FileNew(w)
  <2>1. New # 0
    BY DEF New
  <2> QED BY <1>3, <1>5, <2>1 DEF DeskGood, RestNew, FileNew
<1>7. /\ desk[d] = Idle /\ (alone => Pending = {}) /\ desk' = [desk EXCEPT ![d] = w]
      /\ stage' = 1 /\ mover' = "other"
      /\ UNCHANGED <<alone, plan, overtaken, attempts, talks, boarded>>
  BY <1>2, <1>4 DEF Apply, Free, Works, job
<1>8. alone => \A e \in Sessions : desk[e] = Idle
  BY <1>7 DEF Pending
<1>9. mover' # Worker /\ \A e \in Desks : mover' # e
  BY <1>7, RoundsAre
<1> QED BY <1>1, <1>6, <1>7, <1>8, <1>9, DeskKeeps

LEMMA UpdateStageKeeps ==
  ASSUME PipeInv, NEW d \in Desks, NEW s \in 1 .. plan.rounds, UpdateStage(d, s)
  PROVE  PipeInv'
<1>1. /\ s \in Rounds /\ s \in 0 .. MaxStage /\ s # 0
      /\ d \in Sessions /\ d # "rules" /\ d # Worker
  BY RoundsAre
<1>2. PICK w : w = Triggered(Blank, s, s)
  OBVIOUS
<1>3. /\ Shaped(w) /\ DeskGood(w) /\ RestNew(w) /\ w.file = 0 /\ w # Idle
      /\ w.stage = 0 => Settled(s)
  BY <1>1, <1>2, BlankGood, BlankShape, TriggeredGood, SessionIsNotIdle DEF Settled, Finished
<1>4. FileNew(w)
  <2>1. New # 0
    BY DEF New
  <2> QED BY <1>3, <2>1 DEF FileNew
<1>5. /\ desk[d] = Idle /\ (alone => Pending = {}) /\ desk' = [desk EXCEPT ![d] = w]
      /\ stage' = s /\ mover' = d
      /\ UNCHANGED <<alone, plan, overtaken, attempts, talks, boarded>>
  BY <1>2 DEF UpdateStage, Free, Works, job
<1>6. alone => \A e \in Sessions : desk[e] = Idle
  BY <1>5 DEF Pending
<1>7. \A e \in Desks : mover' = e => desk'[e] # Idle /\ (desk'[e].stage = 0 => Settled(stage'))
  <2>1. desk'[d] = w
    BY <1>1, <1>5 DEF PipeInv
  <2> QED BY <1>3, <1>5, <2>1
<1>8. mover' # "rules" /\ mover' # Worker
  BY <1>1, <1>5
<1> QED BY <1>1, <1>3, <1>4, <1>5, <1>6, <1>7, <1>8, DeskKeeps

(* An interview completed, an onboarding begun or approved.                 *)
LEMMA MoveKeeps ==
  ASSUME PipeInv, NEW d \in Desks,
         \/ \E i \in DOMAIN talks : CompleteInterview(d, i)
         \/ InitiateOnboarding(d) \/ ApproveOnboarding(d)
  PROVE  PipeInv'
<1>1. stage \in 0 .. MaxStage /\ MaxStage \in Nat /\ MaxStage >= 1
  BY RoundsAre DEF PipeInv
<1>2. ASSUME NEW s \in Rounds, Request(d, Triggered(Blank, s, stage)) PROVE PipeInv'
  <2>1. PICK v : v = Triggered(Blank, s, stage)
    OBVIOUS
  <2>2. DeskGood(v) /\ RestNew(v) /\ v.file = 0
    BY <1>1, <2>1, BlankGood, BlankShape, TriggeredGood
  <2>3. FileNew(v)
    <3>1. New # 0
      BY DEF New
    <3> QED BY <2>2, <3>1 DEF FileNew
  <2> QED BY <1>2, <2>1, <2>2, <2>3, RequestKeeps
<1>3. ASSUME NEW i \in DOMAIN talks, CompleteInterview(d, i) PROVE PipeInv'
  <2>1. stage + 1 \in Rounds /\ Request(d, Triggered(Blank, stage + 1, stage))
    BY <1>1, <1>3 DEF CompleteInterview, Rounds
  <2> QED BY <1>2, <2>1
<1>4. CASE InitiateOnboarding(d)
  <2>1. PICK w : w = [Blank EXCEPT !.board = 1]
    OBVIOUS
  <2>2. Request(d, w) /\ boarded = 0
    BY <1>4, <2>1 DEF InitiateOnboarding
  <2>3. DeskGood(w) /\ FileNew(w) /\ RestNew(w)
    <3>1. /\ w.stage = 0 /\ w.talks = {} /\ w.board = 1 /\ w.file = 0 /\ w.row = NoRow /\ w.seen = 0
         /\ w.closes = TRUE
      BY <2>1, BlankShape
    <3>2. 0 \in 0 .. MaxStage /\ 1 \in 0 .. MaxStage
      BY <1>1
    <3>3. New # 0
      BY DEF New
    <3> QED BY <2>2, <3>1, <3>2, <3>3, NoRowShape DEF DeskGood, FileNew, RestNew
  <2> QED BY <2>2, <2>3, RequestKeeps
<1>5. CASE ApproveOnboarding(d)
  BY <1>2, <1>5, RoundsAre DEF ApproveOnboarding
<1> QED BY <1>3, <1>4, <1>5

(* An answer that is stored over an attempt, or as a new one.               *)
LEMMA AnswerGood ==
  ASSUME PipeInv, NEW i \in {New, 0} \cup DOMAIN attempts, NEW r, RowShaped(r),
         (i = New /\ r.rule # 0) => Held(r.rule) = {}
  PROVE  LET w == [Blank EXCEPT !.file = i, !.row = r]
         IN  Shaped(w) /\ DeskGood(w) /\ FileNew(w) /\ RestNew(w)
<1>1. PICK w : w = [Blank EXCEPT !.file = i, !.row = r]
  OBVIOUS
<1>2. /\ Shaped(w) /\ w.stage = 0 /\ w.talks = {} /\ w.board = 0 /\ w.file = i /\ w.row = r
      /\ w.seen = 0 /\ w.closes = TRUE
  BY <1>1, BlankShape DEF Shaped
<1>3. 0 \in 0 .. MaxStage
  BY RoundsAre
<1> QED BY <1>1, <1>2, <1>3 DEF DeskGood, FileNew, RestNew

LEMMA AnswerTriggered ==
  ASSUME PipeInv, NEW w, Shaped(w), DeskGood(w), FileNew(w), NEW s \in Rounds
  PROVE  LET v == Triggered(w, s, stage) IN DeskGood(v) /\ FileNew(v) /\ RestNew(v)
<1>1. PICK v : v = Triggered(w, s, stage)
  OBVIOUS
<1>2. DeskGood(v) /\ RestNew(v) /\ v.file = w.file /\ v.row = w.row
  <2>1. stage \in 0 .. MaxStage
    BY DEF PipeInv
  <2> QED BY <1>1, <2>1, TriggeredGood
<1> QED BY <1>1, <1>2 DEF FileNew

LEMMA VerifyKeeps ==
  ASSUME PipeInv, NEW d \in Desks, NEW r \in Rounds, Verify(d, r)
  PROVE  PipeInv'
<1>1. PICK row : row = [rule |-> r, status |-> "STARTED", report |-> Unreported]
  OBVIOUS
<1>2. PICK w : w = [Blank EXCEPT !.file = New, !.row = row]
  OBVIOUS
<1>3. Held(r) = {} /\ Request(d, w)
  BY <1>1, <1>2 DEF Verify
<1>4. RowShaped(row) /\ row.rule = r
  BY <1>1 DEF RowShaped
<1>5. DeskGood(w) /\ FileNew(w) /\ RestNew(w)
  BY <1>2, <1>3, <1>4, AnswerGood
<1> QED BY <1>3, <1>5, RequestKeeps

LEMMA AnsweredGood ==
  ASSUME PipeInv, NEW i \in DOMAIN attempts, NEW status, NEW report
  PROVE  LET w == Answered(i, status, report)
         IN  Shaped(w) /\ DeskGood(w) /\ FileNew(w) /\ RestNew(w)
<1>1. PICK row : row = [rule |-> attempts[i].rule, status |-> status, report |-> report]
  OBVIOUS
<1>2. RowShaped(row)
  BY <1>1 DEF RowShaped
<1>3. i # New
  <2>1. PICK S : attempts \in Seq(S)
    BY DEF PipeInv
  <2>2. i \in Nat
    BY <2>1, RowsShape
  <2>3. \A n \in Nat : n # -1
    OBVIOUS
  <2> QED BY <2>2, <2>3 DEF New
<1>4. Answered(i, status, report) = [Blank EXCEPT !.file = i, !.row = row]
  BY <1>1 DEF Answered
<1>5. PICK w : w = [Blank EXCEPT !.file = i, !.row = row]
  OBVIOUS
<1>6. Shaped(w) /\ DeskGood(w) /\ FileNew(w) /\ RestNew(w)
  BY <1>2, <1>3, <1>5, AnswerGood
<1> QED BY <1>4, <1>5, <1>6

LEMMA SubmitKeeps ==
  ASSUME PipeInv, NEW d \in Desks, NEW i \in DOMAIN attempts, NEW status, NEW report,
         \/ Request(d, Answered(i, status, report))
         \/ Request(d, Triggered(Answered(i, status, report), stage, stage))
  PROVE  PipeInv'
<1>1. PICK w : w = Answered(i, status, report)
  OBVIOUS
<1>2. Shaped(w) /\ DeskGood(w) /\ FileNew(w) /\ RestNew(w)
  BY <1>1, AnsweredGood
<1>3. stage # 0
  BY DEF Request
<1>4. stage \in Rounds
  BY <1>3, RoundsAre DEF PipeInv
<1>5. PICK v : v = Triggered(w, stage, stage)
  OBVIOUS
<1>6. DeskGood(v) /\ FileNew(v) /\ RestNew(v)
  BY <1>2, <1>4, <1>5, AnswerTriggered
<1> QED BY <1>1, <1>2, <1>5, <1>6, RequestKeeps

LEMMA RecordKeeps ==
  ASSUME PipeInv, NEW d \in Desks, NEW report, NEW outcome, RecordResult(d, report, outcome)
  PROVE  PipeInv'
<1> DEFINE old == IF RuleNow = 0 THEN {} ELSE Held(RuleNow)
<1>1. PICK i : i = IF old = {} THEN New ELSE Min(old)
  OBVIOUS
<1>2. PICK status : status = IF outcome = "partial" THEN "STARTED" ELSE "COMPLETED"
  OBVIOUS
<1>3. PICK row : row = [rule |-> RuleNow, report |-> report, status |-> status]
  OBVIOUS
<1>4. PICK w : w = [Blank EXCEPT !.file = i, !.row = row]
  OBVIOUS
<1>5. w = Recorded(report, outcome)
  BY <1>1, <1>2, <1>3, <1>4 DEF Recorded
<1>6. old \in SUBSET Nat /\ old \subseteq DOMAIN attempts
  <2>1. PICK S : attempts \in Seq(S)
    BY DEF PipeInv
  <2>2. \A j \in DOMAIN attempts : j \in Nat
    BY <2>1, RowsShape
  <2> QED BY <2>2 DEF Held
<1>7. /\ i \in {New, 0} \cup DOMAIN attempts
      /\ (i = New /\ row.rule # 0) => Held(row.rule) = {}
  <2>1. CASE old = {}
    BY <1>1, <1>3, <2>1
  <2>2. CASE old # {}
    <3>1. i = Min(old)
      BY <1>1, <2>2
    <3> HIDE DEF old
    <3>2. i \in old
      BY <1>6, <2>2, <3>1, LeastMember
    <3>3. \A n \in Nat : n # -1
      OBVIOUS
    <3> QED BY <1>6, <3>2, <3>3 DEF New
  <2> QED BY <2>1, <2>2
<1>8. RowShaped(row)
  BY <1>3 DEF RowShaped
<1> HIDE DEF old
<1>9. Shaped(w) /\ DeskGood(w) /\ FileNew(w) /\ RestNew(w)
  BY <1>4, <1>7, <1>8, AnswerGood
<1>10. CASE Request(d, w)
  BY <1>9, <1>10, RequestKeeps
<1>11. CASE stage # 0 /\ stage < plan.rounds /\ Request(d, Triggered(w, stage + 1, stage))
  <2>1. stage + 1 \in Rounds
    <3>1. stage \in Nat /\ plan.rounds \in 1 .. MaxStage /\ MaxStage \in Nat
      BY RoundsAre DEF PipeInv
    <3> QED BY <1>11, <3>1 DEF Rounds
  <2>2. PICK v : v = Triggered(w, stage + 1, stage)
    OBVIOUS
  <2>3. DeskGood(v) /\ FileNew(v) /\ RestNew(v)
    BY <1>9, <2>1, <2>2, AnswerTriggered
  <2> QED BY <1>11, <2>2, <2>3, RequestKeeps
<1> QED BY <1>5, <1>10, <1>11 DEF RecordResult

LEMMA WorkerKeeps ==
  ASSUME PipeInv, NEW w, desk' = [desk EXCEPT ![Worker] = w],
         UNCHANGED <<alone, plan, overtaken, stage, mover, attempts, talks, boarded>>,
         alone => \A e \in Sessions \ {Worker} : desk[e] = Idle,
         DeskGood(w), FileNew(w), RestNew(w)
  PROVE  PipeInv'
<1>1. /\ stage' \in 0 .. MaxStage /\ mover' # Worker /\ Worker \in Sessions
      /\ mover' = "rules" => Settled(stage')
  BY RoundsAre DEF PipeInv
<1>2. \A e \in Desks : mover' = e => desk'[e] # Idle /\ (desk'[e].stage = 0 => Settled(stage'))
  <2>1. \A e \in Desks : e # Worker /\ e \in Sessions
    BY RoundsAre
  <2>2. \A e \in Desks : desk'[e] = desk[e]
    BY <2>1 DEF PipeInv
  <2> QED BY <2>2 DEF PipeInv
<1> QED BY <1>1, <1>2, DeskKeeps

LEMMA PickKeeps ==
  ASSUME PipeInv, NEW r \in Rounds, Pick(r)
  PROVE  PipeInv'
<1>1. PICK w : w = [Blank EXCEPT !.mailing = r, !.seen = stage]
  OBVIOUS
<1>2. /\ desk' = [desk EXCEPT ![Worker] = w] /\ (alone => Pending = {})
      /\ UNCHANGED <<alone, plan, overtaken, stage, mover, attempts, talks, boarded>>
  BY <1>1 DEF Pick, Free, job
<1>3. alone => \A e \in Sessions : desk[e] = Idle
  BY <1>2 DEF Pending
<1>4. /\ w.stage = 0 /\ w.talks = {} /\ w.board = 0 /\ w.file = 0 /\ w.row = NoRow /\ w.seen = stage
      /\ w.closes = TRUE
  BY <1>1, BlankShape
<1>5. DeskGood(w) /\ FileNew(w) /\ RestNew(w)
  <2>1. 0 \in 0 .. MaxStage /\ stage \in 0 .. MaxStage
    BY RoundsAre DEF PipeInv
  <2>2. New # 0
    BY DEF New
  <2> QED BY <1>4, <2>1, <2>2, NoRowShape DEF DeskGood, FileNew, RestNew
<1> QED BY <1>2, <1>3, <1>5, WorkerKeeps

LEMMA MailedKeeps ==
  ASSUME PipeInv, NEW sent \in BOOLEAN, Mailed(sent)
  PROVE  PipeInv'
<1>1. PICK n : n = desk[Worker].seen
  OBVIOUS
<1>2. PICK settle : settle = IF logs[desk[Worker].mailing] > 0 THEN desk[Worker].mailing ELSE 0
  OBVIOUS
<1>3. PICK done : done = [Blank EXCEPT !.settle = settle, !.wrote = desk[Worker].mailing]
  OBVIOUS
<1>4. /\ desk[Worker] # Idle
      /\ UNCHANGED <<alone, plan, overtaken, stage, mover, attempts, talks, boarded>>
      /\ \/ n < MaxStage /\ desk' = [desk EXCEPT ![Worker] = Triggered(done, n + 1, n)]
         \/ desk' = [desk EXCEPT ![Worker] = done]
  BY <1>1, <1>2, <1>3 DEF Mailed, Works, job
<1>5. alone => \A e \in Sessions \ {Worker} : desk[e] = Idle
  BY <1>4, RoundsAre DEF PipeInv
<1>6. n \in 0 .. MaxStage
  BY <1>1, <1>4, RoundsAre DEF PipeInv, DeskGood
<1>7. Shaped(done) /\ DeskGood(done) /\ FileNew(done) /\ RestNew(done) /\ done.file = 0
  <2>1. /\ Shaped(done) /\ done.stage = 0 /\ done.talks = {} /\ done.board = 0 /\ done.file = 0
        /\ done.row = NoRow /\ done.seen = 0 /\ done.closes = TRUE
    BY <1>3, BlankShape DEF Shaped
  <2>2. 0 \in 0 .. MaxStage
    BY RoundsAre
  <2>3. New # 0
    BY DEF New
  <2> QED BY <2>1, <2>2, <2>3, NoRowShape DEF DeskGood, FileNew, RestNew
<1>8. CASE n < MaxStage /\ desk' = [desk EXCEPT ![Worker] = Triggered(done, n + 1, n)]
  <2>1. n + 1 \in Rounds
    <3>1. MaxStage \in Nat
      BY RoundsAre
    <3> QED BY <1>6, <1>8, <3>1 DEF Rounds
  <2>2. PICK v : v = Triggered(done, n + 1, n)
    OBVIOUS
  <2>3. DeskGood(v) /\ RestNew(v) /\ v.file = 0
    BY <1>6, <1>7, <2>1, <2>2, TriggeredGood
  <2>4. FileNew(v)
    <3>1. New # 0
      BY DEF New
    <3> QED BY <2>3, <3>1 DEF FileNew
  <2> QED BY <1>4, <1>5, <1>8, <2>2, <2>3, <2>4, WorkerKeeps
<1>9. CASE desk' = [desk EXCEPT ![Worker] = done]
  BY <1>4, <1>5, <1>7, <1>9, WorkerKeeps
<1> QED BY <1>4, <1>8, <1>9

(* What a commit stores in the attempts: one more, or an answer to one.     *)
LEMMA AttemptsStored ==
  ASSUME PipeInv, NEW w, DeskGood(w),
         attempts' = IF w.file = New THEN Append(attempts, w.row)
                     ELSE IF w.file = 0 THEN attempts
                     ELSE [attempts EXCEPT ![w.file].status = w.row.status,
                             ![w.file].report = IF w.row.report = Keep THEN @ ELSE w.row.report]
  PROVE  /\ \E S : attempts' \in Seq(S)
         /\ \A i \in DOMAIN attempts' : RowShaped(attempts'[i])
         /\ \A i \in DOMAIN attempts : i \in DOMAIN attempts' /\ attempts'[i].rule = attempts[i].rule
         /\ \A i \in DOMAIN attempts' \ DOMAIN attempts :
               w.file = New /\ attempts'[i] = w.row /\ i = Len(attempts) + 1
<1>1. PICK S : attempts \in Seq(S)
  BY DEF PipeInv
<1>2. PICK row : row = w.row
  OBVIOUS
<1>3. RowShaped(row)
  BY <1>2 DEF DeskGood
<1> DEFINE T == S \cup {row}
<1>4. attempts \in Seq(T)
  <2>1. attempts = [i \in DOMAIN attempts |-> attempts[i]]
    BY <1>1, RowsShape
  <2>2. \A i \in DOMAIN attempts : attempts[i] \in T
    BY <1>1, RowsShape
  <2> QED BY <1>1, <2>1, <2>2, RowsMapped
<1>5. row \in T
  OBVIOUS
<1> HIDE DEF T
<1>6. CASE w.file = New
  <2>1. PICK p : p = Append(attempts, row)
    OBVIOUS
  <2>2. /\ p \in Seq(T) /\ DOMAIN p = DOMAIN attempts \cup {Len(attempts) + 1}
        /\ p[Len(attempts) + 1] = row /\ \A i \in DOMAIN attempts : p[i] = attempts[i]
    BY <1>4, <1>5, <2>1, RowsAppended
  <2>3. attempts' = p
    BY <1>2, <1>6, <2>1
  <2> QED BY <1>2, <1>3, <1>6, <2>2, <2>3 DEF PipeInv
<1>7. CASE w.file # New /\ w.file = 0
  BY <1>1, <1>7 DEF PipeInv
<1>8. CASE w.file # New /\ w.file # 0
  <2>1. PICK i : i = w.file
    OBVIOUS
  <2>2. i \in DOMAIN attempts
    BY <1>8, <2>1 DEF DeskGood
  <2>3. PICK report : report = IF row.report = Keep THEN attempts[i].report ELSE row.report
    OBVIOUS
  <2>4. PICK r : r = [attempts[i] EXCEPT !.status = row.status, !.report = report]
    OBVIOUS
  <2>5. RowShaped(attempts[i])
    BY <2>2 DEF PipeInv
  <2>6. RowShaped(r) /\ r.rule = attempts[i].rule
    BY <2>4, <2>5 DEF RowShaped
  <2>7. attempts' = [attempts EXCEPT ![i] = r]
    <3>1. attempts' = [attempts EXCEPT ![i].status = row.status,
                                       ![i].report = IF row.report = Keep THEN @ ELSE row.report]
      BY <1>2, <1>8, <2>1
    <3>2. attempts' = [attempts EXCEPT ![i] = [attempts[i] EXCEPT !.status = row.status,
                          !.report = IF row.report = Keep THEN @ ELSE row.report]]
      BY <2>2, <3>1
    <3>3. [attempts[i] EXCEPT !.status = row.status,
             !.report = IF row.report = Keep THEN @ ELSE row.report] = r
      BY <2>3, <2>4, <2>5 DEF RowShaped
    <3> QED BY <3>2, <3>3
  <2>8. PICK U : U = T \cup {r}
    OBVIOUS
  <2>9. attempts \in Seq(U)
    <3>1. attempts = [j \in DOMAIN attempts |-> attempts[j]]
      BY <1>1, RowsShape
    <3>2. \A j \in DOMAIN attempts : attempts[j] \in U
      BY <1>4, <2>8, RowsShape
    <3> QED BY <1>1, <3>1, <3>2, RowsMapped
  <2>10. /\ attempts' \in Seq(U) /\ DOMAIN attempts' = DOMAIN attempts
         /\ \A j \in DOMAIN attempts : attempts'[j] = IF j = i THEN r ELSE attempts[j]
    <3>1. PICK p : p = [attempts EXCEPT ![i] = r]
      OBVIOUS
    <3>2. /\ p \in Seq(U) /\ DOMAIN p = DOMAIN attempts
          /\ \A j \in DOMAIN attempts : p[j] = IF j = i THEN r ELSE attempts[j]
      BY <2>8, <2>9, <3>1, RowsReplaced
    <3> QED BY <2>7, <3>1, <3>2
  <2>11. \A j \in DOMAIN attempts : RowShaped(attempts[j])
    BY DEF PipeInv
  <2> QED BY <2>6, <2>10, <2>11
<1> QED BY <1>6, <1>7, <1>8

(* What a commit makes of the tables: alone, still one of each.             *)
LEMMA StoreKeeps ==
  ASSUME PipeInv, NEW d \in Sessions, desk[d] # Idle, NEW booked \in Seq(Rounds),
         NEW boards \in BOOLEAN, Store(desk[d], booked, boards), UNCHANGED <<alone, plan, overtaken>>,
         boards => desk[d].board # 0,
         \/ booked = <<>>
         \/ \E r \in desk[d].talks : booked = <<r>>
  PROVE  /\ \E S : attempts' \in Seq(S)
         /\ \A i \in DOMAIN attempts' : RowShaped(attempts'[i])
         /\ talks' \in Seq(Rounds) /\ boarded' \in Nat /\ stage' \in 0 .. MaxStage
         /\ DOMAIN attempts \subseteq DOMAIN attempts'
         /\ alone' => OneEach'
         /\ \A r : (r \notin {booked[i] : i \in DOMAIN booked} /\ Scheduled(r) = {})
                      => Scheduled(r)' = {}
         /\ boarded' = boarded + IF boards THEN 1 ELSE 0
<1>1. PICK w : w = desk[d]
  OBVIOUS
<1>2. DeskGood(w) /\ (alone => FileNew(w) /\ RestNew(w) /\ OneEach)
  BY <1>1 DEF PipeInv
<1>3. /\ stage' = IF w.stage # 0 THEN w.stage ELSE stage
      /\ talks' = talks \o booked /\ boarded' = boarded + IF boards THEN 1 ELSE 0
  BY <1>1 DEF Store
<1>4. /\ \E S : attempts' \in Seq(S)
      /\ \A i \in DOMAIN attempts' : RowShaped(attempts'[i])
      /\ \A i \in DOMAIN attempts : i \in DOMAIN attempts' /\ attempts'[i].rule = attempts[i].rule
      /\ \A i \in DOMAIN attempts' \ DOMAIN attempts :
            w.file = New /\ attempts'[i] = w.row /\ i = Len(attempts) + 1
  <2>1. attempts' = IF w.file = New THEN Append(attempts, w.row)
                    ELSE IF w.file = 0 THEN attempts
                    ELSE [attempts EXCEPT ![w.file].status = w.row.status,
                            ![w.file].report = IF w.row.report = Keep THEN @ ELSE w.row.report]
    BY <1>1 DEF Store
  <2> QED BY <1>2, <2>1, AttemptsStored
<1>5. PICK p : p = talks \o booked
  OBVIOUS
<1>6. /\ p \in Seq(Rounds) /\ DOMAIN talks \subseteq DOMAIN p
      /\ \A i \in DOMAIN talks : p[i] = talks[i]
      /\ \A i \in DOMAIN p \ DOMAIN talks :
            i - Len(talks) \in DOMAIN booked /\ p[i] = booked[i - Len(talks)]
      /\ \A i \in DOMAIN p : i \in Int
      /\ Len(talks) \in Nat
  <2>1. talks \in Seq(Rounds)
    BY DEF PipeInv
  <2>2. /\ p \in Seq(Rounds) /\ DOMAIN talks \subseteq DOMAIN p
        /\ \A i \in DOMAIN talks : p[i] = talks[i]
        /\ \A i \in DOMAIN p \ DOMAIN talks :
              i - Len(talks) \in DOMAIN booked /\ p[i] = booked[i - Len(talks)]
    BY <1>5, <2>1, RowsJoined
  <2> QED BY <2>1, <2>2, RowsShape
<1>7. talks' = p
  BY <1>3, <1>5
<1>8. boarded' \in Nat /\ stage' \in 0 .. MaxStage
  <2>1. boarded \in Nat /\ stage \in 0 .. MaxStage /\ w.stage \in 0 .. MaxStage
    BY <1>2 DEF PipeInv, DeskGood
  <2>2. boarded + 1 \in Nat /\ boarded + 0 \in Nat
    BY <2>1
  <2> QED BY <1>3, <2>1, <2>2
<1>9. ASSUME NEW r, r \notin {booked[i] : i \in DOMAIN booked}, Scheduled(r) = {}
      PROVE  Scheduled(r)' = {}
  <2>1. \A i \in DOMAIN p : p[i] # r
    BY <1>6, <1>9 DEF Scheduled
  <2> QED BY <1>7, <2>1 DEF Scheduled
<1>10. ASSUME alone' PROVE OneEach'
  <2>1. alone /\ OneEach /\ FileNew(w) /\ RestNew(w)
    BY <1>2, <1>10
  <2>2. ASSUME NEW i \in DOMAIN attempts', NEW j \in DOMAIN attempts',
               attempts'[i].rule = attempts'[j].rule, attempts'[i].rule # 0
        PROVE  i = j
    <3>1. \A k \in DOMAIN attempts, l \in DOMAIN attempts' \ DOMAIN attempts :
            (attempts'[k].rule = attempts'[l].rule /\ attempts'[k].rule # 0) => FALSE
      <4> SUFFICES ASSUME NEW k \in DOMAIN attempts, NEW l \in DOMAIN attempts' \ DOMAIN attempts,
                          attempts'[k].rule = attempts'[l].rule, attempts'[k].rule # 0
                   PROVE  FALSE
        OBVIOUS
      <4>1. w.file = New /\ attempts'[l] = w.row /\ attempts'[k].rule = attempts[k].rule
        BY <1>4
      <4>2. Held(w.row.rule) = {} /\ attempts[k].rule = w.row.rule
        BY <2>1, <4>1 DEF FileNew
      <4> QED BY <4>2 DEF Held
    <3>2. CASE i \in DOMAIN attempts /\ j \in DOMAIN attempts
      BY <1>4, <2>1, <2>2, <3>2 DEF OneEach
    <3>3. CASE i \notin DOMAIN attempts /\ j \notin DOMAIN attempts
      BY <1>4, <3>3
    <3> QED BY <2>2, <3>1, <3>2, <3>3
  <2>3. ASSUME NEW i \in DOMAIN p, NEW j \in DOMAIN p, p[i] = p[j]
        PROVE  i = j
    <3>1. CASE booked = <<>>
      <4>1. DOMAIN booked = {}
        BY <3>1
      <4>2. i \in DOMAIN talks /\ j \in DOMAIN talks
        BY <1>6, <4>1
      <4> QED BY <1>6, <2>1, <2>3, <4>2 DEF OneEach
    <3>2. ASSUME NEW r \in w.talks, booked = <<r>>
          PROVE  i = j
      <4>1. DOMAIN booked = {1} /\ booked[1] = r
        BY <3>2, OneRow
      <4>2. \A k \in DOMAIN p \ DOMAIN talks : k = Len(talks) + 1 /\ p[k] = r
        <5> TAKE k \in DOMAIN p \ DOMAIN talks
        <5>1. k - Len(talks) = 1 /\ p[k] = booked[1]
          BY <1>6, <4>1
        <5> QED BY <1>6, <4>1, <5>1
      <4>3. \A k \in DOMAIN talks : p[k] # r
        BY <1>6, <2>1, <3>2 DEF RestNew, Scheduled
      <4> QED BY <1>6, <2>1, <2>3, <4>2, <4>3 DEF OneEach
    <3> QED BY <1>1, <3>1, <3>2
  <2>4. boarded' <= 1
    <3>1. boarded \in Nat /\ boarded <= 1
      BY <2>1 DEF PipeInv, OneEach
    <3>2. boards => boarded = 0
      BY <1>1, <2>1 DEF RestNew
    <3> QED BY <1>3, <3>1, <3>2
  <2> QED BY <1>7, <2>2, <2>3, <2>4 DEF OneEach
<1> QED BY <1>3, <1>4, <1>6, <1>7, <1>8, <1>9, <1>10

LEMMA CommitKeeps ==
  ASSUME PipeInv, NEW d \in Sessions, Commit(d)
  PROVE  PipeInv'
<1>1. PICK w : w = desk[d]
  OBVIOUS
<1>2. /\ desk[d] # Idle /\ desk' = [desk EXCEPT ![d] = Idle] /\ UNCHANGED <<alone, plan, overtaken>>
      /\ Store(desk[d], <<>>, w.board # 0)
      /\ mover' = IF w.stage # 0 \/ mover = d THEN "rules" ELSE mover
      /\ stage' = IF w.stage # 0 THEN w.stage ELSE stage
  BY <1>1 DEF Commit, Store, job
<1>3. DeskGood(w)
  BY <1>1, <1>2 DEF PipeInv
<1>4. <<>> \in Seq(Rounds)
  OBVIOUS
<1>5. PICK boards \in BOOLEAN : boards = (w.board # 0)
  OBVIOUS
<1>6. Store(desk[d], <<>>, boards) /\ (boards => desk[d].board # 0)
  BY <1>1, <1>2, <1>5
<1>7. /\ \E S : attempts' \in Seq(S)
      /\ \A i \in DOMAIN attempts' : RowShaped(attempts'[i])
      /\ talks' \in Seq(Rounds) /\ boarded' \in Nat /\ stage' \in 0 .. MaxStage
      /\ DOMAIN attempts \subseteq DOMAIN attempts'
      /\ alone' => OneEach'
  BY <1>2, <1>4, <1>6, StoreKeeps
<1>8. /\ desk' = [e \in Sessions |-> desk'[e]] /\ desk'[d] = Idle
      /\ \A e \in Sessions \ {d} : desk'[e] = desk[e]
  BY <1>2 DEF PipeInv
<1>9. (\A s : Settled(s) <=> Settled(s)') /\ (Settled(stage') <=> Settled(stage)')
  BY <1>2 DEF Settled, Finished, Rests, AutoMoves
<1>10. \A v : DeskGood(v) => DeskGood(v)'
  BY <1>7, <1>9 DEF DeskGood
<1>11. \A e \in Sessions : desk'[e] # Idle => DeskGood(desk[e])'
  BY <1>8, <1>10 DEF PipeInv
<1>12. alone' => \A e \in Sessions : desk'[e] = Idle
  BY <1>2, <1>8 DEF PipeInv
<1>13. mover' = "rules" => Settled(stage)'
  <2>1. CASE w.stage # 0
    BY <1>2, <1>3, <1>9, <2>1 DEF DeskGood
  <2>2. CASE w.stage = 0 /\ mover = d
    <3>1. d \in Desks \/ d = Worker
      BY DEF Sessions
    <3>2. d # Worker
      BY <2>2 DEF PipeInv
    <3> QED BY <1>1, <1>2, <1>9, <2>2, <3>1, <3>2 DEF PipeInv
  <2>3. CASE w.stage = 0 /\ mover # d
    BY <1>2, <1>9, <2>3 DEF PipeInv
  <2> QED BY <2>1, <2>2, <2>3
<1>14. mover' # Worker
  BY <1>2, RoundsAre DEF PipeInv
<1>15. \A e \in Desks : mover' = e => desk'[e] # Idle /\ (desk'[e].stage = 0 => Settled(stage)')
  <2> SUFFICES ASSUME NEW e \in Desks, mover' = e
               PROVE  desk'[e] # Idle /\ (desk'[e].stage = 0 => Settled(stage)')
    OBVIOUS
  <2>1. e # "rules" /\ e \in Sessions
    BY RoundsAre
  <2>2. w.stage = 0 /\ mover # d /\ mover = e /\ stage' = stage
    BY <1>2, <2>1
  <2> QED BY <1>8, <1>9, <2>1, <2>2 DEF PipeInv
<1> QED BY <1>2, <1>7, <1>8, <1>11, <1>12, <1>13, <1>14, <1>15 DEF PipeInv

LEMMA MidCommitKeeps ==
  ASSUME PipeInv, NEW d \in Sessions, MidCommit(d)
  PROVE  PipeInv'
<1>1. PICK w : w = desk[d]
  OBVIOUS
<1>2. PICK r : r = Max(w.talks)
  OBVIOUS
<1>3. PICK b : b = IF w.board > r THEN 0 ELSE w.board
  OBVIOUS
<1>4. PICK t : t = w.talks \ {r}
  OBVIOUS
<1>5. PICK v : v = [Blank EXCEPT !.talks = t, !.closes = w.closes, !.board = b]
  OBVIOUS
<1>6. /\ w # Idle /\ w.talks # {} /\ UNCHANGED <<alone, plan, overtaken>>
      /\ Store(w, <<r>>, w.board > r)
      /\ mover' = IF w.stage # 0 THEN "rules" ELSE mover
      /\ stage' = IF w.stage # 0 THEN w.stage ELSE stage
      /\ desk' = [desk EXCEPT ![d] = v]
  BY <1>1, <1>2, <1>3, <1>4, <1>5 DEF MidCommit, Store, job
<1>7. DeskGood(w)
  BY <1>1, <1>6 DEF PipeInv
<1>8. r \in w.talks /\ r \in Rounds /\ r \in Nat /\ r >= 1
  <2>1. r \in w.talks /\ r \in Rounds
    BY <1>2, <1>6, <1>7, LastRound DEF DeskGood
  <2> QED BY <2>1, RoundsAre
<1>9. w.board \in Nat
  BY <1>7, RoundsAre DEF DeskGood
<1>10. PICK boards \in BOOLEAN : boards <=> w.board > r
  <2>1. CASE w.board > r
    <3>1. TRUE <=> w.board > r
      BY <2>1
    <3> QED BY <3>1
  <2>2. CASE ~(w.board > r)
    <3>1. FALSE <=> w.board > r
      BY <2>2
    <3> QED BY <3>1
  <2> QED BY <2>1, <2>2
<1>11. Store(desk[d], <<r>>, boards) /\ (boards => desk[d].board # 0) /\ (~boards => b = w.board)
       /\ (boards => b = 0)
  <2>1. w.board > r => w.board # 0
    BY <1>8, <1>9
  <2>2. Store(w, <<r>>, boards)
    BY <1>6, <1>10 DEF Store
  <2> QED BY <1>1, <1>3, <1>10, <2>1, <2>2
<1>12. <<r>> \in Seq(Rounds) /\ DOMAIN <<r>> = {1} /\ <<r>>[1] = r
  BY <1>8, OneRow
<1>13. /\ \E S : attempts' \in Seq(S)
       /\ \A i \in DOMAIN attempts' : RowShaped(attempts'[i])
       /\ talks' \in Seq(Rounds) /\ boarded' \in Nat /\ stage' \in 0 .. MaxStage
       /\ DOMAIN attempts \subseteq DOMAIN attempts'
       /\ alone' => OneEach'
       /\ \A x : (x # r /\ Scheduled(x) = {}) => Scheduled(x)' = {}
       /\ boarded' = boarded + IF boards THEN 1 ELSE 0
  <2>1. PICK q : q = <<r>>
    OBVIOUS
  <2>2. /\ q \in Seq(Rounds) /\ Store(desk[d], q, boards) /\ \E x \in desk[d].talks : q = <<x>>
        /\ \A x : x \in {q[i] : i \in DOMAIN q} => x = r
    BY <1>1, <1>8, <1>11, <1>12, <2>1
  <2> QED BY <1>1, <1>6, <1>11, <2>2, StoreKeeps
<1>14. /\ desk' = [e \in Sessions |-> desk'[e]] /\ desk'[d] = v
       /\ \A e \in Sessions \ {d} : desk'[e] = desk[e]
  BY <1>6 DEF PipeInv
<1>15. (\A s : Settled(s) <=> Settled(s)') /\ (Settled(stage') <=> Settled(stage)')
  BY <1>6 DEF Settled, Finished, Rests, AutoMoves
<1>16. \A u : DeskGood(u) => DeskGood(u)'
  BY <1>13, <1>15 DEF DeskGood
<1>17. /\ v.stage = 0 /\ v.talks = t /\ v.board = b /\ v.file = 0 /\ v.row = NoRow /\ v.seen = 0
       /\ v.closes = w.closes /\ v.logs = {} /\ v.settle = 0 /\ v.mailing = 0 /\ v.wrote = 0
       /\ Shaped(v)
  BY <1>5, BlankShape DEF Shaped
<1>18. DeskGood(v)
  <2>1. b \in 0 .. MaxStage /\ 0 \in 0 .. MaxStage
    BY <1>3, <1>7, RoundsAre DEF DeskGood
  <2>2. t \subseteq Rounds
    BY <1>4, <1>7 DEF DeskGood
  <2>3. w.closes \in BOOLEAN
    BY <1>7 DEF DeskGood
  <2> QED BY <1>17, <2>1, <2>2, <2>3, NoRowShape DEF DeskGood
<1>19. \A e \in Sessions : desk'[e] # Idle => DeskGood(desk[e])'
  BY <1>14, <1>16, <1>18 DEF PipeInv
<1>20. ASSUME alone'
       PROVE  /\ \A e \in Sessions \ {d} : desk'[e] = Idle
              /\ FileNew(v)' /\ RestNew(v)'
  <2>1. alone /\ RestNew(w)
    BY <1>1, <1>6, <1>20 DEF PipeInv
  <2>2. \A e \in Sessions \ {d} : desk'[e] = Idle
    BY <1>1, <1>6, <1>14, <2>1 DEF PipeInv
  <2>3. FileNew(v)'
    <3>1. New # 0
      BY DEF New
    <3> QED BY <1>17, <3>1 DEF FileNew
  <2>4. \A x \in t : Scheduled(x)' = {}
    BY <1>4, <1>13, <2>1 DEF RestNew
  <2>5. b # 0 => boarded' = 0
    <3>1. boarded \in Nat
      BY DEF PipeInv
    <3>2. b # 0 => ~boards /\ boarded = 0
      BY <1>11, <2>1 DEF RestNew
    <3> QED BY <1>13, <3>1, <3>2
  <2> QED BY <1>17, <2>2, <2>3, <2>4, <2>5 DEF RestNew
<1>21. alone' => /\ \A e, f \in Sessions : (desk'[e] # Idle /\ desk'[f] # Idle) => e = f
                 /\ \A e \in Sessions : desk'[e] # Idle => FileNew(desk[e])' /\ RestNew(desk[e])'
  BY <1>14, <1>20
<1>22. mover' = "rules" => Settled(stage)'
  BY <1>6, <1>7, <1>15 DEF PipeInv, DeskGood
<1>23. mover' # Worker
  BY <1>6, RoundsAre DEF PipeInv
<1>24. \A e \in Desks : mover' = e => desk'[e] # Idle /\ (desk'[e].stage = 0 => Settled(stage)')
  <2> SUFFICES ASSUME NEW e \in Desks, mover' = e
               PROVE  desk'[e] # Idle /\ (desk'[e].stage = 0 => Settled(stage)')
    OBVIOUS
  <2>1. e # "rules" /\ e \in Sessions
    BY RoundsAre
  <2>2. w.stage = 0 /\ mover = e /\ stage' = stage
    BY <1>6, <2>1
  <2>3. CASE e # d
    BY <1>14, <1>15, <2>1, <2>2, <2>3 DEF PipeInv
  <2>4. CASE e = d
    <3>1. Settled(stage)
      BY <1>1, <2>2, <2>4 DEF PipeInv
    <3>2. v # Idle
      <4>1. v.closes \in BOOLEAN /\ v.board \in 0 .. MaxStage /\ v.stage \in 0 .. MaxStage
            /\ v.talks \subseteq Rounds
        BY <1>18 DEF DeskGood
      <4>2. v \in [stage : 0 .. MaxStage, logs : SUBSET Rounds, talks : SUBSET Rounds,
                   board : 0 .. MaxStage, file : {0}, row : {NoRow}, settle : {0}, seen : {0},
                   mailing : {0}, wrote : {0}, closes : BOOLEAN]
        BY <1>17, <4>1 DEF Shaped
      <4> QED BY <4>2, IdleAssumption
    <3> QED BY <1>14, <1>15, <2>2, <2>4, <3>1, <3>2
  <2> QED BY <2>3, <2>4
<1> QED BY <1>6, <1>13, <1>14, <1>19, <1>21, <1>22, <1>23, <1>24 DEF PipeInv

LEMMA ArriveKeeps ==
  ASSUME PipeInv, Arrive \/ AgentMove
  PROVE  PipeInv'
<1>1. /\ mover' = "other" /\ stage' \in 0 .. MaxStage
      /\ UNCHANGED <<alone, plan, overtaken, attempts, talks, boarded, desk>>
  <2>1. MaxStage \in Nat /\ MaxStage >= 1 /\ stage \in 0 .. MaxStage
    BY RoundsAre DEF PipeInv
  <2>2. CASE Arrive
    BY <2>1, <2>2 DEF Arrive, job
  <2>3. CASE AgentMove
    <3>1. stage + 1 \in 0 .. MaxStage
      BY <2>1, <2>3 DEF AgentMove
    <3> QED BY <2>3, <3>1 DEF AgentMove, job
  <2> QED BY <2>2, <2>3
<1>2. "other" # "rules" /\ "other" # Worker /\ \A d \in Desks : d # "other"
  BY RoundsAre
<1>3. \A v : /\ DeskGood(v) <=> DeskGood(v)'
             /\ FileNew(v) <=> FileNew(v)'
             /\ RestNew(v) <=> RestNew(v)'
  BY <1>1 DEF DeskGood, FileNew, RestNew, Settled, Finished, Rests, AutoMoves, Held, Scheduled
<1>4. \A e \in Sessions : desk'[e] # Idle => DeskGood(desk[e])'
  BY <1>1, <1>3 DEF PipeInv
<1>5. alone' => /\ \A e, f \in Sessions : (desk'[e] # Idle /\ desk'[f] # Idle) => e = f
                /\ \A e \in Sessions : desk'[e] # Idle => FileNew(desk[e])' /\ RestNew(desk[e])'
  BY <1>1, <1>3 DEF PipeInv
<1>6. OneEach' = OneEach
  BY <1>1 DEF OneEach
<1> QED BY <1>1, <1>2, <1>4, <1>5, <1>6 DEF PipeInv

LEMMA AbandonKeeps ==
  ASSUME PipeInv, NEW d \in Sessions, Abandon(d)
  PROVE  PipeInv'
<1>1. PICK w : w = Idle
  OBVIOUS
<1>2. /\ desk' = [desk EXCEPT ![d] = w] /\ mover' = IF mover = d THEN "other" ELSE mover
      /\ UNCHANGED <<alone, plan, overtaken, stage, attempts, talks, boarded>>
  BY <1>1 DEF Abandon, job
<1>3. stage' \in 0 .. MaxStage
  BY <1>2 DEF PipeInv
<1>4. mover' # Worker /\ (mover' = "rules" => Settled(stage'))
  BY <1>2, RoundsAre DEF PipeInv
<1>5. \A e \in Desks : mover' = e => desk'[e] # Idle /\ (desk'[e].stage = 0 => Settled(stage'))
  <2> SUFFICES ASSUME NEW e \in Desks, mover' = e
               PROVE  desk'[e] # Idle /\ (desk'[e].stage = 0 => Settled(stage'))
    OBVIOUS
  <2>1. e # "other" /\ e \in Sessions
    BY RoundsAre
  <2>2. mover = e /\ e # d
    BY <1>2, <2>1
  <2>3. desk'[e] = desk[e]
    BY <1>2, <2>1, <2>2 DEF PipeInv
  <2> QED BY <1>2, <2>2, <2>3 DEF PipeInv
<1> QED BY <1>1, <1>2, <1>3, <1>4, <1>5, DeskKeeps

LEMMA RedeliverKeeps ==
  ASSUME PipeInv, UNCHANGED <<alone, plan, overtaken, stage, mover, attempts, talks, boarded, desk>>
  PROVE  PipeInv'
<1>1. \A v : /\ DeskGood(v) <=> DeskGood(v)'
             /\ FileNew(v) <=> FileNew(v)'
             /\ RestNew(v) <=> RestNew(v)'
  BY DEF DeskGood, FileNew, RestNew, Settled, Finished, Rests, AutoMoves, Held, Scheduled
<1>2. Settled(stage) <=> Settled(stage)'
  BY DEF Settled, Finished, Rests, AutoMoves
<1>3. \A e \in Sessions : desk'[e] # Idle => DeskGood(desk[e])'
  BY <1>1 DEF PipeInv
<1>4. alone' => /\ \A e, f \in Sessions : (desk'[e] # Idle /\ desk'[f] # Idle) => e = f
                /\ \A e \in Sessions : desk'[e] # Idle => FileNew(desk[e])' /\ RestNew(desk[e])'
  BY <1>1 DEF PipeInv
<1>5. OneEach' = OneEach
  BY DEF OneEach
<1>6. /\ mover' = "rules" => Settled(stage)'
      /\ \A e \in Desks : mover' = e => desk'[e] # Idle /\ (desk'[e].stage = 0 => Settled(stage)')
  BY <1>2 DEF PipeInv
<1> QED BY <1>3, <1>4, <1>5, <1>6 DEF PipeInv

LEMMA RefusedKeeps ==
  ASSUME PipeInv, Refused
  PROVE  PipeInv'
<1>1. PICK w : w = Idle
  OBVIOUS
<1>2. /\ desk' = [desk EXCEPT ![Worker] = w]
      /\ UNCHANGED <<alone, plan, overtaken, stage, mover, attempts, talks, boarded>>
  BY <1>1 DEF Refused, job
<1>3. /\ stage' \in 0 .. MaxStage /\ mover' # Worker /\ Worker \in Sessions
      /\ mover' = "rules" => Settled(stage')
  BY <1>2, RoundsAre DEF PipeInv
<1>4. \A e \in Desks : mover' = e => desk'[e] # Idle /\ (desk'[e].stage = 0 => Settled(stage'))
  <2>1. \A e \in Desks : e # Worker /\ e \in Sessions
    BY RoundsAre
  <2>2. \A e \in Desks : desk'[e] = desk[e]
    BY <1>2, <2>1 DEF PipeInv
  <2> QED BY <1>2, <2>2 DEF PipeInv
<1> QED BY <1>1, <1>2, <1>3, <1>4, DeskKeeps

LEMMA MissingKeeps ==
  ASSUME PipeInv, Missing
  PROVE  PipeInv'
<1> QED BY RedeliverKeeps DEF Missing

(* A mail rule armed or deleted: where the application rests or is about to,  *)
(* it has followed the rules to the end, or the round is overtaken.          *)
LEMMA ArmKeeps ==
  ASSUME PipeInv, NEW r \in Rounds, NEW mail \in Mails, ArmMail(r, mail)
  PROVE  PipeInv'
<1>1. PICK m : m = [plan.mail EXCEPT ![r] = mail]
  OBVIOUS
<1>2. PICK gone : gone = [Blank EXCEPT !.mailing = Gone]
  OBVIOUS
<1>3. /\ alone => Pending = {}
      /\ plan' = [plan EXCEPT !.mail = m]
      /\ overtaken' = IF mail = "nowMove" /\ (stage = r \/ \E d \in Pending : desk[d].stage = r)
                      THEN overtaken \cup {r} ELSE overtaken
      /\ desk' = IF desk[Worker] # Idle /\ desk[Worker].mailing = r
                 THEN [desk EXCEPT ![Worker] = gone] ELSE desk
      /\ UNCHANGED <<alone, stage, mover, attempts, talks, boarded>>
  BY <1>1, <1>2 DEF ArmMail
<1>4. plan' \in PlanRecords /\ plan'.mail = m /\ plan'.rounds = plan.rounds
  <2>1. m \in [Rounds -> Mails]
    BY <1>1 DEF PipeInv, PlanRecords
  <2> QED BY <1>3, <2>1 DEF PipeInv, PlanRecords
<1>5. ASSUME NEW s \in 0 .. MaxStage, Settled(s),
             s = stage \/ \E d \in Pending : s = desk[d].stage
      PROVE  Settled(s)'
  <2>1. s \in Rounds
    BY <1>5, RoundsAre DEF Settled
  <2>2. CASE s = r /\ mail = "nowMove"
    BY <1>3, <1>5, <2>2 DEF Settled, Finished
  <2>3. CASE s = r /\ mail # "nowMove"
    <3>1. plan'.mail[s] = mail
      BY <1>1, <1>4, <2>3 DEF PipeInv, PlanRecords
    <3> QED BY <1>5, <2>3, <3>1 DEF Settled, Finished, Rests, AutoMoves
  <2>4. CASE s # r
    <3>1. plan'.mail[s] = plan.mail[s]
      BY <1>1, <1>4, <2>1, <2>4 DEF PipeInv, PlanRecords
    <3>2. s \in overtaken => s \in overtaken'
      BY <1>3
    <3> QED BY <1>4, <1>5, <3>1, <3>2 DEF Settled, Finished, Rests, AutoMoves
  <2> QED BY <2>2, <2>3, <2>4
<1>6. Settled(stage) => Settled(stage)'
  <2>1. PICK s : s = stage
    OBVIOUS
  <2>2. s \in 0 .. MaxStage /\ (Settled(s) => Settled(s)')
    BY <1>5, <2>1 DEF PipeInv
  <2>3. stage' = s
    BY <1>3, <2>1
  <2>4. Settled(s)' => Settled(stage)'
    BY <2>3 DEF Settled, Finished, Rests, AutoMoves
  <2> QED BY <2>1, <2>2, <2>4
<1>7. ASSUME NEW d \in Sessions, desk[d] # Idle, NEW w, w = desk[d]
      PROVE  DeskGood(w)'
  <2>1. DeskGood(w) /\ d \in Pending
    BY <1>7 DEF PipeInv, Pending
  <2>2. w.stage # 0 => Settled(w.stage)'
    BY <1>5, <1>7, <2>1 DEF DeskGood
  <2> QED BY <1>3, <2>1, <2>2 DEF DeskGood
<1>8. CASE ~(desk[Worker] # Idle /\ desk[Worker].mailing = r)
  <2>1. desk' = desk
    BY <1>3, <1>8
  <2>2. \A v : (FileNew(v) <=> FileNew(v)') /\ (RestNew(v) <=> RestNew(v)')
    BY <1>3 DEF FileNew, RestNew, Held, Scheduled
  <2>3. alone' => /\ \A e, f \in Sessions : (desk'[e] # Idle /\ desk'[f] # Idle) => e = f
                  /\ \A e \in Sessions : desk'[e] # Idle => FileNew(desk[e])' /\ RestNew(desk[e])'
    BY <1>3, <2>1, <2>2 DEF PipeInv
  <2>4. OneEach' = OneEach
    BY <1>3 DEF OneEach
  <2>5. \A e \in Sessions : desk'[e] # Idle => DeskGood(desk[e])'
    BY <1>7, <2>1
  <2>6. /\ mover' = "rules" => Settled(stage)'
        /\ \A d \in Desks : mover' = d => desk'[d] # Idle /\ (desk'[d].stage = 0 => Settled(stage)')
    BY <1>3, <1>6, <2>1 DEF PipeInv
  <2> QED BY <1>3, <1>4, <2>1, <2>3, <2>4, <2>5, <2>6 DEF PipeInv
<1>9. CASE desk[Worker] # Idle /\ desk[Worker].mailing = r
  <2>1. /\ desk' = [e \in Sessions |-> desk'[e]] /\ desk'[Worker] = gone
        /\ \A e \in Sessions \ {Worker} : desk'[e] = desk[e]
        /\ Worker \in Sessions /\ Worker \notin Desks /\ Desks \subseteq Sessions
    BY <1>3, <1>9, RoundsAre DEF PipeInv
  <2>2. ~alone'
    BY <1>3, <1>9, <2>1 DEF Pending
  <2>3. DeskGood(gone)'
    <3>1. /\ gone.stage = 0 /\ gone.talks = {} /\ gone.board = 0 /\ gone.file = 0
          /\ gone.row = NoRow /\ gone.seen = 0 /\ gone.closes = TRUE
      BY <1>2, BlankShape
    <3>2. 0 \in 0 .. MaxStage
      BY RoundsAre
    <3> QED BY <3>1, <3>2, NoRowShape DEF DeskGood
  <2>4. \A e \in Sessions : desk'[e] # Idle => DeskGood(desk[e])'
    BY <1>7, <2>1, <2>3
  <2>5. /\ mover' = "rules" => Settled(stage)'
        /\ \A d \in Desks : mover' = d => desk'[d] # Idle /\ (desk'[d].stage = 0 => Settled(stage)')
    BY <1>3, <1>6, <2>1 DEF PipeInv
  <2> QED BY <1>3, <1>4, <2>1, <2>2, <2>4, <2>5 DEF PipeInv
<1> QED BY <1>8, <1>9

LEMMA PipelineStarts == PipelineInit => PipeInv
<1> SUFFICES ASSUME PipelineInit PROVE PipeInv
  OBVIOUS
<1>1. MaxStage \in Nat /\ 0 \in 0 .. MaxStage /\ plan \in PlanRecords /\ boarded = 0 /\ stage = 0
  BY PipelineAssumption DEF PipelineInit
<1>2. /\ attempts = <<>> /\ talks = <<>> /\ attempts \in Seq({}) /\ talks \in Seq(Rounds)
      /\ DOMAIN attempts = {} /\ DOMAIN talks = {}
  BY DEF PipelineInit
<1>3. desk = [d \in Sessions |-> desk[d]] /\ \A d \in Sessions : desk[d] = Idle
  BY DEF PipelineInit
<1>4. mover = "other" /\ mover # Worker /\ mover # "rules" /\ \A d \in Desks : mover # d
  BY PipelineAssumption DEF PipelineInit
<1>5. OneEach
  BY <1>1, <1>2 DEF OneEach
<1> QED BY <1>1, <1>2, <1>3, <1>4, <1>5 DEF PipeInv

LEMMA RequestStep ==
  ASSUME PipeInv, NEW d \in Desks, RequestNext(d)
  PROVE  PipeInv'
<1>1. CASE Apply(d)
  BY <1>1, ApplyKeeps
<1>2. CASE \E s \in 1 .. plan.rounds : UpdateStage(d, s)
  BY <1>2, UpdateStageKeeps
<1>3. CASE (\E i \in DOMAIN talks : CompleteInterview(d, i)) \/ InitiateOnboarding(d)
           \/ ApproveOnboarding(d)
  BY <1>3, MoveKeeps
<1>4. CASE \E r \in Rounds : Verify(d, r)
  BY <1>4, VerifyKeeps
<1>5. ASSUME NEW i \in DOMAIN attempts, NEW outcome, Submit(d, i, outcome),
             outcome \in {"pass", "fail", "video"}
      PROVE  PipeInv'
  <2>1. CASE outcome = "video"
    BY <1>5, <2>1, SubmitKeeps DEF Submit
  <2>2. CASE outcome = "fail"
    BY <1>5, <2>2, SubmitKeeps DEF Submit
  <2>3. CASE outcome = "pass"
    BY <1>5, <2>3, SubmitKeeps DEF Submit
  <2> QED BY <1>5, <2>1, <2>2, <2>3
<1>6. ASSUME NEW i \in DOMAIN attempts, NEW outcome, Review(d, i, outcome)
      PROVE  PipeInv'
  BY <1>6, SubmitKeeps DEF Review
<1>7. ASSUME NEW report, NEW outcome, RecordResult(d, report, outcome)
      PROVE  PipeInv'
  BY <1>7, RecordKeeps
<1> QED BY <1>1, <1>2, <1>3, <1>4, <1>5, <1>6, <1>7 DEF RequestNext

LEMMA PipelineStep == PipeInv /\ [PipelineNext]_pipelineVars => PipeInv'
<1> SUFFICES ASSUME PipeInv, [PipelineNext]_pipelineVars PROVE PipeInv'
  OBVIOUS
<1>1. CASE Arrive \/ AgentMove
  BY <1>1, ArriveKeeps
<1>2. CASE \E d \in Desks : RequestNext(d)
  BY <1>2, RequestStep
<1>3. CASE WorkerNext
  BY <1>3, PickKeeps, MailedKeeps, RefusedKeeps, MissingKeeps DEF WorkerNext, MailEnds
<1>4. CASE \E r \in Rounds : Redeliver(r)
  BY <1>4, RedeliverKeeps DEF Redeliver, job
<1>5. CASE \E d \in Sessions : MidCommit(d) \/ Commit(d) \/ Abandon(d)
  BY <1>5, MidCommitKeeps, CommitKeeps, AbandonKeeps
<1>6. CASE UNCHANGED pipelineVars
  BY <1>6, RedeliverKeeps DEF pipelineVars, job
<1>7. CASE \E arm \in plan.arms : ArmMail(arm[1], arm[2])
  <2>1. PICK arm \in plan.arms : ArmMail(arm[1], arm[2])
    BY <1>7
  <2>2. arm[1] \in Rounds /\ arm[2] \in Mails
    BY <2>1 DEF PipeInv, PlanRecords
  <2> QED BY <2>1, <2>2, ArmKeeps
<1> QED BY <1>1, <1>2, <1>3, <1>4, <1>5, <1>6, <1>7 DEF PipelineNext

(* However sessions overlap, and wherever they die: when the last to move    *)
(* the application was a path that triggers the rules (the commits of        *)
(* automation_service.py), it is not left in a round whose mail moves it on. *)
THEOREM MovesFinished == PipelineSpec => []MovesAreFinished
<1>1. PipeInv => MovesAreFinished
  BY DEF PipeInv, MovesAreFinished, Settled
<1> QED BY PipelineStarts, PipelineStep, <1>1, PTL DEF PipelineSpec

(* At most one row of what an invariant says has none but one.              *)
LEMMA AtMostOne ==
  ASSUME NEW S, \A i, j \in S : i = j
  PROVE  Cardinality(S) <= 1
<1>1. CASE S = {}
  BY <1>1, FS_EmptySet
<1>2. CASE S # {}
  <2>1. PICK x : x \in S
    BY <1>2
  <2>2. S = {x}
    BY <2>1
  <2>3. Cardinality({x}) = 1
    BY FS_Singleton
  <2> QED BY <2>2, <2>3
<1> QED BY <1>1, <1>2

(* One session at a time makes one attempt per test, one interview per rule  *)
(* and one onboarding, through links opened again, results delivered again   *)
(* and sessions that died after an interview was committed.                  *)
THEOREM OneAlone == PipelineSpec => []OneOfEach
<1>1. PipeInv => OneOfEach
  <2> SUFFICES ASSUME PipeInv, alone
               PROVE  /\ \A r \in Rounds : Cardinality(Held(r)) <= 1 /\ Cardinality(Scheduled(r)) <= 1
                      /\ boarded <= 1
    BY DEF OneOfEach
  <2>1. OneEach /\ \A r \in Rounds : r # 0
    BY RoundsAre DEF PipeInv
  <2>2. ASSUME NEW r \in Rounds
        PROVE  Cardinality(Held(r)) <= 1 /\ Cardinality(Scheduled(r)) <= 1
    <3>1. PICK H : H = Held(r)
      OBVIOUS
    <3>2. PICK T : T = Scheduled(r)
      OBVIOUS
    <3>3. (\A i, j \in H : i = j) /\ (\A i, j \in T : i = j)
      BY <2>1, <3>1, <3>2 DEF Held, Scheduled, OneEach
    <3> QED BY <3>1, <3>2, <3>3, AtMostOne
  <2> QED BY <2>1, <2>2 DEF OneEach
<1> QED BY PipelineStarts, PipelineStep, <1>1, PTL DEF PipelineSpec
===========================================================================
