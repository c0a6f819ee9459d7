----------------------------- MODULE CreditLedger -----------------------------
(***************************************************************************)
(* The credit wallet of one company (app/services/enterprise/              *)
(* credit_service.py): the account row, the append-only transaction rows,  *)
(* and the requests that charge or top up the wallet.                      *)
(*                                                                         *)
(* Every write goes through _write: SELECT the account (or seed it), add   *)
(* the amount to the values read, store them with a ledger row, commit.    *)
(* The store is PostgreSQL at READ COMMITTED with no row lock taken by the *)
(* SELECT, so a request is two steps: it reads the account (Begin), and    *)
(* later stores the absolute values it computed from what it read          *)
(* (Commit).  The ORM's UPDATE names only the columns whose value changed, *)
(* so a grant leaves total_used, and a charge total_granted, as another    *)
(* request may have stored it meanwhile.  The INSERT of the seed and the   *)
(* UPDATE hold their lock until the commit, so flush and commit are one    *)
(* step.                                                                   *)
(*                                                                         *)
(* Amounts are whole hundredths of a credit, the scale of the columns.  An *)
(* AI charge has four decimals (ai_credits_for_tokens); what the columns   *)
(* make of it depends only on its half-up rounding and on whether it is    *)
(* exactly half way, so a charge is that pair.                             *)
(***************************************************************************)
EXTENDS Integers

CONSTANTS
  Workers,      \* server tasks that may bill this company at the same time
  Initial,      \* INITIAL_FREE_CREDITS
  MeterCharges, \* charges billed in a session of their own (AI, sourcing)
  FeatureCosts, \* charges billed in the feature's session (assessment, interview)
  Grants,       \* amounts of admin top-ups
  MaxRows,      \* bound: ledger rows written in a behaviour
  MaxWork       \* bound: metered calls and features started in a behaviour

\* A charge: its amount rounded half up to the column's scale, and whether the
\* unrounded amount lies exactly half way below that.
Charge == [cents : Nat, tie : BOOLEAN]

ASSUME AmountsAssumption ==
  /\ Initial \in Nat
  /\ FeatureCosts \subseteq Nat \ {0}     \* cost_for: 3.00 and 5.00
  /\ Grants \subseteq Nat \ {0}           \* Field(gt=0)
  /\ MeterCharges \subseteq Charge
  /\ \A c \in MeterCharges : c.tie => c.cents > 0

ASSUME BoundsAssumption == MaxRows \in Nat /\ MaxWork \in Nat

VARIABLES
  account,   \* the row of credit_accounts (open = FALSE: no row yet)
  ledger,    \* what the rows of credit_transactions add up to
  work,      \* calls made and features delivered so far, and what they cost
  op,        \* op[w]: the kind of request worker w is billing, or "idle"
  charge,    \* charge[w]: the amount worker w bills or grants
  seen,      \* seen[w]: the account row worker w read
  outcome    \* outcome[w]: how the last request of worker w ended

vars == <<account, ledger, work, op, charge, seen, outcome>>

Kinds == {"meter", "feature", "grant"}
Account == [open : BOOLEAN, balance : Int, granted : Int, used : Int]
Ledger == [debits : Nat, credits : Nat, rows : Nat, ties : Nat]
Work == [asked : Nat, called : Nat, delivered : Nat, billed : Nat]

TypeOK ==
  /\ account \in Account
  /\ ledger \in Ledger
  /\ work \in Work
  /\ op \in [Workers -> Kinds \cup {"idle"}]
  /\ charge \in [Workers -> Charge]
  /\ seen \in [Workers -> Account]
  /\ outcome \in [Workers -> {"none", "ok", "unbilled", "failed"}]

NoAccount == [open |-> FALSE, balance |-> 0, granted |-> 0, used |-> 0]
NoCharge == [cents |-> 0, tie |-> FALSE]

Init ==
  /\ account = NoAccount
  /\ ledger = [debits |-> 0, credits |-> 0, rows |-> 0, ties |-> 0]
  /\ work = [asked |-> 0, called |-> 0, delivered |-> 0, billed |-> 0]
  /\ op = [w \in Workers |-> "idle"]
  /\ charge = [w \in Workers |-> NoCharge]
  /\ seen = [w \in Workers |-> NoAccount]
  /\ outcome = [w \in Workers |-> "none"]

-------------------------------------------------------------------------------
(* _get_or_create_account and _write on the values a request read          *)

\* Mutant: the seeded credits are not counted as granted.
SeededUncounted(a) ==
  IF a.open THEN a
  ELSE [open |-> TRUE, balance |-> Initial, granted |-> 0, used |-> 0]

\* The row a request works on: the one it read, or the seed it inserts.
Seeded(a) ==
  IF a.open THEN a
  ELSE [open |-> TRUE, balance |-> Initial, granted |-> Initial, used |-> 0]

\* Mutant: a half-way charge is rounded up twice.
DebitedTwiceRounded(balance, c) ==
  balance - c.cents - IF c.tie THEN 1 ELSE 0

\* balance - amount as the NUMERIC(14,2) column stores it: PostgreSQL rounds a
\* tie away from zero, so above zero a half-way charge costs one cent less.
Debited(balance, c) ==
  balance - c.cents + IF c.tie /\ balance >= c.cents THEN 1 ELSE 0

\* Mutant: the test of the amount's sign is inverted.
AccountAfterSignInverted(stored, a, kind, c) ==
  LET s == Seeded(a)
      kept == IF a.open THEN stored ELSE s
  IN  IF kind = "grant"
      THEN [kept EXCEPT !.balance = s.balance + c.cents, !.used = s.used + c.cents]
      ELSE [kept EXCEPT !.balance = Debited(s.balance, c),
                        !.granted = s.granted + c.cents]

\* The row once a request that read row a has written over the stored one: the
\* columns it changed hold what it computed from a, the others are kept.
AccountAfter(stored, a, kind, c) ==
  LET s == Seeded(a)
      kept == IF a.open THEN stored ELSE s
  IN  IF kind = "grant"
      THEN [kept EXCEPT !.balance = s.balance + c.cents,
                        !.granted = s.granted + c.cents]
      ELSE [kept EXCEPT !.balance = Debited(s.balance, c),
                        !.used = s.used + c.cents]

LedgerAfter(l, kind, c) ==
  [debits  |-> l.debits + (IF kind = "grant" THEN 0 ELSE c.cents),
   credits |-> l.credits + (IF kind = "grant" THEN c.cents ELSE 0),
   rows    |-> l.rows + 1,
   ties    |-> l.ties + (IF c.tie THEN 1 ELSE 0)]

-------------------------------------------------------------------------------
(* Requests                                                                *)

\* A request reaches the ledger and SELECTs the account row.
Begin(w, kind, c) ==
  /\ op[w] = "idle"
  /\ op' = [op EXCEPT ![w] = kind]
  /\ charge' = [charge EXCEPT ![w] = c]
  /\ seen' = [seen EXCEPT ![w] = account]
  /\ UNCHANGED <<account, ledger, outcome>>

\* An AI call or a sourcing search has already happened when it is metered.
BeginMeter(w) ==
  /\ work.asked < MaxWork
  /\ \E c \in MeterCharges :
       /\ Begin(w, "meter", c)
       /\ work' = [work EXCEPT !.asked = @ + 1, !.called = @ + c.cents]

\* An assessment or interview is completed in the caller's transaction, which
\* the ledger write joins.
BeginFeature(w) ==
  /\ work.asked < MaxWork
  /\ \E cost \in FeatureCosts :
       Begin(w, "feature", [cents |-> cost, tie |-> FALSE])
  /\ work' = [work EXCEPT !.asked = @ + 1]

BeginGrant(w) ==
  /\ \E g \in Grants : Begin(w, "grant", [cents |-> g, tie |-> FALSE])
  /\ UNCHANGED work

\* The request is over and its session closed.
End(w, how) ==
  /\ op' = [op EXCEPT ![w] = "idle"]
  /\ charge' = [charge EXCEPT ![w] = NoCharge]
  /\ seen' = [seen EXCEPT ![w] = NoAccount]
  /\ outcome' = [outcome EXCEPT ![w] = how]

\* Mutant: the seed is inserted without looking for an existing row.
SeedConflictAlwaysInsert(w) == account.open

\* INSERT of a second account row for the company: refused by the unique
\* company_id, whichever of the two transactions committed first.
SeedConflict(w) == ~seen[w].open /\ account.open

\* Flush and commit: the columns changed are overwritten with the values
\* computed from the row read, and one ledger row is added.  A feature is
\* delivered by the same commit.
Commit(w) ==
  /\ op[w] # "idle"
  /\ ~SeedConflict(w)
  /\ ledger.rows < MaxRows
  /\ account' = AccountAfter(account, seen[w], op[w], charge[w])
  /\ ledger' = LedgerAfter(ledger, op[w], charge[w])
  /\ work' = IF op[w] = "feature"
             THEN [work EXCEPT !.delivered = @ + charge[w].cents, !.billed = @ + 1]
             ELSE IF op[w] = "meter" THEN [work EXCEPT !.billed = @ + 1]
             ELSE work
  /\ End(w, "ok")

\* Mutant: the caller commits its feature although the ledger write failed.
FailSeedDeliversFeature(w) ==
  /\ op[w] # "idle"
  /\ SeedConflict(w)
  /\ End(w, "unbilled")
  /\ work' = IF op[w] = "feature"
             THEN [work EXCEPT !.delivered = @ + charge[w].cents] ELSE work
  /\ UNCHANGED <<account, ledger>>

\* The flush raises.  record_usage swallows it: a metered call stays unbilled.
\* In a caller's session the failed flush has rolled the transaction back, and
\* the caller's own commit then raises, so the feature fails with it.  A grant
\* answers with an error.
FailSeed(w) ==
  /\ op[w] # "idle"
  /\ SeedConflict(w)
  /\ End(w, IF op[w] = "meter" THEN "unbilled" ELSE "failed")
  /\ UNCHANGED <<account, ledger, work>>

\* The process or its connection dies before the commit: nothing is stored.
Abandon(w) ==
  /\ op[w] # "idle"
  /\ End(w, "none")
  /\ UNCHANGED <<account, ledger, work>>

Next ==
  \E w \in Workers :
    \/ BeginMeter(w) \/ BeginFeature(w) \/ BeginGrant(w)
    \/ Commit(w) \/ FailSeed(w) \/ Abandon(w)

Spec == Init /\ [][Next]_vars

-------------------------------------------------------------------------------
(* What survives concurrent writers                                        *)

(* However requests interleave, lose each other's updates or die, the      *)
(* wallet never holds less, and never counts more as used, than the        *)
(* committed usage rows account for: _write can undercharge, not overcharge. *)
NeverOvercharged ==
  account.open =>
    /\ account.used <= ledger.debits
    /\ account.balance >= Initial - ledger.debits

(* Nor does it ever hold, or count as granted, more than the seed plus the *)
(* committed grants: credits are not created by a race on the account row. *)
NeverOvergranted ==
  account.open =>
    /\ account.granted <= Initial + ledger.credits
    /\ account.balance <= Initial + ledger.credits

(* A feature is delivered only together with its usage row, and no work is *)
(* billed twice: the debits lie between what was delivered and that plus   *)
(* the metered calls made.                                                 *)
WorkBilledOnce ==
  /\ work.delivered <= ledger.debits
  /\ ledger.debits <= work.called + work.delivered
  /\ work.billed <= work.asked

-------------------------------------------------------------------------------
(* What holds when one request at a time touches the wallet                *)

(* Every row of the ledger is on the account, once: the totals are those of *)
(* the rows and the free credits.  The balance exceeds what the rows add up *)
(* to by the free credits, for which no row is written, and by at most one *)
(* cent for each charge that fell exactly half way between two cents.      *)
SerialAgreement ==
  account.open =>
    LET unlisted == account.balance - (ledger.credits - ledger.debits)
    IN  /\ account.used = ledger.debits
        /\ account.granted = Initial + ledger.credits
        /\ Initial <= unlisted /\ unlisted <= Initial + ledger.ties

(* models/enterprise/credits.py: "Balance is authoritative on the account  *)
(* row (fast reads) and equals the sum of transaction amounts (audited)".  *)
(* Not so: the seed of a new wallet has no transaction, so the first       *)
(* committed request already leaves the two Initial apart.                 *)
BalanceIsSumOfRows ==
  account.open => account.balance = ledger.credits - ledger.debits

Amounts == Grants \cup FeatureCosts \cup {c.cents : c \in MeterCharges}

(* With one request at a time the wallet is an atomic counter.             *)
Wallet == INSTANCE CreditWallet WITH
  balance <- Seeded(account).balance,
  granted <- Seeded(account).granted,
  used    <- Seeded(account).used,
  Amounts <- Amounts

WalletSpec == Wallet!Spec

(* credit_service.py: "a metering failure can't fail a user's              *)
(* sourcing/AI/assessment request".  Held only while no two requests touch *)
(* a new wallet first: the loser's failed INSERT undoes its caller's work. *)
BillingNeverFailsFeature ==
  [][\A w \in Workers : op[w] = "feature" => outcome'[w] # "failed"]_vars
===============================================================================
