-------------------------- MODULE CreditLedgerProofs --------------------------
(***************************************************************************)
(* Proofs about CreditLedger for every set of workers and every cost table. *)
(* The inductive invariant bounds not only the account row but every row a *)
(* request has read and not yet written back: a lost update stores values  *)
(* computed from an old row, and the old row was within the bounds of a    *)
(* ledger that has only grown since; the columns the request did not       *)
(* change keep what is stored, which is within them as well.  That work is billed at most once     *)
(* needs the charges still in flight counted besides (BInv), a sum over    *)
(* the workers; what one request at a time leaves behind follows from its  *)
(* read being current when it writes.                                      *)
(***************************************************************************)
EXTENDS CreditLedger, FiniteSetTheorems, DataLemmas, TLAPS

(* The totals of row a lie within what the ledger accounts for.            *)
Bounded(a) ==
  a.open =>
    /\ a.used <= ledger.debits
    /\ a.granted <= Initial + ledger.credits
    /\ Initial - ledger.debits <= a.balance
    /\ a.balance <= Initial + ledger.credits

ReadsBounded ==
  \A w \in Workers : Bounded(seen[w]) /\ (seen[w].open => account.open)
TiesHaveCents == \A w \in Workers : charge[w].tie => charge[w].cents > 0

IInv == TypeOK /\ Bounded(account) /\ ReadsBounded /\ TiesHaveCents

-------------------------------------------------------------------------------
(* Debited takes the rounded charge or one cent less, never more.          *)
LEMMA DebitedBounds ==
  ASSUME NEW b \in Int, NEW c \in Charge, c.tie => c.cents > 0
  PROVE  /\ Debited(b, c) \in Int
         /\ b - c.cents <= Debited(b, c)
         /\ Debited(b, c) <= b
         /\ Debited(b, c) <= b - c.cents + 1
         /\ ~c.tie => Debited(b, c) = b - c.cents
  BY DEF Debited, Charge

(* Seeding yields an open row of the account's type.                       *)
LEMMA SeededType ==
  ASSUME NEW a \in Account
  PROVE  Seeded(a) \in Account /\ Seeded(a).open
  BY AmountsAssumption DEF Seeded, Account

(* Every charge a request may carry is well formed.                        *)
LEMMA ChargesAreCharges ==
  /\ NoCharge \in Charge
  /\ ~NoCharge.tie
  /\ \A c \in MeterCharges : c \in Charge /\ (c.tie => c.cents > 0)
  /\ \A n \in FeatureCosts \cup Grants :
       /\ [cents |-> n, tie |-> FALSE] \in Charge
       /\ ~[cents |-> n, tie |-> FALSE].tie
  BY AmountsAssumption DEF Charge, NoCharge

-------------------------------------------------------------------------------
(* Initially no row exists.                                                *)
LEMMA InitIInv == Init => IInv
  BY DEF Init, IInv, TypeOK, Bounded, ReadsBounded, TiesHaveCents, NoAccount, NoCharge, Account,
         Ledger, Work, Charge, Kinds

(* The counters of delivered and billed work stay natural numbers.         *)
LEMMA WorkGrows ==
  ASSUME NEW x \in Work, NEW n \in Nat
  PROVE  /\ [x EXCEPT !.billed = @ + 1] \in Work
         /\ [x EXCEPT !.asked = @ + 1] \in Work
         /\ [x EXCEPT !.delivered = @ + n, !.billed = @ + 1] \in Work
         /\ [x EXCEPT !.asked = @ + 1, !.called = @ + n] \in Work
<1>1. x.asked + 1 \in Nat /\ x.billed + 1 \in Nat /\ x.delivered + n \in Nat
      /\ x.called + n \in Nat
  BY DEF Work
<1> QED BY <1>1, Zenon DEF Work

(* A request that begins reads a row that is within the bounds.            *)
LEMMA BeginIInv ==
  ASSUME IInv, NEW w \in Workers, NEW kind \in Kinds, NEW c \in Charge,
         c.tie => c.cents > 0, Begin(w, kind, c), work' \in Work
  PROVE  IInv'
<1>1. TypeOK'
  BY DEF IInv, TypeOK, Begin, Kinds
<1>2. Bounded(account)' /\ ReadsBounded'
  BY DEF IInv, TypeOK, Begin, Bounded, ReadsBounded
<1>3. TiesHaveCents'
  BY DEF IInv, TypeOK, Begin, TiesHaveCents
<1> QED BY <1>1, <1>2, <1>3 DEF IInv

(* A request that ends without a write leaves account and ledger alone.    *)
LEMMA EndIInv ==
  ASSUME IInv, NEW w \in Workers,
         NEW how \in {"none", "ok", "unbilled", "failed"}, End(w, how),
         UNCHANGED <<account, ledger, work>>
  PROVE  IInv'
<1>1. TypeOK'
  BY DEF IInv, TypeOK, End, NoAccount, NoCharge, Account, Charge, Kinds
<1>2. Bounded(account)' /\ ReadsBounded'
  BY DEF IInv, TypeOK, End, Bounded, ReadsBounded, NoAccount
<1>3. TiesHaveCents'
  BY DEF IInv, TypeOK, End, TiesHaveCents, NoCharge
<1> QED BY <1>1, <1>2, <1>3 DEF IInv

(* The ledger only grows, and grows by exactly the amount committed.       *)
LEMMA LedgerAfterGrows ==
  ASSUME NEW l \in Ledger, NEW kind \in Kinds, NEW c \in Charge
  PROVE  LET l2 == LedgerAfter(l, kind, c)
         IN  /\ l2 \in Ledger
             /\ l2.debits = l.debits + (IF kind = "grant" THEN 0 ELSE c.cents)
             /\ l2.credits = l.credits + (IF kind = "grant" THEN c.cents ELSE 0)
             /\ l2.rows = l.rows + 1
             /\ l2.ties = l.ties + (IF c.tie THEN 1 ELSE 0)
  BY DEF LedgerAfter, Ledger, Charge, Kinds

(* The row a request leaves the unchanged columns of.                      *)
Kept(stored, a) == IF a.open THEN stored ELSE Seeded(a)

(* The account columns a commit stores.                                    *)
LEMMA AccountAfterValues ==
  ASSUME NEW b \in Account, NEW a \in Account, a.open => b.open,
         NEW kind \in Kinds, NEW c \in Charge, c.tie => c.cents > 0
  PROVE  LET s == Seeded(a)
             k == Kept(b, a)
             n == AccountAfter(b, a, kind, c)
         IN  /\ n \in Account
             /\ n.open
             /\ n.granted = IF kind = "grant" THEN s.granted + c.cents ELSE k.granted
             /\ n.used = IF kind = "grant" THEN k.used ELSE s.used + c.cents
             /\ kind = "grant" => n.balance = s.balance + c.cents
             /\ kind # "grant" => n.balance = Debited(s.balance, c)
<1>1. Seeded(a) \in Account /\ Seeded(a).open
  BY SeededType
<1>2. Debited(Seeded(a).balance, c) \in Int
  BY <1>1, DebitedBounds DEF Account
<1> DEFINE s == Seeded(a)
           k == Kept(b, a)
<1>3. /\ s \in Account /\ Debited(s.balance, c) \in Int /\ c.cents \in Nat
      /\ k \in Account /\ k.open
  BY <1>1, <1>2 DEF s, k, Kept, Charge
<1>4. AccountAfter(b, a, kind, c) =
        IF kind = "grant"
        THEN [k EXCEPT !.balance = s.balance + c.cents, !.granted = s.granted + c.cents]
        ELSE [k EXCEPT !.balance = Debited(s.balance, c), !.used = s.used + c.cents]
  BY DEF AccountAfter, s, k, Kept
<1> DEFINE n == AccountAfter(b, a, kind, c)
<1> HIDE DEF s, k
<1>5. n = [open |-> TRUE,
           balance |-> IF kind = "grant" THEN s.balance + c.cents ELSE Debited(s.balance, c),
           granted |-> IF kind = "grant" THEN s.granted + c.cents ELSE k.granted,
           used |-> IF kind = "grant" THEN k.used ELSE s.used + c.cents]
  BY <1>3, <1>4 DEF Account
<1>6. /\ s.balance \in Int /\ s.granted \in Int /\ s.used \in Int
      /\ k.granted \in Int /\ k.used \in Int
  BY <1>3 DEF Account
<1> HIDE DEF n
<1>7. n \in Account
  BY <1>3, <1>5, <1>6 DEF Account
<1> QED BY <1>5, <1>7 DEF s, k, n

(* A commit over the very row that was read moves every column from there. *)
LEMMA CurrentAccountAfter ==
  ASSUME NEW a \in Account, NEW kind \in Kinds, NEW c \in Charge, c.tie => c.cents > 0
  PROVE  LET s == Seeded(a)
             n == AccountAfter(a, a, kind, c)
         IN  /\ n \in Account
             /\ n.open
             /\ n.granted = s.granted + (IF kind = "grant" THEN c.cents ELSE 0)
             /\ n.used = s.used + (IF kind = "grant" THEN 0 ELSE c.cents)
             /\ kind = "grant" => n.balance = s.balance + c.cents
             /\ kind # "grant" => n.balance = Debited(s.balance, c)
<1> DEFINE s == Seeded(a)
           n == AccountAfter(a, a, kind, c)
<1>1. Kept(a, a) = s /\ s \in Account /\ c.cents \in Nat
  BY SeededType DEF Kept, Seeded, Charge
<1>2. s.granted + 0 = s.granted /\ s.used + 0 = s.used
  BY <1>1 DEF Account
<1>3. /\ n \in Account
      /\ n.open
      /\ n.granted = IF kind = "grant" THEN s.granted + c.cents ELSE s.granted
      /\ n.used = IF kind = "grant" THEN s.used ELSE s.used + c.cents
      /\ kind = "grant" => n.balance = s.balance + c.cents
      /\ kind # "grant" => n.balance = Debited(s.balance, c)
  BY <1>1, AccountAfterValues
<1> HIDE DEF s, n
<1>4. /\ n.granted = s.granted + (IF kind = "grant" THEN c.cents ELSE 0)
      /\ n.used = s.used + (IF kind = "grant" THEN 0 ELSE c.cents)
  BY <1>2, <1>3
<1> QED BY <1>3, <1>4 DEF s, n

(* A commit stores values computed from the row the request read.          *)
LEMMA CommitIInv ==
  ASSUME IInv, NEW w \in Workers, Commit(w)
  PROVE  IInv'
<1> DEFINE a == seen[w]
           c == charge[w]
           k == op[w]
<1>0. /\ a \in Account /\ c \in Charge /\ k \in Kinds /\ ledger \in Ledger
      /\ Bounded(a) /\ account \in Account /\ Bounded(account)
      /\ a.open => account.open
      /\ c.tie => c.cents > 0
  BY DEF IInv, TypeOK, ReadsBounded, TiesHaveCents, Commit
<1>1. /\ account' = AccountAfter(account, a, k, c)
      /\ ledger' = LedgerAfter(ledger, k, c)
      /\ End(w, "ok")
  BY DEF Commit
<1> HIDE DEF a, c, k
<1>2. account' \in Account /\ account'.open /\ account'.balance \in Int
  BY <1>0, <1>1, AccountAfterValues DEF Account
<1>3. /\ ledger' \in Ledger
      /\ ledger'.debits = ledger.debits + (IF k = "grant" THEN 0 ELSE c.cents)
      /\ ledger'.credits = ledger.credits + (IF k = "grant" THEN c.cents ELSE 0)
  BY <1>0, <1>1, LedgerAfterGrows
<1>4. work' \in Work
  <2>1. work \in Work /\ charge[w] \in Charge
    BY DEF IInv, TypeOK
  <2>2. charge[w].cents \in Nat
    BY <2>1 DEF Charge
  <2>3. work' \in {work, [work EXCEPT !.billed = @ + 1],
                   [work EXCEPT !.delivered = @ + charge[w].cents, !.billed = @ + 1]}
    BY DEF Commit
  <2> QED BY <2>1, <2>2, <2>3, WorkGrows
<1>5. TypeOK'
  <2>1. /\ op' \in [Workers -> Kinds \cup {"idle"}]
        /\ outcome' \in [Workers -> {"none", "ok", "unbilled", "failed"}]
    BY <1>1 DEF End, IInv, TypeOK
  <2>2. charge' \in [Workers -> Charge] /\ seen' \in [Workers -> Account]
    BY <1>1 DEF End, IInv, TypeOK, NoCharge, NoAccount, Charge, Account
  <2> QED BY <1>2, <1>3, <1>4, <2>1, <2>2 DEF TypeOK
<1>6. Bounded(account)'
  <2> DEFINE s == Seeded(a)
             r == Kept(account, a)
  <2>1. /\ s.balance \in Int /\ s.granted \in Int /\ s.used \in Int
        /\ s.used <= ledger.debits
        /\ s.granted <= Initial + ledger.credits
        /\ Initial - ledger.debits <= s.balance
        /\ s.balance <= Initial + ledger.credits
    BY <1>0, AmountsAssumption DEF Bounded, Seeded, Account, Ledger
  <2>5. /\ r.granted \in Int /\ r.used \in Int
        /\ r.used <= ledger.debits
        /\ r.granted <= Initial + ledger.credits
    BY <1>0, <2>1 DEF Bounded, Kept, Account
  <2>2. /\ account'.granted = IF k = "grant" THEN s.granted + c.cents ELSE r.granted
        /\ account'.used = IF k = "grant" THEN r.used ELSE s.used + c.cents
        /\ k = "grant" => account'.balance = s.balance + c.cents
        /\ k # "grant" => account'.balance = Debited(s.balance, c)
    BY <1>0, <1>1, AccountAfterValues
  <2> HIDE DEF s, r
  <2>3. CASE k = "grant"
    BY <1>0, <1>2, <1>3, <2>1, <2>2, <2>3, <2>5, AmountsAssumption DEF Bounded, Ledger, Charge, Account
  <2>4. CASE k # "grant"
    <3>1. /\ s.balance - c.cents <= account'.balance
          /\ account'.balance <= s.balance
      BY <1>0, <2>1, <2>2, <2>4, DebitedBounds
    <3> QED BY <1>0, <1>2, <1>3, <2>1, <2>2, <2>4, <2>5, <3>1, AmountsAssumption
              DEF Bounded, Ledger, Charge, Account
  <2> QED BY <2>3, <2>4
<1>7. ReadsBounded'
  <2> SUFFICES ASSUME NEW v \in Workers
               PROVE  Bounded(seen[v])' /\ (seen'[v].open => account'.open)
    BY DEF ReadsBounded
  <2>1. seen'[v] = seen[v] \/ ~seen'[v].open
    BY <1>1 DEF End, IInv, TypeOK, NoAccount
  <2>2. seen[v] \in Account /\ Bounded(seen[v])
    BY DEF IInv, TypeOK, ReadsBounded
  <2> QED BY <1>0, <1>2, <1>3, <2>1, <2>2, AmountsAssumption DEF Bounded, Account, Ledger, Charge
<1>8. TiesHaveCents'
  BY <1>1 DEF IInv, TypeOK, End, TiesHaveCents, NoCharge
<1> QED BY <1>2, <1>5, <1>6, <1>7, <1>8 DEF IInv

(* Every step preserves the inductive invariant.                           *)
LEMMA NextIInv == IInv /\ [Next]_vars => IInv'
<1> SUFFICES ASSUME IInv, [Next]_vars PROVE IInv'
  OBVIOUS
<1>1. ASSUME NEW w \in Workers, BeginMeter(w) PROVE IInv'
  <2>1. PICK c \in MeterCharges :
          /\ Begin(w, "meter", c)
          /\ work' = [work EXCEPT !.asked = @ + 1, !.called = @ + c.cents]
    BY <1>1 DEF BeginMeter
  <2>2. c \in Charge /\ (c.tie => c.cents > 0)
    BY ChargesAreCharges
  <2>3. work' \in Work
    BY <2>1, <2>2, WorkGrows DEF IInv, TypeOK, Charge
  <2> QED BY <2>1, <2>2, <2>3, BeginIInv DEF Kinds
<1>2. ASSUME NEW w \in Workers, BeginFeature(w) PROVE IInv'
  <2>1. PICK n \in FeatureCosts : Begin(w, "feature", [cents |-> n, tie |-> FALSE])
    BY <1>2 DEF BeginFeature
  <2>2. work' \in Work
    BY <1>2 DEF BeginFeature, IInv, TypeOK, Work
  <2> QED BY <2>1, <2>2, BeginIInv, ChargesAreCharges DEF Kinds
<1>3. ASSUME NEW w \in Workers, BeginGrant(w) PROVE IInv'
  <2>1. PICK n \in Grants : Begin(w, "grant", [cents |-> n, tie |-> FALSE])
    BY <1>3 DEF BeginGrant
  <2>2. work' \in Work
    BY <1>3 DEF BeginGrant, IInv, TypeOK
  <2> QED BY <2>1, <2>2, BeginIInv, ChargesAreCharges DEF Kinds
<1>4. ASSUME NEW w \in Workers, FailSeed(w) PROVE IInv'
  BY <1>4, EndIInv DEF FailSeed
<1>5. ASSUME NEW w \in Workers, Abandon(w) PROVE IInv'
  BY <1>5, EndIInv DEF Abandon
<1>6. CASE UNCHANGED vars
  BY <1>6 DEF vars, IInv, TypeOK, Bounded, ReadsBounded, TiesHaveCents
<1> QED BY <1>1, <1>2, <1>3, <1>4, <1>5, <1>6, CommitIInv DEF Next

-------------------------------------------------------------------------------
(* Every reachable state of the wallet is well typed.                      *)
THEOREM TypeCorrect == Spec => []TypeOK
<1>1. IInv => TypeOK
  BY DEF IInv
<1> QED BY <1>1, InitIInv, NextIInv, PTL DEF Spec

(* No interleaving of any number of requests charges a company more than   *)
(* its committed usage rows account for.                                   *)
THEOREM NoOvercharge == Spec => []NeverOvercharged
<1>1. IInv => NeverOvercharged
  BY DEF IInv, Bounded, NeverOvercharged
<1> QED BY <1>1, InitIInv, NextIInv, PTL DEF Spec

(* No interleaving creates credits beyond the seed and the committed grants. *)
THEOREM NoOvergrant == Spec => []NeverOvergranted
<1>1. IInv => NeverOvergranted
  BY DEF IInv, Bounded, NeverOvergranted
<1> QED BY <1>1, InitIInv, NextIInv, PTL DEF Spec

-------------------------------------------------------------------------------
(* With a single worker the row a request read is still the current row    *)
(* when it writes.                                                         *)
ReadIsCurrent == \A w \in Workers : op[w] # "idle" => seen[w] = account

(* One worker: what a request read cannot become stale.                    *)
LEMMA SerialReads ==
  ASSUME NEW w0, Workers = {w0}
  PROVE  Spec => []ReadIsCurrent
<1>1. Init => ReadIsCurrent
  BY DEF Init, ReadIsCurrent
<1>2. IInv /\ ReadIsCurrent /\ [Next]_vars => ReadIsCurrent'
  <2> SUFFICES ASSUME IInv, ReadIsCurrent, [Next]_vars PROVE ReadIsCurrent'
    OBVIOUS
  <2>1. ASSUME NEW kind \in Kinds, NEW c, Begin(w0, kind, c) PROVE ReadIsCurrent'
    BY <2>1 DEF Begin, ReadIsCurrent, IInv, TypeOK
  <2>2. ASSUME NEW how, End(w0, how) PROVE ReadIsCurrent'
    BY <2>2 DEF End, ReadIsCurrent, IInv, TypeOK
  <2>3. CASE UNCHANGED vars
    BY <2>3 DEF vars, ReadIsCurrent
  <2> QED BY <2>1, <2>2, <2>3 DEF Next, BeginMeter, BeginFeature, BeginGrant,
             Commit, FailSeed, Abandon, Kinds
<1> QED BY <1>1, <1>2, InitIInv, NextIInv, PTL DEF Spec

(* A commit of a current read is one step of the atomic wallet.            *)
LEMMA CommitIsWalletStep ==
  ASSUME IInv, ReadIsCurrent, NEW w \in Workers, Commit(w),
         charge[w].cents \in Amounts
  PROVE  Wallet!Next
<1> DEFINE s == Seeded(account)
           c == charge[w]
<1>1. /\ account \in Account /\ c \in Charge /\ op[w] \in Kinds
      /\ c.tie => c.cents > 0
      /\ account' = AccountAfter(account, account, op[w], c)
  BY DEF IInv, TypeOK, TiesHaveCents, Commit, ReadIsCurrent
<1>2. s \in Account /\ c.cents \in Nat
  BY <1>1, SeededType DEF Charge
<1>3. /\ account'.open
      /\ account'.granted = s.granted + (IF op[w] = "grant" THEN c.cents ELSE 0)
      /\ account'.used = s.used + (IF op[w] = "grant" THEN 0 ELSE c.cents)
      /\ op[w] = "grant" => account'.balance = s.balance + c.cents
      /\ op[w] # "grant" => account'.balance = Debited(s.balance, c)
  BY <1>1, CurrentAccountAfter
<1>4. Seeded(account') = account'
  BY <1>3 DEF Seeded
<1>5. CASE op[w] = "grant"
  <2>1. Wallet!TopUp(c.cents)
    BY <1>2, <1>3, <1>4, <1>5 DEF Wallet!TopUp, Account
  <2> QED BY <2>1 DEF Wallet!Next
<1>6. CASE op[w] # "grant"
  <2>1. Debited(s.balance, c) \in {s.balance - c.cents, s.balance - c.cents + 1}
    <3>1. s.balance \in Int
      BY <1>2 DEF Account
    <3>2. /\ Debited(s.balance, c) \in Int
          /\ s.balance - c.cents <= Debited(s.balance, c)
          /\ Debited(s.balance, c) <= s.balance - c.cents + 1
      BY <1>1, <3>1, DebitedBounds
    <3> QED BY <1>2, <3>1, <3>2
  <2>2. Wallet!Spend(c.cents)
    BY <1>2, <1>3, <1>4, <1>6, <2>1 DEF Wallet!Spend, Account
  <2> QED BY <2>2 DEF Wallet!Next
<1> QED BY <1>5, <1>6

(* Every charge in flight is one of the amounts of the configuration.      *)
ChargesKnown == \A w \in Workers : op[w] # "idle" => charge[w].cents \in Amounts

(* Requests bill only amounts of the cost table, and grants what was asked. *)
LEMMA ChargesStayKnown == Spec => []ChargesKnown
<1>1. Init => ChargesKnown
  BY DEF Init, ChargesKnown
<1>2. IInv /\ ChargesKnown /\ [Next]_vars => ChargesKnown'
  <2> SUFFICES ASSUME IInv, ChargesKnown, [Next]_vars PROVE ChargesKnown'
    OBVIOUS
  <2>1. ASSUME NEW w \in Workers, NEW kind \in Kinds, NEW c, c.cents \in Amounts,
               Begin(w, kind, c)
        PROVE  ChargesKnown'
    BY <2>1 DEF Begin, ChargesKnown, IInv, TypeOK
  <2>2. ASSUME NEW w \in Workers, NEW how, End(w, how) PROVE ChargesKnown'
    BY <2>2 DEF End, ChargesKnown, IInv, TypeOK
  <2>3. CASE UNCHANGED vars
    BY <2>3 DEF vars, ChargesKnown
  <2>4. ASSUME NEW w \in Workers, BeginMeter(w) PROVE ChargesKnown'
    <3>1. PICK c \in MeterCharges : Begin(w, "meter", c)
      BY <2>4 DEF BeginMeter
    <3> QED BY <2>1, <3>1 DEF Amounts, Kinds
  <2>5. ASSUME NEW w \in Workers, BeginFeature(w) PROVE ChargesKnown'
    <3>1. PICK n \in FeatureCosts : Begin(w, "feature", [cents |-> n, tie |-> FALSE])
      BY <2>5 DEF BeginFeature
    <3> QED BY <2>1, <3>1 DEF Amounts, Kinds
  <2>6. ASSUME NEW w \in Workers, BeginGrant(w) PROVE ChargesKnown'
    <3>1. PICK n \in Grants : Begin(w, "grant", [cents |-> n, tie |-> FALSE])
      BY <2>6 DEF BeginGrant
    <3> QED BY <2>1, <3>1 DEF Amounts, Kinds
  <2> QED BY <2>2, <2>3, <2>4, <2>5, <2>6 DEF Next, Commit, FailSeed, Abandon
<1> QED BY <1>1, <1>2, InitIInv, NextIInv, PTL DEF Spec

(* With one worker the account row implements the atomic wallet: every     *)
(* committed request is one grant or one charge, and nothing else moves it. *)
THEOREM SerialWallet ==
  ASSUME NEW w0, Workers = {w0}
  PROVE  Spec => WalletSpec
<1>1. Init => Wallet!Init
  BY DEF Init, Wallet!Init, Seeded, NoAccount
<1>2. IInv /\ ReadIsCurrent /\ ChargesKnown /\ [Next]_vars
        => [Wallet!Next]_(Wallet!wallet)
  <2> SUFFICES ASSUME IInv, ReadIsCurrent, ChargesKnown, [Next]_vars,
                      account' # account
               PROVE  Wallet!Next
    BY DEF Wallet!wallet
  <2>1. PICK w \in Workers : Commit(w)
    BY DEF Next, BeginMeter, BeginFeature, BeginGrant, Begin, FailSeed, Abandon, vars
  <2> QED BY <2>1, CommitIsWalletStep DEF ChargesKnown, Commit
<1>3. Spec => []ReadIsCurrent
  BY SerialReads
<1> QED BY <1>1, <1>2, <1>3, InitIInv, NextIInv, ChargesStayKnown, PTL
       DEF Spec, WalletSpec, Wallet!Spec
-------------------------------------------------------------------------------
(* Work that has been asked for and is not billed yet.                     *)
Active == {w \in Workers : op[w] \in {"meter", "feature"}}

\* What a metered call in flight has cost and nobody has billed.
Unbilled == [w \in Workers |-> IF op[w] = "meter" THEN charge[w].cents ELSE 0]

(* Every cent billed was called for or delivered, and what is still in     *)
(* flight was called for besides: a commit moves its own share from the    *)
(* second part to the first, a request that fails drops it.                *)
BInv ==
  /\ IsFiniteSet(Active)
  /\ work.delivered <= ledger.debits
  /\ ledger.debits + SumOver(Unbilled, Active) <= work.called + work.delivered
  /\ work.billed + Cardinality(Active) <= work.asked

(* What is in flight is a natural number of cents and of requests.         *)
LEMMA FlightType ==
  ASSUME IInv, IsFiniteSet(Active)
  PROVE  /\ \A w \in Active : w \in Workers /\ Unbilled[w] \in Nat /\ Unbilled[w] \in Int
         /\ SumOver(Unbilled, Active) \in Nat
         /\ Cardinality(Active) \in Nat
<1>1. \A w \in Active : w \in Workers /\ Unbilled[w] \in Nat /\ Unbilled[w] \in Int
  BY DEF Active, Unbilled, IInv, TypeOK, Charge
<1>2. Cardinality(Active) \in Nat
  BY FS_CardinalityType
<1>3. SumOver(Unbilled, Active) \in Nat
  BY <1>1, SumType
<1> QED BY <1>1, <1>2, <1>3

(* A request that starts working adds its own cents to those in flight.    *)
LEMMA FlightJoined ==
  ASSUME IInv, IsFiniteSet(Active), NEW w \in Workers, NEW kind \in {"meter", "feature"},
         NEW c \in Charge, Begin(w, kind, c)
  PROVE  /\ IsFiniteSet(Active')
         /\ Cardinality(Active') = Cardinality(Active) + 1
         /\ SumOver(Unbilled', Active')
              = (IF kind = "meter" THEN c.cents ELSE 0) + SumOver(Unbilled, Active)
<1> DEFINE A == Active
           B == Active'
           f == Unbilled
           g == Unbilled'
<1>1. B = A \cup {w} /\ w \notin A
  BY DEF Active, Begin, IInv, TypeOK
<1>2. g[w] = IF kind = "meter" THEN c.cents ELSE 0
  BY DEF Unbilled, Begin, IInv, TypeOK
<1>3. \A v \in A : f[v] = g[v] /\ g[v] \in Int
  <2> TAKE v \in A
  <2>1. v # w /\ v \in Workers /\ f[v] \in Int
    BY <1>1, FlightType DEF Active
  <2>2. op'[v] = op[v] /\ charge'[v] = charge[v]
    BY <2>1 DEF Begin, IInv, TypeOK
  <2> QED BY <2>1, <2>2 DEF Unbilled
<1>4. c.cents \in Int
  BY DEF Charge
<1>5. IsFiniteSet(A)
  OBVIOUS
<1> HIDE DEF A, B, f, g
<1>6. IsFiniteSet(B) /\ Cardinality(B) = Cardinality(A) + 1
  BY <1>1, <1>5, FS_AddElement
<1>7. \A v \in A \cup {w} : g[v] \in Int
  BY <1>2, <1>3, <1>4
<1>8. SumOver(g, B) = g[w] + SumOver(g, A)
  BY <1>1, <1>5, <1>7, SumAdd
<1>9. SumOver(g, A) = SumOver(f, A)
  BY <1>3, <1>5, SumSame
<1> QED BY <1>2, <1>6, <1>8, <1>9 DEF A, B, f, g

(* A request that ends takes its own cents with it.                        *)
LEMMA FlightLeft ==
  ASSUME IInv, IsFiniteSet(Active), NEW w \in Workers, NEW how, End(w, how)
  PROVE  /\ IsFiniteSet(Active')
         /\ w \in Active => Cardinality(Active) = Cardinality(Active') + 1
         /\ w \notin Active => Cardinality(Active) = Cardinality(Active')
         /\ SumOver(Unbilled, Active)
              = (IF op[w] = "meter" THEN charge[w].cents ELSE 0) + SumOver(Unbilled', Active')
<1> DEFINE A == Active
           B == Active'
           f == Unbilled
           g == Unbilled'
<1>1. B = A \ {w}
  BY DEF Active, End, IInv, TypeOK
<1>2. f[w] = IF op[w] = "meter" THEN charge[w].cents ELSE 0
  BY DEF Unbilled
<1>3. \A v \in B : f[v] = g[v]
  <2> TAKE v \in B
  <2>1. v # w /\ v \in Workers
    BY <1>1 DEF Active
  <2>2. op'[v] = op[v] /\ charge'[v] = charge[v]
    BY <2>1 DEF End, IInv, TypeOK
  <2> QED BY <2>1, <2>2 DEF Unbilled
<1>4. IsFiniteSet(A) /\ \A v \in A : f[v] \in Int
  BY FlightType
<1>5. w \notin A => f[w] = 0
  BY <1>2 DEF Active
<1> HIDE DEF A, B, f, g
<1>6. IsFiniteSet(B) /\ Cardinality(A) \in Nat
  BY <1>1, <1>4, FS_Subset, FS_CardinalityType
<1>7. SumOver(f, B) = SumOver(g, B)
  BY <1>3, <1>6, SumSame
<1>8. CASE w \in A
  <2>1. Cardinality(B) = Cardinality(A) - 1
    BY <1>1, <1>4, <1>8, FS_RemoveElement
  <2>2. SumOver(f, A) = f[w] + SumOver(f, B)
    BY <1>1, <1>4, <1>8, SumRemove
  <2> QED BY <1>2, <1>6, <1>7, <1>8, <2>1, <2>2 DEF A, B, f, g
<1>9. CASE w \notin A
  <2>1. B = A
    BY <1>1, <1>9
  <2>2. SumOver(g, B) \in Int
    BY <1>3, <1>4, <1>6, <2>1, SumType
  <2>3. SumOver(f, A) = f[w] + SumOver(g, B)
    BY <1>5, <1>7, <1>9, <2>1, <2>2
  <2> QED BY <1>2, <1>6, <1>9, <2>1, <2>3 DEF A, B, f, g
<1> QED BY <1>8, <1>9

(* Every step keeps the books of work and billing.                         *)
LEMMA NextBInv == IInv /\ BInv /\ [Next]_vars => BInv'
<1> SUFFICES ASSUME IInv, BInv, [Next]_vars PROVE BInv'
  OBVIOUS
<1>0. /\ work \in Work /\ ledger \in Ledger /\ charge \in [Workers -> Charge]
      /\ SumOver(Unbilled, Active) \in Nat /\ Cardinality(Active) \in Nat
      /\ IsFiniteSet(Active)
  BY FlightType DEF BInv, IInv, TypeOK
<1>1. ASSUME NEW w \in Workers, BeginMeter(w) PROVE BInv'
  <2>1. PICK c \in MeterCharges :
          /\ Begin(w, "meter", c)
          /\ work' = [work EXCEPT !.asked = @ + 1, !.called = @ + c.cents]
    BY <1>1 DEF BeginMeter
  <2>2. c \in Charge /\ c.cents \in Nat
    BY ChargesAreCharges DEF Charge
  <2>3. /\ IsFiniteSet(Active')
        /\ Cardinality(Active') = Cardinality(Active) + 1
        /\ SumOver(Unbilled', Active') = c.cents + SumOver(Unbilled, Active)
    BY <1>0, <2>1, <2>2, FlightJoined
  <2>4. /\ work'.asked = work.asked + 1 /\ work'.called = work.called + c.cents
        /\ work'.delivered = work.delivered /\ work'.billed = work.billed
        /\ ledger' = ledger
    BY <1>0, <2>1 DEF Work, Begin
  <2> QED BY <1>0, <2>2, <2>3, <2>4 DEF BInv, Work, Ledger
<1>2. ASSUME NEW w \in Workers, BeginFeature(w) PROVE BInv'
  <2>1. PICK n \in FeatureCosts : Begin(w, "feature", [cents |-> n, tie |-> FALSE])
    BY <1>2 DEF BeginFeature
  <2>2. [cents |-> n, tie |-> FALSE] \in Charge
    BY ChargesAreCharges
  <2>3. /\ IsFiniteSet(Active')
        /\ Cardinality(Active') = Cardinality(Active) + 1
        /\ SumOver(Unbilled', Active') = 0 + SumOver(Unbilled, Active)
    BY <1>0, <2>1, <2>2, FlightJoined
  <2>4. /\ work'.asked = work.asked + 1 /\ work'.called = work.called
        /\ work'.delivered = work.delivered /\ work'.billed = work.billed
        /\ ledger' = ledger
    BY <1>0, <1>2, <2>1 DEF Work, Begin, BeginFeature
  <2> QED BY <1>0, <2>3, <2>4 DEF BInv, Work, Ledger
<1>3. ASSUME NEW w \in Workers, BeginGrant(w) PROVE BInv'
  <2>1. PICK n \in Grants : Begin(w, "grant", [cents |-> n, tie |-> FALSE])
    BY <1>3 DEF BeginGrant
  <2>2. Active' = Active
    BY <2>1 DEF Active, Begin, IInv, TypeOK
  <2>3. \A v \in Active : Unbilled[v] = Unbilled'[v]
    BY <2>1 DEF Active, Unbilled, Begin, IInv, TypeOK
  <2> DEFINE f == Unbilled
             g == Unbilled'
             A == Active
  <2>4. \A v \in A : f[v] = g[v]
    BY <2>3
  <2>5. IsFiniteSet(A)
    BY <1>0
  <2> HIDE DEF f, g, A
  <2>6. SumOver(f, A) = SumOver(g, A)
    BY <2>4, <2>5, SumSame
  <2>7. SumOver(Unbilled', Active') = SumOver(Unbilled, Active)
    BY <2>2, <2>6 DEF f, g, A
  <2>8. work' = work /\ ledger' = ledger
    BY <1>3, <2>1 DEF BeginGrant, Begin
  <2> QED BY <1>0, <2>2, <2>7, <2>8 DEF BInv
<1>4. ASSUME NEW w \in Workers, NEW how, End(w, how), UNCHANGED <<ledger, work>>
      PROVE  BInv'
  <2>1. /\ IsFiniteSet(Active')
        /\ w \in Active => Cardinality(Active) = Cardinality(Active') + 1
        /\ w \notin Active => Cardinality(Active) = Cardinality(Active')
        /\ SumOver(Unbilled, Active)
             = (IF op[w] = "meter" THEN charge[w].cents ELSE 0) + SumOver(Unbilled', Active')
    BY <1>0, <1>4, FlightLeft
  <2>2. Cardinality(Active') \in Nat /\ SumOver(Unbilled', Active') \in Nat
    <3>1. \A v \in Active' : Unbilled'[v] \in Nat /\ Unbilled'[v] \in Int
      BY <1>4 DEF Active, Unbilled, End, IInv, TypeOK, Charge, NoCharge
    <3> DEFINE g == Unbilled'
               B == Active'
    <3>2. IsFiniteSet(B) /\ \A v \in B : g[v] \in Nat /\ g[v] \in Int
      BY <2>1, <3>1
    <3> HIDE DEF g, B
    <3>3. Cardinality(B) \in Nat /\ SumOver(g, B) \in Nat
      BY <3>2, SumType, FS_CardinalityType
    <3> QED BY <3>3 DEF g, B
  <2>3. charge[w].cents \in Nat
    BY <1>0 DEF Charge
  <2> QED BY <1>0, <1>4, <2>1, <2>2, <2>3 DEF BInv, Work, Ledger
<1>5. ASSUME NEW w \in Workers, Commit(w) PROVE BInv'
  <2>0. op[w] \in Kinds /\ charge[w] \in Charge /\ charge[w].cents \in Nat /\ End(w, "ok")
    BY <1>5 DEF Commit, IInv, TypeOK, Charge
  <2>1. /\ IsFiniteSet(Active')
        /\ w \in Active => Cardinality(Active) = Cardinality(Active') + 1
        /\ w \notin Active => Cardinality(Active) = Cardinality(Active')
        /\ SumOver(Unbilled, Active)
             = (IF op[w] = "meter" THEN charge[w].cents ELSE 0) + SumOver(Unbilled', Active')
    BY <1>0, <2>0, FlightLeft
  <2>2. w \in Active <=> op[w] \in {"meter", "feature"}
    BY DEF Active
  <2>3. Cardinality(Active') \in Nat /\ SumOver(Unbilled', Active') \in Nat
    <3>1. \A v \in Active' : Unbilled'[v] \in Nat /\ Unbilled'[v] \in Int
      BY <2>0 DEF Active, Unbilled, End, IInv, TypeOK, Charge, NoCharge
    <3> DEFINE g == Unbilled'
               B == Active'
    <3>2. IsFiniteSet(B) /\ \A v \in B : g[v] \in Nat /\ g[v] \in Int
      BY <2>1, <3>1
    <3> HIDE DEF g, B
    <3>3. Cardinality(B) \in Nat /\ SumOver(g, B) \in Nat
      BY <3>2, SumType, FS_CardinalityType
    <3> QED BY <3>3 DEF g, B
  <2>4. ledger'.debits = ledger.debits + (IF op[w] = "grant" THEN 0 ELSE charge[w].cents)
    BY <1>5 DEF Commit, LedgerAfter
  <2>5. CASE op[w] = "meter"
    <3>1. work'.billed = work.billed + 1 /\ work'.called = work.called
          /\ work'.delivered = work.delivered /\ work'.asked = work.asked
      BY <1>0, <1>5, <2>5 DEF Commit, Work
    <3> QED BY <1>0, <2>0, <2>1, <2>2, <2>3, <2>4, <2>5, <3>1 DEF BInv, Work, Ledger
  <2>6. CASE op[w] = "feature"
    <3>1. work'.billed = work.billed + 1 /\ work'.called = work.called
          /\ work'.delivered = work.delivered + charge[w].cents /\ work'.asked = work.asked
      BY <1>0, <1>5, <2>6 DEF Commit, Work
    <3> QED BY <1>0, <2>0, <2>1, <2>2, <2>3, <2>4, <2>6, <3>1 DEF BInv, Work, Ledger
  <2>7. CASE op[w] = "grant"
    <3>1. work' = work
      BY <1>5, <2>7 DEF Commit
    <3> QED BY <1>0, <2>0, <2>1, <2>2, <2>3, <2>4, <2>7, <3>1 DEF BInv, Work, Ledger
  <2> QED BY <2>0, <2>5, <2>6, <2>7 DEF Kinds
<1>6. CASE UNCHANGED vars
  BY <1>6 DEF vars, BInv, Active, Unbilled
<1> QED BY <1>1, <1>2, <1>3, <1>4, <1>5, <1>6 DEF Next, FailSeed, Abandon

(* However many requests are in flight, a delivered feature is on the      *)
(* ledger, and no usage row stands for work that was not done or was       *)
(* billed before.                                                          *)
THEOREM BilledOnce == Spec => []WorkBilledOnce
<1>1. Init => BInv
  <2> SUFFICES ASSUME Init PROVE BInv
    OBVIOUS
  <2>1. Active = {}
    BY DEF Init, Active
  <2>2. SumOver(Unbilled, Active) = 0 /\ IsFiniteSet(Active) /\ Cardinality(Active) = 0
    BY <2>1, SumEmpty, FS_EmptySet
  <2> QED BY <2>2 DEF Init, BInv
<1>2. IInv /\ BInv => WorkBilledOnce
  <2> SUFFICES ASSUME IInv, BInv PROVE WorkBilledOnce
    OBVIOUS
  <2>1. SumOver(Unbilled, Active) \in Nat /\ Cardinality(Active) \in Nat
    BY FlightType DEF BInv
  <2>2. work \in Work /\ ledger \in Ledger
    BY DEF IInv, TypeOK
  <2> QED BY <2>1, <2>2 DEF BInv, WorkBilledOnce, Work, Ledger
<1> QED BY <1>1, <1>2, InitIInv, NextIInv, NextBInv, PTL DEF Spec

-------------------------------------------------------------------------------
(* With one worker the account row and the ledger tell the same story.     *)
AInv ==
  /\ SerialAgreement
  /\ ~account.open => ledger.debits = 0 /\ ledger.credits = 0 /\ ledger.ties = 0

(* A commit of a current read books on the account what it books on the    *)
(* ledger, and leaves at most one cent more for a half-way charge.         *)
LEMMA CommitAgrees ==
  ASSUME IInv, ReadIsCurrent, AInv, NEW w \in Workers, Commit(w)
  PROVE  AInv'
<1> DEFINE s == Seeded(account)
           c == charge[w]
           k == op[w]
<1>1. /\ account \in Account /\ c \in Charge /\ k \in Kinds /\ ledger \in Ledger
      /\ c.tie => c.cents > 0
      /\ account' = AccountAfter(account, account, k, c)
      /\ ledger' = LedgerAfter(ledger, k, c)
  BY DEF IInv, TypeOK, TiesHaveCents, Commit, ReadIsCurrent
<1>2. s \in Account /\ c.cents \in Nat
  BY <1>1, SeededType DEF Charge
<1>3. /\ s.used = ledger.debits
      /\ s.granted = Initial + ledger.credits
      /\ Initial <= s.balance - (ledger.credits - ledger.debits)
      /\ s.balance - (ledger.credits - ledger.debits) <= Initial + ledger.ties
  BY <1>1, AmountsAssumption DEF AInv, SerialAgreement, Seeded, Account, Ledger
<1> HIDE DEF s, c, k
<1>4. /\ account' \in Account /\ account'.open
      /\ account'.granted = s.granted + (IF k = "grant" THEN c.cents ELSE 0)
      /\ account'.used = s.used + (IF k = "grant" THEN 0 ELSE c.cents)
      /\ k = "grant" => account'.balance = s.balance + c.cents
      /\ k # "grant" => account'.balance = Debited(s.balance, c)
  BY <1>1, CurrentAccountAfter DEF s
<1>5. account'.balance \in Int
  BY <1>4 DEF Account
<1>6. /\ ledger'.debits = ledger.debits + (IF k = "grant" THEN 0 ELSE c.cents)
      /\ ledger'.credits = ledger.credits + (IF k = "grant" THEN c.cents ELSE 0)
      /\ ledger'.ties = ledger.ties + (IF c.tie THEN 1 ELSE 0)
  BY <1>1, LedgerAfterGrows
<1>7. s.balance \in Int /\ s.granted \in Int /\ s.used \in Int
  BY <1>2 DEF Account
<1>8. ledger.debits \in Nat /\ ledger.credits \in Nat /\ ledger.ties \in Nat
  BY <1>1 DEF Ledger
<1>9. CASE k = "grant"
  BY <1>2, <1>3, <1>4, <1>6, <1>7, <1>8, <1>9, AmountsAssumption DEF AInv, SerialAgreement
<1>10. CASE k # "grant"
  <2>1. /\ Debited(s.balance, c) \in Int
        /\ s.balance - c.cents <= Debited(s.balance, c)
        /\ Debited(s.balance, c) <= s.balance - c.cents + 1
        /\ ~c.tie => Debited(s.balance, c) = s.balance - c.cents
    BY <1>1, <1>7, DebitedBounds
  <2> QED BY <1>2, <1>3, <1>4, <1>6, <1>7, <1>8, <1>10, <2>1, AmountsAssumption
          DEF AInv, SerialAgreement
<1> QED BY <1>9, <1>10

(* With one worker grants and usage agree between account and ledger, and  *)
(* the balance is off by at most a cent for every half-way charge.         *)
THEOREM SerialLedger ==
  ASSUME NEW w0, Workers = {w0}
  PROVE  Spec => []SerialAgreement
<1>1. Init => AInv
  BY DEF Init, AInv, SerialAgreement, NoAccount
<1>2. IInv /\ ReadIsCurrent /\ AInv /\ [Next]_vars => AInv'
  <2> SUFFICES ASSUME IInv, ReadIsCurrent, AInv, [Next]_vars PROVE AInv'
    OBVIOUS
  <2>1. ASSUME UNCHANGED <<account, ledger>> PROVE AInv'
    BY <2>1 DEF AInv, SerialAgreement
  <2> QED BY <2>1, CommitAgrees DEF Next, BeginMeter, BeginFeature, BeginGrant, Begin,
             FailSeed, Abandon, vars
<1>3. AInv => SerialAgreement
  BY DEF AInv
<1>4. Spec => []ReadIsCurrent
  BY SerialReads
<1> QED BY <1>1, <1>2, <1>3, <1>4, InitIInv, NextIInv, PTL DEF Spec

(* With one worker no feature fails for its billing: the seed it inserts   *)
(* is never the second one.                                                *)
THEOREM SerialBilling ==
  ASSUME NEW w0, Workers = {w0}
  PROVE  Spec => BillingNeverFailsFeature
<1> DEFINE Safe == \A w \in Workers : op[w] = "feature" => outcome'[w] # "failed"
<1>1. IInv /\ ReadIsCurrent /\ [Next]_vars => [Safe]_vars
  <2> SUFFICES ASSUME IInv, ReadIsCurrent, Next, NEW w \in Workers, op[w] = "feature"
               PROVE  outcome'[w] # "failed"
    BY DEF Safe
  <2>1. ~SeedConflict(w)
    BY DEF ReadIsCurrent, SeedConflict
  <2>2. w = w0 /\ \A v \in Workers : v = w
    OBVIOUS
  <2>3. Commit(w) \/ Abandon(w)
    BY <2>1, <2>2 DEF Next, BeginMeter, BeginFeature, BeginGrant, Begin, FailSeed
  <2> QED BY <2>3 DEF Commit, Abandon, End, IInv, TypeOK
<1>2. Spec => []ReadIsCurrent
  BY SerialReads
<1> QED BY <1>1, <1>2, InitIInv, NextIInv, PTL DEF Spec, BillingNeverFailsFeature
===============================================================================
