------------------------------ MODULE PayRules ------------------------------
(***************************************************************************)
(* The arithmetic of statutory pay: rounding, the Indian funds and          *)
(* professional tax (services/payroll/statutory.py), income tax            *)
(* (tax_engine.py) and the engines of Korea, Japan and the United States    *)
(* (statutory_intl.py).  Money is a number of paise, a rate a fraction      *)
(* <<numerator, denominator>>, a band's rate a percentage.                 *)
(***************************************************************************)
EXTENDS Integers, Sequences, SequencesExt

CONSTANT
    Rules       \* StatutoryConfig and the constants of the three files

Rupee == 100
Top == -1       \* the upper bound of the last band

\* Bands ascend, and the last one is open.
Ascending(bands) ==
    /\ bands \in Seq([upto : Nat \cup {Top}, rate : Nat]) /\ bands # <<>>
    /\ \A i \in DOMAIN bands : (bands[i].upto = Top) <=> (i = Len(bands))
    /\ \A i, j \in 1 .. Len(bands) - 1 : i <= j => bands[i].upto <= bands[j].upto

\* Of the settings, which the form keeps from being negative and whose rates it bounds.
Rates == Nat \X (Nat \ {0})

ASSUME RulesAssumption ==
    /\ {Rules.newStandard, Rules.oldStandard, Rules.newRebate, Rules.oldRebate,
        Rules.cap80c, Rules.cap80d, Rules.capHome,
        Rules.pfCeiling, Rules.epsCeiling, Rules.esiLimit} \subseteq Nat
    /\ {Rules.pfEmployee, Rules.pfEmployer, Rules.eps, Rules.esiEmployee, Rules.esiEmployer} \subseteq Rates
    /\ Ascending(Rules.newSlabs) /\ Ascending(Rules.oldSlabs)

\* Where a band begins.
LowerEnd(bands, i) == IF i = 1 THEN 0 ELSE bands[i - 1].upto

\* A rate of at most so many per cent, and an income tax of at most half of what
\* is above an allowance.
AtMost(rate, percent) == rate \in Rates /\ 100 * rate[1] <= percent * rate[2]

Gentle(brackets, allowance) ==
    /\ Ascending(brackets) /\ \A i \in DOMAIN brackets : brackets[i].rate <= 50
    /\ allowance \in Nat /\ allowance >= 100

\* The tables of the other countries, which are constants of the code, leave most of a wage.
ASSUME AbroadAssumption ==
    /\ LET r == Rules.kr
       IN  /\ r.cap \in Nat /\ Gentle(r.brackets, r.personal) /\ r.accident \in Rates
           /\ AtMost(r.pension, 10) /\ AtMost(r.health, 10) /\ AtMost(r.care, 20)
           /\ AtMost(r.employment, 5) /\ AtMost(r.local, 20)
    /\ LET r == Rules.jp
       IN  /\ r.cap \in Nat /\ Gentle(r.brackets, r.basic) /\ {r.employer, r.accident} \subseteq Rates
           /\ AtMost(r.health, 10) /\ AtMost(r.care, 2) /\ AtMost(r.pension, 10) /\ AtMost(r.employment, 5)
           /\ r.tiers \in Seq([upto : Nat \cup {Top}, rate : Nat, plus : Int])
           /\ r.tiers # <<>> /\ r.tiers[Len(r.tiers)].upto = Top
           /\ \A i \in DOMAIN r.tiers : LowerEnd(r.tiers, i) * r.tiers[i].rate + 100 * r.tiers[i].plus >= 0
    /\ LET r == Rules.us
       IN  /\ {r.base, r.futaBase} \subseteq Nat /\ r.threshold \in Int /\ r.futa \in Rates
           /\ Gentle(r.brackets, r.standard)
           /\ AtMost(r.security, 10) /\ AtMost(r.medicare, 5) /\ AtMost(r.additional, 5)

Lesser(a, b) == IF a <= b THEN a ELSE b
Positive(n) == IF n > 0 THEN n ELSE 0

\* n / d to the nearest whole; a half goes away from zero.
HalfUp(n, d) == n \div d + IF 2 * (n % d) > d \/ (2 * (n % d) = d /\ n >= 0) THEN 1 ELSE 0
NearestRupee(n, d) == Rupee * HalfUp(n, d * Rupee)
NextRupee(n, d) == Rupee * ((n + d * Rupee - 1) \div (d * Rupee))

Share(amount, rate) == HalfUp(amount * rate[1], rate[2])

-----------------------------------------------------------------------------
(* Bands: a sequence of [upto, rate], ascending.  A tax is in hundredths.    *)

\* Mutant: the lower bound does not advance with the bands.
InSlabFromZero(taxable, sum, s) ==
    IF sum.done THEN sum
    ELSE IF s.upto # Top /\ taxable > s.upto
    THEN [tax |-> sum.tax + (s.upto - sum.lower) * s.rate, lower |-> sum.lower, done |-> FALSE]
    ELSE [tax |-> sum.tax + Positive(taxable - sum.lower) * s.rate, lower |-> sum.lower, done |-> TRUE]

\* One slab further: its tax, and where the next begins.
InSlab(taxable, sum, s) ==
    IF sum.done THEN sum
    ELSE IF s.upto # Top /\ taxable > s.upto
    THEN [tax |-> sum.tax + (s.upto - sum.lower) * s.rate, lower |-> s.upto, done |-> FALSE]
    ELSE [tax |-> sum.tax + Positive(taxable - sum.lower) * s.rate, lower |-> sum.lower, done |-> TRUE]

SlabTax(taxable, slabs) ==
    LET sum[i \in 0 .. Len(slabs)] ==
          IF i = 0 THEN [tax |-> 0, lower |-> 0, done |-> FALSE]
          ELSE InSlab(taxable, sum[i - 1], slabs[i])
    IN  sum[Len(slabs)].tax

InBracket(taxable, sum, s) ==
    LET top == IF s.upto = Top \/ taxable < s.upto THEN taxable ELSE s.upto
    IN  IF taxable <= sum.lower THEN sum
        ELSE [tax |-> sum.tax + (top - sum.lower) * s.rate,
              lower |-> IF s.upto = Top THEN taxable ELSE s.upto]

ProgressiveTax(taxable, brackets) ==
    LET sum[i \in 0 .. Len(brackets)] ==
          IF i = 0 THEN [tax |-> 0, lower |-> 0] ELSE InBracket(taxable, sum[i - 1], brackets[i])
    IN  sum[Len(brackets)].tax

Declared(declarations) ==
    Lesser(declarations.c80, Rules.cap80c) + Lesser(declarations.d80, Rules.cap80d)
    + Lesser(declarations.home, Rules.capHome) + declarations.other

Taxable(gross, profile) ==
    Positive(gross + profile.before
             - IF profile.old THEN Rules.oldStandard + Declared(profile.declared) ELSE Rules.newStandard)

\* The year's tax with its 4% cess, in ten-thousandths.
AnnualTax(gross, profile) ==
    LET taxable == Taxable(gross, profile)
    IN  IF taxable <= (IF profile.old THEN Rules.oldRebate ELSE Rules.newRebate) THEN 0
        ELSE 104 * SlabTax(taxable, IF profile.old THEN Rules.oldSlabs ELSE Rules.newSlabs)

MonthlyTds(gross, profile) ==
    HalfUp(Positive(AnnualTax(gross, profile) - 10000 * profile.paid), 120000)

-----------------------------------------------------------------------------
(* India. *)

ProvidentFund(wage, capped) ==
    LET contributory == IF capped THEN Lesser(wage, Rules.pfCeiling) ELSE wage
        pension == NearestRupee(Lesser(wage, Rules.epsCeiling) * Rules.eps[1], Rules.eps[2])
        total == NearestRupee(contributory * Rules.pfEmployer[1], Rules.pfEmployer[2])
    IN  [employee |-> NearestRupee(contributory * Rules.pfEmployee[1], Rules.pfEmployee[2]),
         employer |-> <<total - pension, pension>>]

Insurance(gross) ==
    IF gross > Rules.esiLimit THEN [employee |-> <<>>, employer |-> <<>>]
    ELSE [employee |-> <<NextRupee(gross * Rules.esiEmployee[1], Rules.esiEmployee[2])>>,
          employer |-> <<NextRupee(gross * Rules.esiEmployer[1], Rules.esiEmployer[2])>>]

\* The first band that holds the gross; an unknown state has none.
ProfessionalTax(state, gross) ==
    IF state \notin DOMAIN Rules.ptSlabs THEN 0
    ELSE SelectSeq(Rules.ptSlabs[state], LAMBDA s : s.upto = Top \/ gross <= s.upto)[1].amount

-----------------------------------------------------------------------------
(* The other countries: the lines of the employee and of the employer.       *)

Korea(gross) ==
    LET r == Rules.kr
        pension == Share(Lesser(gross, r.cap), r.pension)
        health == Share(gross, r.health)
        care == Share(health, r.care)
        employment == Share(gross, r.employment)
        tax == HalfUp(ProgressiveTax(Positive(12 * gross - r.personal), r.brackets), 1200)
    IN  [employee |-> <<pension, health, care, employment, tax, Share(tax, r.local)>>,
         employer |-> <<pension, health, care, employment, Share(gross, r.accident)>>]

\* Japan's employment-income deduction, in hundredths: the first tier that holds.
IncomeDeduction(annual) ==
    LET tiers == Rules.jp.tiers
        tier == tiers[Min({i \in DOMAIN tiers : tiers[i].upto = Top \/ annual <= tiers[i].upto})]
    IN  annual * tier.rate + 100 * tier.plus

Japan(gross) ==
    LET r == Rules.jp
        health == Share(gross, r.health)
        care == Share(gross, r.care)      \* always: a payslip passes no age
        pension == Share(Lesser(gross, r.cap), r.pension)
        taxable == Positive(1200 * gross - IncomeDeduction(12 * gross) - 100 * r.basic)
        hundredths == [i \in DOMAIN r.brackets |->
                         [r.brackets[i] EXCEPT !.upto = IF @ = Top THEN Top ELSE 100 * @]]
    IN  [employee |-> <<health, care, pension, Share(gross, r.employment),
                        HalfUp(ProgressiveTax(taxable, hundredths), 120000)>>,
         employer |-> <<health, care, pension, Share(gross, r.employer), Share(gross, r.accident)>>]

\* Above the threshold the additional Medicare rate falls on the whole gross.
UnitedStates(gross) ==
    LET r == Rules.us
        security == HalfUp(Lesser(12 * gross, r.base) * r.security[1], 12 * r.security[2])
        medicare == Share(gross, r.medicare)
        more == IF 12 * gross > r.threshold
                THEN HalfUp(medicare * r.additional[2] + gross * r.additional[1], r.additional[2])
                ELSE medicare
        tax == HalfUp(ProgressiveTax(Positive(12 * gross - r.standard), r.brackets), 1200)
    IN  [employee |-> <<security, more, tax>>,
         employer |-> <<security, medicare,
                        HalfUp(Lesser(12 * gross, r.futaBase) * r.futa[1], 12 * r.futa[2])>>]

Abroad == {"KR", "JP", "US"}

Engine(country, gross) ==
    CASE country = "KR" -> Korea(gross)
      [] country = "JP" -> Japan(gross)
      [] country = "US" -> UnitedStates(gross)
=============================================================================
