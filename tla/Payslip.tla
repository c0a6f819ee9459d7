------------------------------- MODULE Payslip -------------------------------
(***************************************************************************)
(* The payslip of one employee, services/payroll/payroll_service.py:        *)
(* compute_payslip and compute_hourly_payslip, as a function of a claim     *)
(* (the salary structure, the days and the adjustments of the month).       *)
(***************************************************************************)
EXTENDS PayRules, FiniteSets

CONSTANTS
    Claims,     \* the claims a run may meet
    Undrawn     \* no payslip yet

\* The forms let amounts, percentages and a CTC of either sign through.
LineRec == [code : STRING, kind : {"fixed", "percent", "balance"}, amount : Int, of : STRING]

ASSUME ClaimsAssumption ==
    \A c \in Claims :
        /\ c.structure.components \in Seq(LineRec) /\ c.structure.ctc \in Int
        /\ c.structure.weekly \in BOOLEAN /\ c.structure.pfCodes \in Seq(STRING)
        /\ c.working \in Int /\ c.lop \in Int /\ c.cut \in BOOLEAN
        /\ c.profile \in [old : BOOLEAN, before : Nat, paid : Nat,
                          declared : [c80 : Nat, d80 : Nat, home : Nat, other : Nat]]

VARIABLES
    claim,      \* the input
    slip        \* the payslip

payslipVars == <<claim, slip>>

-----------------------------------------------------------------------------
(* Lines: [code, kind, amount, of].  For kind "percent" the amount is the    *)
(* percentage and "of" the code it is taken of, "" for the base.             *)

Ctc == "CTC"
Running == <<>>     \* for a base: the sum so far; any other base is <<amount>>

Resolved(line, refs, base) ==
    CASE line.kind = "fixed" -> line.amount
      [] line.kind = "percent" ->
            LET of == IF line.of = "" THEN base
                      ELSE IF line.of \in DOMAIN refs THEN refs[line.of] ELSE 0
            IN  HalfUp(line.amount * of, 100)

Naming(refs, code, amount) ==
    [c \in DOMAIN refs \cup {code} |-> IF c = code THEN amount ELSE refs[c]]

\* A line may refer to the lines above it; a balance line among the earnings waits for the others.
LineAdded(acc, line, base) ==
    LET amount == Resolved(line, acc.refs, IF base = Running THEN acc.sum ELSE base[1])
    IN  IF line.kind = "balance" THEN [acc EXCEPT !.aside = Append(@, line.code)]
        ELSE [refs |-> Naming(acc.refs, line.code, amount), sum |-> acc.sum + amount,
              lines |-> Append(acc.lines, [code |-> line.code, amount |-> amount]),
              aside |-> acc.aside]

Resolve(lines, refs, base) ==
    LET acc[i \in 0 .. Len(lines)] ==
          IF i = 0 THEN [refs |-> refs, sum |-> 0, lines |-> <<>>, aside |-> <<>>]
          ELSE LineAdded(acc[i - 1], lines[i], base)
    IN  acc[Len(lines)]

TotalOf(amounts) ==
    LET sum[i \in 0 .. Len(amounts)] == IF i = 0 THEN 0 ELSE sum[i - 1] + amounts[i]
    IN  sum[Len(amounts)]

SumOf(lines) == TotalOf([i \in DOMAIN lines |-> lines[i].amount])

PeriodCtc(s) == HalfUp(s.ctc, IF s.weekly THEN 52 ELSE 12)

\* The month's earnings in full: balance lines share what the others leave of the CTC.
RawEarnings(s) ==
    LET first == Resolve(s.components, [c \in {Ctc} |-> PeriodCtc(s)], Running)
        part == IF first.aside = <<>> THEN 0
                ELSE HalfUp(Positive(PeriodCtc(s) - first.sum), Len(first.aside))
    IN  first.lines \o [i \in DOMAIN first.aside |-> [code |-> first.aside[i], amount |-> part]]

\* Mutant: the share is cut, not rounded.
ProratedDown(amount, c) == (amount * (c.working - c.lop)) \div c.working

(* The share of the days paid.  The quotient is cut at 28 digits, so that an *)
(* exact half may fall to either side of it when the quotient does not end.   *)
Prorated(amount, c) ==
    LET paid == c.working - c.lop
        half == 2 * ((amount * paid) % c.working) = c.working
    IN  IF c.lop = 0 THEN amount
        ELSE HalfUp(amount * paid, c.working) - IF half /\ c.cut THEN (IF amount < 0 THEN -1 ELSE 1) ELSE 0

\* The last line of a code is the one that others refer to.
RefsOf(lines) ==
    [c \in {lines[i].code : i \in DOMAIN lines} |->
       lines[Max({i \in DOMAIN lines : lines[i].code = c})].amount]

WageCodes(s) == IF s.pfCodes = <<>> THEN <<"BASIC">> ELSE s.pfCodes

PfWage(s, earned, gross) ==
    LET refs == RefsOf(earned)
        codes == WageCodes(s)
        wage == TotalOf([i \in DOMAIN codes |-> IF codes[i] \in DOMAIN refs THEN refs[codes[i]] ELSE 0])
    IN  IF wage <= 0 THEN gross ELSE wage

\* PF, ESI, professional tax and TDS, each when the structure asks for it.
India(s, c, raw, earned) ==
    LET gross == SumOf(earned)
        pf == ProvidentFund(PfWage(s, earned, gross), s.capped)
        esi == Insurance(gross)
        pt == ProfessionalTax(c.state, gross)
        tds == MonthlyTds(12 * SumOf(raw), c.profile)   \* not pro-rated
        If(cond, lines) == IF cond THEN lines ELSE <<>>
    IN  [employee |-> If(s.pf, <<pf.employee>>) \o If(s.esi, esi.employee)
                      \o If(s.pt /\ pt > 0, <<pt>>) \o If(s.tds /\ tds > 0, <<tds>>),
         employer |-> If(s.pf, pf.employer) \o If(s.esi, esi.employer)]

\* There is nothing to balance among the deductions: such a line takes 0.
Deductions(s) ==
    [i \in DOMAIN s.deductions |->
       IF s.deductions[i].kind = "balance" THEN [s.deductions[i] EXCEPT !.kind = "fixed", !.amount = 0]
       ELSE s.deductions[i]]

ComputePayslip(c) ==
    LET s == c.structure
        raw == RawEarnings(s)
        earned == [i \in DOMAIN raw |-> [raw[i] EXCEPT !.amount = Prorated(@, c)]]
        gross == SumOf(earned)
        refs == RefsOf(earned)
        taken == Resolve(Deductions(s),
                         IF Ctc \in DOMAIN refs THEN refs ELSE Naming(refs, Ctc, PeriodCtc(s)), <<gross>>)
        statutory == IF c.country \in Abroad THEN Engine(c.country, gross)
                     ELSE India(s, c, raw, earned)
        Adjusted(kind) == TotalOf([i \in DOMAIN c.adjustments |->
                             IF c.adjustments[i].kind = kind THEN c.adjustments[i].amount ELSE 0])
        all == gross + Adjusted("earning")
        deducted == taken.sum + TotalOf(statutory.employee) + Adjusted("deduction")
    IN  [gross |-> all, deductions |-> deducted, net |-> all - deducted,
         earned |-> earned, taken |-> taken.lines, statutory |-> statutory]

\* Wages are hours by rate: one fixed line, with no loss of pay.
HourlyClaim(c) ==
    [c EXCEPT !.lop = 0, !.working = 1,
              !.structure = [@ EXCEPT !.ctc = 0, !.weekly = FALSE,
                 !.components = <<[code |-> "WAGES", kind |-> "fixed", of |-> "",
                                   amount |-> HalfUp(c.hours * c.structure.hourly, 100)]>>]]

Drawn(c) == IF c.structure.hourly > 0 THEN HourlyClaim(c) ELSE c

-----------------------------------------------------------------------------
PayslipInit == claim \in Claims /\ slip = Undrawn

Draw ==
    /\ slip = Undrawn
    /\ Drawn(claim).working > 0 /\ Drawn(claim).lop \in 0 .. Drawn(claim).working
    /\ slip' = ComputePayslip(Drawn(claim))
    /\ UNCHANGED claim

PayslipSpec == PayslipInit /\ [][Draw]_payslipVars

-----------------------------------------------------------------------------
Distance(a, b) == IF a > b THEN a - b ELSE b - a
Untouched == claim.structure.deductions = <<>> /\ claim.adjustments = <<>>

(* The earnings are the share of the days paid to within half a paisa per   *)
(* line, and a package with balance lines pays the period's CTC to within    *)
(* half a paisa for each: "exactly CTC" with one.                            *)
EarningsAddUp ==
    (slip # Undrawn /\ claim.structure.hourly = 0) =>
        LET s == claim.structure
            raw == RawEarnings(s)
            balances == Cardinality({i \in DOMAIN s.components : s.components[i].kind = "balance"})
            others == SumOf(SubSeq(raw, 1, Len(raw) - balances))
            paid == SumOf(slip.earned)
        IN  /\ 2 * Distance(claim.working * paid, (claim.working - claim.lop) * SumOf(raw))
                  <= claim.working * Len(raw)
            /\ (balances > 0 /\ claim.lop = 0 /\ others <= PeriodCtc(s)) =>
                  IF balances = 1 THEN paid = PeriodCtc(s)
                  ELSE 2 * Distance(paid, PeriodCtc(s)) <= balances

\* The pension's part of the employer's PF is at most the whole: 8.33% of a ceiling within 12%.
PensionFits ==
    /\ Rules.epsCeiling <= Rules.pfCeiling
    /\ Rules.eps[1] * Rules.pfEmployer[2] <= Rules.pfEmployer[1] * Rules.eps[2]

(* Lines are rounded one by one, and still the month adds up: the earnings   *)
(* make up the share of the days and the CTC; and of a month's earnings that *)
(* are not below zero, neither part of the employer's PF is negative, and    *)
(* abroad the statutory lines alone never eat more than the gross.           *)
PayslipAddsUp ==
    /\ EarningsAddUp
    /\ (slip # Undrawn /\ claim.structure.hourly = 0 /\ SumOf(slip.earned) >= 0) =>
            /\ (claim.country \in Abroad \/ PensionFits) =>
                  \A i \in DOMAIN slip.statutory.employer : slip.statutory.employer[i] >= 0
            /\ (claim.country \in Abroad /\ Untouched) => slip.net \in 0 .. slip.gross

\* The tax of an amount, band by band.
InBand(taxable, bands, i) ==
    LET upper == IF bands[i].upto = Top THEN taxable ELSE Lesser(taxable, bands[i].upto)
    IN  Positive(upper - LowerEnd(bands, i)) * bands[i].rate

BandTax(taxable, bands) == TotalOf([i \in DOMAIN bands |-> InBand(taxable, bands, i)])

(* Both ways the code walks the bands agree with the tax band by band; a      *)
(* raise never lowers the year's tax and a declaration never raises it; and   *)
(* twelve months of TDS with what a former employer withheld settle the year  *)
(* to within half a paisa a month.                                            *)
TaxIsSettled ==
    slip # Undrawn =>
        LET year == 12 * SumOf(RawEarnings(claim.structure))
            p == claim.profile
            due == AnnualTax(year, p)
        IN  /\ \A bands \in {Rules.newSlabs, Rules.oldSlabs} : \A t \in {year, Taxable(year, p)} :
                  /\ SlabTax(t, bands) = BandTax(t, bands)
                  /\ ProgressiveTax(t, bands) = BandTax(t, bands)
            /\ \A raise \in {1, 100, 5000} : due <= AnnualTax(year + raise, p)
            /\ AnnualTax(year, [p EXCEPT !.declared.other = @ + 100]) <= due
            /\ due >= 10000 * p.paid =>
                  Distance(12 * MonthlyTds(year, p) + p.paid, HalfUp(due, 10000)) <= 6
=============================================================================
