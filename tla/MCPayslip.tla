----------------------------- MODULE MCPayslip -----------------------------
(* An instance of Payslip for TLC: the amounts of the code, scaled down.     *)
EXTENDS Payslip

Bands(bounds, rates) ==
    [i \in DOMAIN rates |-> [rate |-> rates[i],
                             upto |-> IF i \in DOMAIN bounds THEN bounds[i] ELSE Top]]

\* Rupees to the thousand, won to the 100 000, yen to the 10 000, dollars as units.
MCRules ==
    [pfCeiling |-> 1500, epsCeiling |-> 1500, pfEmployee |-> <<12, 100>>,
     pfEmployer |-> <<12, 100>>, eps |-> <<833, 10000>>,
     esiLimit |-> 2100, esiEmployee |-> <<3, 400>>, esiEmployer |-> <<13, 400>>,
     ptSlabs |-> [KA |-> <<[upto |-> 2499, amount |-> 0], [upto |-> Top, amount |-> 200]>>],
     newSlabs |-> Bands(<<40000, 80000, 120000, 160000, 200000, 240000>>,
                        <<0, 5, 10, 15, 20, 25, 30>>),
     oldSlabs |-> Bands(<<25000, 50000, 100000>>, <<0, 5, 20, 30>>),
     newStandard |-> 7500, oldStandard |-> 5000, newRebate |-> 120000, oldRebate |-> 50000,
     cap80c |-> 15000, cap80d |-> 10000, capHome |-> 20000,
     kr |-> [cap |-> 6170, pension |-> <<45, 1000>>, health |-> <<709, 20000>>,
             care |-> <<259, 2000>>, employment |-> <<9, 1000>>, accident |-> <<7, 1000>>,
             local |-> <<10, 100>>, personal |-> 1500,
             brackets |-> Bands(<<14000, 50000, 88000, 150000, 300000, 500000, 1000000>>,
                                <<6, 15, 24, 35, 38, 40, 42, 45>>)],
     jp |-> [cap |-> 6500, health |-> <<499, 10000>>, care |-> <<80, 10000>>,
             pension |-> <<915, 10000>>, employment |-> <<6, 1000>>,
             employer |-> <<95, 10000>>, accident |-> <<3, 1000>>, basic |-> 4800,
             brackets |-> Bands(<<19500, 33000, 69500, 90000, 180000, 400000>>,
                                <<5, 10, 20, 23, 33, 40, 45>>),
             tiers |-> <<[upto |-> 16250, rate |-> 0, plus |-> 5500],
                         [upto |-> 18000, rate |-> 40, plus |-> -1000],
                         [upto |-> 36000, rate |-> 30, plus |-> 800],
                         [upto |-> 66000, rate |-> 20, plus |-> 4400],
                         [upto |-> 85000, rate |-> 10, plus |-> 11000],
                         [upto |-> Top, rate |-> 0, plus |-> 19500]>>],
     us |-> [base |-> 168600, security |-> <<62, 1000>>, medicare |-> <<145, 10000>>,
             threshold |-> 200000, additional |-> <<9, 1000>>, futaBase |-> 7000,
             futa |-> <<6, 1000>>, standard |-> 14600,
             brackets |-> Bands(<<11600, 47150, 100525, 191950, 243725, 609350>>,
                                <<10, 12, 22, 24, 32, 35, 37>>)]]

Line(code, kind, amount, of) == [code |-> code, kind |-> kind, amount |-> amount, of |-> of]

Bare == [components |-> <<>>, deductions |-> <<>>, weekly |-> FALSE, ctc |-> 0, hourly |-> 0,
         pf |-> TRUE, capped |-> TRUE, pfCodes |-> <<"BASIC">>, esi |-> TRUE, pt |-> TRUE,
         tds |-> TRUE]

\* A package driven by the CTC, one with two balance lines, a mixed one, hourly pay and one with a cut.
MCStructures ==
    LET basic == Line("BASIC", "percent", 50, Ctc)
        rest(code) == Line(code, "balance", 0, "")
    IN  UNION {{
          [Bare EXCEPT !.ctc = ctc,
             !.components = <<basic, Line("HRA", "percent", 37, "BASIC"), rest("SPECIAL")>>],
          [Bare EXCEPT !.ctc = ctc, !.weekly = TRUE, !.capped = FALSE,
             !.components = <<rest("A"), basic, rest("B")>>],
          [Bare EXCEPT !.ctc = ctc, !.pfCodes = <<"BASIC", "DA">>,
             !.components = <<Line("BASIC", "fixed", 1233, ""), Line("DA", "percent", 15, "")>>,
             !.deductions = <<Line("LOAN", "fixed", 100, ""), Line("FUND", "percent", 5, "BASIC"),
                              Line("REST", "balance", 7, ""), Line("CLUB", "percent", 1, "")>>]}
          : ctc \in {1207, 25206, 143999, 239987}}
        \cup {[Bare EXCEPT !.hourly = 333],
              [Bare EXCEPT !.pfCodes = <<>>,
                           !.components = <<Line("BASIC", "fixed", 1233, ""), Line("CUT", "fixed", -133, ""),
                                            Line("DA", "percent", 15, "CUT")>>]}

MCProfiles ==
    {[old |-> FALSE, before |-> 0, paid |-> 0,
      declared |-> [c80 |-> 0, d80 |-> 0, home |-> 0, other |-> 0]],
     [old |-> TRUE, before |-> 7000, paid |-> 300,
      declared |-> [c80 |-> 20000, d80 |-> 500, home |-> 900, other |-> 10]]}

MCClaims ==
    [structure : MCStructures, working : {44, 60}, lop : {0, 5, 6, 10, 44}, cut : BOOLEAN,
     country : {"India", "KR", "JP", "US"}, state : {"KA"}, profile : MCProfiles, hours : {1775},
     adjustments : {<<>>, <<[kind |-> "earning", amount |-> 500],
                            [kind |-> "deduction", amount |-> 90]>>}]
=============================================================================
