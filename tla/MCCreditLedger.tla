---------------------------- MODULE MCCreditLedger ----------------------------
(* Instances of CreditLedger for TLC.                                      *)
EXTENDS CreditLedger, FiniteSets, TLC

Symmetry == Permutations(Workers)

\* Usage in the wallet of TLC's refinement check is bounded by what the
\* workers can bill.
MCMeterCharges == {[cents |-> 1, tie |-> TRUE], [cents |-> 2, tie |-> FALSE]}
===============================================================================
