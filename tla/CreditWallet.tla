----------------------------- MODULE CreditWallet -----------------------------
(***************************************************************************)
(* What credit_service promises of one wallet: it starts with the free     *)
(* credits, a grant adds to it, a charge takes from it, each in one step.  *)
(* A charge may take one cent less than it counts as used (the rounding of *)
(* four-decimal AI charges by the two-decimal balance column).             *)
(***************************************************************************)
EXTENDS Integers

CONSTANTS
  Initial,  \* free credits
  Amounts   \* amounts a request grants or charges

VARIABLES balance, granted, used

wallet == <<balance, granted, used>>

Init ==
  /\ balance = Initial
  /\ granted = Initial
  /\ used = 0

TopUp(g) ==
  /\ balance' = balance + g
  /\ granted' = granted + g
  /\ UNCHANGED used

Spend(c) ==
  /\ balance' \in {balance - c, balance - c + 1}
  /\ used' = used + c
  /\ UNCHANGED granted

Next ==
  \/ \E g \in Amounts : TopUp(g)
  \/ \E c \in Amounts : Spend(c)

Spec == Init /\ [][Next]_wallet
===============================================================================
