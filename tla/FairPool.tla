------------------------------ MODULE FairPool ------------------------------
(***************************************************************************)
(* What a liquidity pool promises the holders of its shares, whatever      *)
(* formulas, tokens or accounts implement it.  The pool is two reserves    *)
(* and a number of shares.  Deposits and withdrawals choose any amounts    *)
(* that leave no share worth less in either token; a trade chooses any     *)
(* amounts that do not lower the product of the reserves.  The programs    *)
(* are shown to implement this module, and so inherit its theorems.        *)
(***************************************************************************)
EXTENDS Words

VARIABLES reserve,      \* tokens of each kind the pool accounts for
          lp_supply     \* shares it accounts for

vars == <<reserve, lp_supply>>

Tokens   == {"A", "B"}
Positive == 1..MaxU64

Product(r) == r["A"] * r["B"]

Init ==
  /\ reserve = [t \in Tokens |-> 0]
  /\ lp_supply = 0

(* A share is worth at least as much of each token after the step.         *)
KeepsEachShare ==
  \A t \in Tokens : reserve'[t] * lp_supply >= reserve[t] * lp_supply'

FirstDeposit ==
  /\ lp_supply = 0
  /\ reserve' \in [Tokens -> Positive]
  /\ lp_supply' \in Positive
  /\ lp_supply' * lp_supply' <= Product(reserve')

Deposit ==
  /\ lp_supply > 0
  /\ reserve' \in [Tokens -> Positive]
  /\ lp_supply' \in Positive
  /\ lp_supply' > lp_supply
  /\ \A t \in Tokens : reserve'[t] > reserve[t]
  /\ KeepsEachShare

Withdraw ==
  /\ reserve' \in [Tokens -> Positive]
  /\ lp_supply' \in Positive
  /\ lp_supply' < lp_supply
  /\ \A t \in Tokens : reserve'[t] <= reserve[t]
  /\ KeepsEachShare

WithdrawAll ==
  /\ lp_supply > 0
  /\ reserve' = [t \in Tokens |-> 0]
  /\ lp_supply' = 0

Trade ==
  /\ lp_supply > 0
  /\ reserve' \in [Tokens -> Positive]
  /\ \E t, s \in Tokens : reserve'[t] > reserve[t] /\ reserve'[s] < reserve[s]
  /\ Product(reserve') >= Product(reserve)
  /\ UNCHANGED lp_supply

Next == FirstDeposit \/ Deposit \/ Withdraw \/ WithdrawAll \/ Trade

Spec == Init /\ [][Next]_vars

-----------------------------------------------------------------------------
TypeOK ==
  /\ reserve \in [Tokens -> U64]
  /\ lp_supply \in U64

(* There are shares exactly when there is something behind them, in both   *)
(* tokens: no share without backing, no reserve that nobody can withdraw.  *)
EmptyTogether == \A t \in Tokens : reserve[t] = 0 <=> lp_supply = 0

(* There are never more shares than the geometric mean of the reserves.    *)
SharesBoundedByReserves == lp_supply * lp_supply <= Product(reserve)

(* While the pool is in use, the value of a share, measured as the square  *)
(* root of the product of the reserves per share, never falls.  (Squared   *)
(* and cross-multiplied, so that it is a statement about integers.)        *)
ShareValueStep ==
  lp_supply > 0 /\ lp_supply' > 0 =>
    Product(reserve') * (lp_supply * lp_supply)
      >= Product(reserve) * (lp_supply' * lp_supply')

NoDilution == [][ShareValueStep]_vars

IInv == TypeOK /\ EmptyTogether /\ SharesBoundedByReserves
=============================================================================
