--------------------------- MODULE FairPoolProofs ---------------------------
(***************************************************************************)
(* What FairPool guarantees, for amounts of any width: its invariant, and  *)
(* that the value of a share never falls.                                  *)
(***************************************************************************)
EXTENDS FairPool, AmmMathProofs

-----------------------------------------------------------------------------
(* If no share loses in either token, then it does not lose in the product *)
(* of the two.                                                             *)
LEMMA KeptShares ==
  ASSUME NEW a \in Nat, NEW b \in Nat, NEW s \in Nat,
         NEW c \in Nat, NEW d \in Nat, NEW q \in Nat,
         c * s >= a * q, d * s >= b * q
  PROVE  (c * d) * (s * s) >= (a * b) * (q * q)
<1>1. (a * q) * (b * q) <= (c * s) * (d * s)
  BY ProductMono
<1>2. (a * q) * (b * q) = (a * b) * (q * q)
  BY Z3
<1>3. (c * s) * (d * s) = (c * d) * (s * s)
  BY Z3
<1>4. QED
  BY <1>1, <1>2, <1>3

(* A bound on the shares by the reserves survives a step that keeps the    *)
(* value of a share.                                                       *)
LEMMA KeptBound ==
  ASSUME NEW k \in Nat, NEW s \in Nat \ {0}, NEW j \in Nat, NEW q \in Nat,
         s * s <= k, j * (s * s) >= k * (q * q)
  PROVE  q * q <= j
<1>1. (s * s) * (q * q) <= k * (q * q)
  BY ProductMono
<1>2. (s * s) * (q * q) <= (s * s) * j
  BY <1>1, Z3
<1>3. s * s \in Nat \ {0} /\ q * q \in Nat
  BY Z3
<1>4. QED
  BY <1>2, <1>3, ProductCancel

-----------------------------------------------------------------------------
LEMMA InitIInv == Init => IInv
BY MaxU64Assumption
   DEF U64, Init, IInv, TypeOK, EmptyTogether, SharesBoundedByReserves, Product, Tokens

(* The value of a share in a step that keeps it for both tokens.           *)
LEMMA KeepsValue ==
  ASSUME TypeOK, TypeOK', KeepsEachShare
  PROVE  Product(reserve') * (lp_supply * lp_supply)
           >= Product(reserve) * (lp_supply' * lp_supply')
<1>1. /\ reserve["A"] \in Nat /\ reserve["B"] \in Nat /\ lp_supply \in Nat
      /\ reserve'["A"] \in Nat /\ reserve'["B"] \in Nat /\ lp_supply' \in Nat
  BY MaxU64Assumption DEF U64, TypeOK, Tokens
<1>2. /\ reserve'["A"] * lp_supply >= reserve["A"] * lp_supply'
      /\ reserve'["B"] * lp_supply >= reserve["B"] * lp_supply'
  BY DEF KeepsEachShare, Tokens
<1>3. QED
  BY <1>1, <1>2, KeptShares DEF Product

(* Every step of a fair pool keeps the value of a share.                   *)
LEMMA StepKeepsValue ==
  ASSUME TypeOK, TypeOK', Next
  PROVE  ShareValueStep
<1> SUFFICES ASSUME lp_supply > 0, lp_supply' > 0
             PROVE  Product(reserve') * (lp_supply * lp_supply)
                      >= Product(reserve) * (lp_supply' * lp_supply')
  BY DEF ShareValueStep
<1>1. CASE FirstDeposit
  BY <1>1, MaxU64Assumption DEF U64, FirstDeposit, TypeOK
<1>2. CASE Deposit
  BY <1>2, KeepsValue DEF Deposit
<1>3. CASE Withdraw
  BY <1>3, KeepsValue DEF Withdraw
<1>4. CASE WithdrawAll
  BY <1>4 DEF WithdrawAll
<1>5. CASE Trade
  <2>1. /\ Product(reserve) \in Nat /\ Product(reserve') \in Nat
        /\ lp_supply * lp_supply \in Nat
    BY MaxU64Assumption, Z3 DEF U64, TypeOK, Tokens, Product
  <2>2. Product(reserve) <= Product(reserve') /\ lp_supply' = lp_supply
    BY <1>5, <2>1 DEF Trade
  <2>3. QED
    BY <2>1, <2>2, ProductMono
<1>6. QED
  BY <1>1, <1>2, <1>3, <1>4, <1>5 DEF Next

LEMMA StepIInv ==
  ASSUME IInv, [Next]_vars
  PROVE  IInv'
<1>1. CASE UNCHANGED vars
  BY <1>1 DEF U64, IInv, TypeOK, EmptyTogether, SharesBoundedByReserves, Product, vars
<1>2. CASE Next
  <2>1. TypeOK'
    BY <1>2, MaxU64Assumption
       DEF U64, IInv, TypeOK, Next, FirstDeposit, Deposit, Withdraw, WithdrawAll, Trade,
           Tokens, Positive
  <2>2. EmptyTogether'
    BY <1>2, MaxU64Assumption
       DEF U64, IInv, TypeOK, EmptyTogether, Next, FirstDeposit, Deposit, Withdraw,
           WithdrawAll, Trade, Tokens, Positive
  <2>3. SharesBoundedByReserves'
    <3>1. CASE FirstDeposit
      BY <3>1 DEF FirstDeposit, SharesBoundedByReserves
    <3>2. CASE WithdrawAll
      BY <3>2 DEF WithdrawAll, SharesBoundedByReserves, Product, Tokens
    <3>3. CASE Deposit \/ Withdraw \/ Trade
      <4>1. lp_supply > 0 /\ lp_supply' > 0
        BY <3>3, MaxU64Assumption DEF U64, IInv, TypeOK, Deposit, Withdraw, Trade, Positive
      <4>2. Product(reserve') * (lp_supply * lp_supply)
              >= Product(reserve) * (lp_supply' * lp_supply')
        BY <1>2, <2>1, <4>1, StepKeepsValue DEF IInv, ShareValueStep
      <4>3. /\ Product(reserve) \in Nat /\ Product(reserve') \in Nat
            /\ lp_supply \in Nat \ {0} /\ lp_supply' \in Nat
        BY <2>1, <4>1, MaxU64Assumption, Z3 DEF U64, IInv, TypeOK, Tokens, Product
      <4>4. lp_supply * lp_supply <= Product(reserve)
        BY DEF IInv, SharesBoundedByReserves
      <4>5. QED
        BY <4>2, <4>3, <4>4, KeptBound DEF SharesBoundedByReserves, Product
    <3>4. QED
      BY <1>2, <3>1, <3>2, <3>3 DEF Next
  <2>4. QED
    BY <2>1, <2>2, <2>3 DEF IInv
<1>3. QED
  BY <1>1, <1>2

-----------------------------------------------------------------------------
(* A pool that only takes fair steps never has shares without reserves, or *)
(* more of them than the geometric mean of the reserves.                   *)
THEOREM FairPoolInvariant == Spec => []IInv
<1>1. QED
  BY InitIInv, StepIInv, PTL DEF Spec

(* The value of a share never falls.                                       *)
THEOREM FairPoolNoDilution == Spec => NoDilution
<1>1. IInv /\ IInv' /\ [Next]_vars => [ShareValueStep]_vars
  BY StepKeepsValue DEF IInv
<1>2. QED
  BY <1>1, FairPoolInvariant, PTL DEF Spec, NoDilution
=============================================================================
