------------------------------ MODULE AmmMath ------------------------------
(***************************************************************************)
(* The constant-product arithmetic of src/math.rs (the Anchor program has  *)
(* the same file).  Every function takes u64 arguments, computes in u128   *)
(* with checked operations and narrows the answer back to u64: it returns  *)
(* None when an intermediate value leaves u128 or the answer leaves u64.   *)
(***************************************************************************)
EXTENDS Words

RoundedUp(m, n) == (m + n - 1) \div n                             \* mutant
CheckedDiv(m, n) == m \div n                 \* its callers never divide by 0

(***************************************************************************)
(* What the Newton loop of integer_sqrt returns: module NewtonSqrt models  *)
(* the loop, and theorem NewtonComputesSqrt says that it stops with this.  *)
(***************************************************************************)
IsSqrt(r, n) == r * r <= n /\ n < (r + 1) * (r + 1)
SqrtRoundedUp(n) ==                                               \* mutant
  CHOOSE r \in 0..n : n <= r * r /\ (r = 0 \/ (r - 1) * (r - 1) < n)
IntegerSqrt(n) == CHOOSE r \in 0..n : IsSqrt(r, n)

-----------------------------------------------------------------------------
(* Swap: the products of two operands fit in u128, the other two may not.  *)

FeePaidToTrader(fee_numerator, fee_denominator) ==                \* mutant
  fee_denominator + fee_numerator
FeeFactor(fee_numerator, fee_denominator) == fee_denominator - fee_numerator

SwapNumerator(amount_in, reserve_out, fee_factor) ==
  reserve_out * amount_in * fee_factor

DenominatorWithoutInput(amount_in, reserve_in, fee_factor, fee_denominator) ==
  reserve_in * fee_denominator                                    \* mutant
SwapDenominator(amount_in, reserve_in, fee_factor, fee_denominator) ==
  reserve_in * fee_denominator + amount_in * fee_factor

SwapOutput(amount_in, reserve_in, reserve_out, fee_numerator, fee_denominator) ==
  LET fee_factor  == FeeFactor(fee_numerator, fee_denominator)
      numerator   == SwapNumerator(amount_in, reserve_out, fee_factor)
      denominator == SwapDenominator(amount_in, reserve_in, fee_factor,
                                     fee_denominator)
      rejected    == \/ 0 \in {reserve_in, reserve_out, amount_in, fee_denominator}
                     \/ fee_factor < 0
                     \/ numerator > MaxU128
                     \/ denominator > MaxU128
  IN  IF rejected THEN None ELSE ToU64(CheckedDiv(numerator, denominator))

-----------------------------------------------------------------------------
(* Liquidity: every product here has two u64 operands and fits in u128.    *)

Larger(m, n) == IF m <= n THEN n ELSE m                           \* mutant
Smaller(m, n) == IF m <= n THEN m ELSE n

ProportionalShare(amount, reserve, total_supply) ==
  CheckedDiv(amount * total_supply, reserve)

CalculateLpTokens(token_a_amount, token_b_amount, reserve_a, reserve_b, total_supply) ==
  IF total_supply = 0
  THEN ToU64(IntegerSqrt(token_a_amount * token_b_amount))
  ELSE IF 0 \in {reserve_a, reserve_b}
       THEN None
       ELSE ToU64(Smaller(
              ProportionalShare(token_a_amount, reserve_a, total_supply),
              ProportionalShare(token_b_amount, reserve_b, total_supply)))

(***************************************************************************)
(* calculate_removal_amounts, one component of the pair it returns: both   *)
(* components are None together exactly when one of them is (callers test  *)
(* the two).                                                               *)
(***************************************************************************)
RemovalAmount(lp_amount, reserve, total_supply) ==
  IF total_supply = 0
  THEN None
  ELSE ToU64(CheckedDiv(lp_amount * reserve, total_supply))
=============================================================================
