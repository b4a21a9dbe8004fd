------------------------------ MODULE PoolInfo ------------------------------
(***************************************************************************)
(* The figures about a pool that are reported to people: those the native  *)
(* GetPoolInfo logs, and those that the example client prints from the     *)
(* account it fetched (the Anchor get_pool_info logs the latter).  All are *)
(* integers scaled by 1_000_000, here Scale, and computed in u64 without   *)
(* widening: the program's log with checked_mul, the client with           *)
(* saturating_mul.                                                         *)
(***************************************************************************)
EXTENDS DexPool

CONSTANT Scale

ASSUME ScaleAssumption == Scale \in U64 \ {0}

CheckedMul(m, n)    == ToU64(m * n)
SaturatingMul(m, n) == Smaller(m * n, MaxU64)

NotAvailable == -2                     \* "n/a": nothing to divide by
Overflow     == None                   \* "overflow"

Quotient(scaled, n) == IF scaled = None THEN None ELSE scaled \div n
UnwrapOr0(v)        == IF v = None THEN 0 ELSE v

-----------------------------------------------------------------------------
(* GetPoolInfo: "Price A->B", "A per LP" and "B per LP", "k (AxB)".        *)

PriceOfBInA ==                                                    \* mutant
  IF reserve["B"] = 0 THEN NotAvailable
  ELSE Quotient(CheckedMul(reserve["A"], Scale), reserve["B"])
LoggedPrice ==
  IF reserve["A"] = 0 THEN NotAvailable
  ELSE Quotient(CheckedMul(reserve["B"], Scale), reserve["A"])

ScaledTooLate(t) ==                                               \* mutant
  IF lp_supply = 0 THEN NotAvailable
  ELSE UnwrapOr0(CheckedMul(reserve[t] \div lp_supply, Scale))
LoggedPerLp(t) ==
  IF lp_supply = 0 THEN NotAvailable
  ELSE UnwrapOr0(Quotient(CheckedMul(reserve[t], Scale), lp_supply))

LoggedK == CheckedMul(reserve["A"], reserve["B"])

(* print_pool_info_local, and the Anchor get_pool_info.                    *)
PrintedPrice ==
  IF reserve["A"] = 0 THEN NotAvailable
  ELSE SaturatingMul(reserve["B"], Scale) \div reserve["A"]

PrintedRoundedUp(t) ==                                            \* mutant
  IF lp_supply = 0 THEN NotAvailable
  ELSE RoundedUp(SaturatingMul(reserve[t], Scale), lp_supply)
PrintedPerLp(t) ==
  IF lp_supply = 0 THEN NotAvailable
  ELSE SaturatingMul(reserve[t], Scale) \div lp_supply

-----------------------------------------------------------------------------
(* What the program's multiplication by Scale can hold.                    *)
Fits(t) == reserve[t] * Scale <= MaxU64

(* The figures per LP token are what a withdrawal pays, in each token and  *)
(* for every number n of LP tokens: never more than it pays, and less by   *)
(* less than one unit in the last place of the figure, as long as the      *)
(* multiplication fits.                                                    *)
PerLpBoundsRemoval ==
  lp_supply > 0 =>
    \A t \in Tokens, n \in 1..lp_supply :
      \A per_lp \in {LoggedPerLp(t), PrintedPerLp(t)} :
        /\ Removal(t, n) >= (n * per_lp) \div Scale
        /\ Fits(t) => Removal(t, n) * Scale < n * (per_lp + 1)

(* processor.rs: "units of A and B redeemable for 1 LP token", the whole   *)
(* units of the figure being what one LP token is burned for.  The code    *)
(* logs 0 when the multiplication overflows, whatever a token is worth.    *)
LogShowsRedeemable ==
  lp_supply > 0 =>
    \A t \in Tokens : LoggedPerLp(t) \div Scale = Removal(t, 1)

(* The price is the best a trade can hope for, in either direction: no     *)
(* amount paid in buys as much as one unit in its last place above it.  A  *)
(* price that saturated is only a bound for those who pay in token B.      *)
PriceBoundsSwaps ==
  reserve["A"] > 0 =>
    \A n \in Amounts \ {0}, price \in {LoggedPrice, PrintedPrice} \ {Overflow} :
      /\ Fits("B") => AmountOut(n, "A") * Scale < n * (price + 1)
      /\ AmountOut(n, "B") * price <= n * Scale

(* Someone who only reads the logs sees no share lose value: the product   *)
(* of the two figures per LP token never falls by more than their rounding *)
(* (unless one of them overflows, and is logged as 0), and the constant k  *)
(* never falls while no liquidity is added or removed.                     *)
ReportedValueStep ==
  /\ /\ lp_supply > 0 /\ lp_supply' > 0
     /\ \A t \in Tokens : Fits(t)'
     => (LoggedPerLp("A")' + 1) * (LoggedPerLp("B")' + 1)
          > LoggedPerLp("A") * LoggedPerLp("B")
  /\ lp_supply > 0 /\ lp_supply' = lp_supply /\ LoggedK' # Overflow
     => LoggedK' >= LoggedK

ReportedValueNeverFalls == [][ReportedValueStep]_vars
=============================================================================
