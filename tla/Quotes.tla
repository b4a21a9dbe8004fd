------------------------------- MODULE Quotes -------------------------------
(***************************************************************************)
(* The prices a user sees over several calls in a row: what the formulas   *)
(* of src/math.rs amount to when the answer of one call, and the reserves  *)
(* it leaves, are the arguments of the next.  Two users start from the     *)
(* same pool.  One swaps first + second at once; the other swaps first,    *)
(* then second, then swaps all he got back.  A third deposits first and    *)
(* second and withdraws the shares he is given.                            *)
(*                                                                         *)
(* A handler that computes no amount, or a zero one, stops the user.       *)
(***************************************************************************)
EXTENDS AmmMath

CONSTANTS Reserves, Shares, Amounts, Fees

ASSUME QuotesAssumption ==
  /\ Reserves \subseteq U64 /\ Shares \subseteq U64 /\ Amounts \subseteq U64
  /\ \A m, n \in Amounts : m + n <= MaxU64
  /\ Fees \subseteq {fee \in U64 \X U64 : fee[1] < fee[2]}

VARIABLES
  reserve_in, reserve_out, lp_supply,   \* the pool
  fee,                                  \* <<numerator, denominator>>
  first, second,                        \* what the user spends
  whole,                                \* what first + second at once pays
  got,                                  \* what the user has received so far
  returned,                             \* what swapping it back paid, or
                                        \*   <<in, out>> withdrawn
  pc

vars == <<reserve_in, reserve_out, lp_supply, fee, first, second, whole, got,
          returned, pc>>
pool == <<reserve_in, reserve_out, lp_supply>>

(* The pools there can be: invariants EmptyTogether and                    *)
(* SharesBoundedByReserves of module DexPool.                              *)
PoolInUse ==
  /\ 0 \notin {reserve_in, reserve_out, lp_supply}
  /\ lp_supply * lp_supply <= reserve_in * reserve_out
PoolEmpty == {reserve_in, reserve_out, lp_supply} = {0}

Init ==
  /\ reserve_in \in Reserves /\ reserve_out \in Reserves /\ lp_supply \in Shares
  /\ PoolInUse \/ PoolEmpty
  /\ fee \in Fees
  /\ first \in Amounts /\ second \in Amounts
  /\ whole = None /\ got = 0 /\ returned = <<0, 0>>
  /\ pc \in {"whole", "deposit"}

Quote(amount) == SwapOutput(amount, reserve_in, reserve_out, fee[1], fee[2])

SwapWhole ==
  /\ pc = "whole"
  /\ whole' = Quote(first + second)
  /\ pc' = "first"
  /\ UNCHANGED <<pool, fee, first, second, got, returned>>

SwapPart(amount, here, next) ==
  LET out == Quote(amount)
  IN  /\ pc = here /\ out \notin {None, 0}
      /\ reserve_in + amount <= MaxU64
      /\ reserve_in' = reserve_in + amount
      /\ reserve_out' = reserve_out - out
      /\ got' = got + out
      /\ pc' = next
      /\ UNCHANGED <<lp_supply, fee, first, second, whole, returned>>

SwapFirst  == SwapPart(first, "first", "second")
SwapSecond == SwapPart(second, "second", "back")

SwapBack ==
  LET out == SwapOutput(got, reserve_out, reserve_in, fee[1], fee[2])
  IN  /\ pc = "back" /\ out \notin {None, 0}
      /\ reserve_out + got <= MaxU64
      /\ reserve_in' = reserve_in - out
      /\ reserve_out' = reserve_out + got
      /\ returned' = <<out, 0>>
      /\ pc' = "swapped"
      /\ UNCHANGED <<lp_supply, fee, first, second, whole, got>>

Deposit ==
  LET lp == CalculateLpTokens(first, second, reserve_in, reserve_out, lp_supply)
  IN  /\ pc = "deposit" /\ lp \notin {None, 0}
      /\ {reserve_in + first, reserve_out + second, lp_supply + lp} \subseteq U64
      /\ reserve_in' = reserve_in + first
      /\ reserve_out' = reserve_out + second
      /\ lp_supply' = lp_supply + lp
      /\ got' = lp
      /\ pc' = "withdraw"
      /\ UNCHANGED <<fee, first, second, whole, returned>>

Withdraw ==
  LET paid == <<RemovalAmount(got, reserve_in, lp_supply),
                RemovalAmount(got, reserve_out, lp_supply)>>
  IN  /\ pc = "withdraw" /\ None \notin {paid[1], paid[2]}
      /\ reserve_in' = reserve_in - paid[1]
      /\ reserve_out' = reserve_out - paid[2]
      /\ lp_supply' = lp_supply - got
      /\ returned' = paid
      /\ pc' = "withdrawn"
      /\ UNCHANGED <<fee, first, second, whole, got>>

Next == SwapWhole \/ SwapFirst \/ SwapSecond \/ SwapBack \/ Deposit \/ Withdraw

Spec == Init /\ [][Next]_vars

-----------------------------------------------------------------------------
TypeOK ==
  /\ reserve_in \in Nat /\ reserve_out \in Nat /\ lp_supply \in Nat
  /\ fee \in Fees /\ first \in Amounts /\ second \in Amounts
  /\ whole \in U64 \cup {None} /\ got \in Nat /\ returned \in Nat \X Nat
  /\ pc \in {"whole", "first", "second", "back", "swapped",
             "deposit", "withdraw", "withdrawn"}

(* Swapping in two parts never pays more than swapping at once: the        *)
(* rounding of each part, and the fee added to the reserves between them,  *)
(* favour the pool.                                                        *)
SplitNeverPaysMore == pc = "back" /\ whole # None => got <= whole

(* Swapping there and back never returns more than was spent.              *)
SwapBackNeverProfits == pc = "swapped" => returned[1] <= first + second

(* However large the amount, a swap leaves something in the reserve.       *)
ReservesNeverDrained ==
  pc \in {"second", "back", "swapped"} => reserve_in > 0 /\ reserve_out > 0

(* Shares withdrawn at once pay no more of either token than was deposited *)
(* for them.                                                               *)
DepositNeverProfits ==
  pc = "withdrawn" => returned[1] <= first /\ returned[2] <= second

(* math.rs: "Use u128 to avoid overflow during intermediate calculations". *)
(* A swap that the reserves can take, and whose exact answer fits in u64,  *)
(* gets an answer.                                                         *)
ExactOutput(amount) ==
  LET fee_factor == FeeFactor(fee[1], fee[2])
  IN  SwapNumerator(amount, reserve_out, fee_factor)
        \div SwapDenominator(amount, reserve_in, fee_factor, fee[2])
IntermediatesFit ==
  pc = "first" /\ PoolInUse /\ reserve_in + first + second <= MaxU64
    /\ ExactOutput(first + second) <= MaxU64 => whole # None
=============================================================================
