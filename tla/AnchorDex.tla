----------------------------- MODULE AnchorDex -----------------------------
(***************************************************************************)
(* The Anchor program (anchor_dex/programs/anchor_dex/src) and the token   *)
(* program it drives through token_interface, for one pool.  Its handlers  *)
(* are those of the native program but for two things.  The pool, its      *)
(* vaults and the LP mint are created by InitializePool (account           *)
(* constraint init), so there is no flag, and no vault before the pool.    *)
(* And a mint may be a Token-2022 mint with a transfer fee: the receiving  *)
(* account then gets less than was sent, the rest being withheld in it for *)
(* the owner of the mint.                                                  *)
(*                                                                         *)
(* As in DexPool, an instruction is one action, and callers pass the       *)
(* accounts it documents.                                                  *)
(***************************************************************************)
EXTENDS AmmMath, EarlyReturns, Sequences

CONSTANTS
  NumUsers,          \* how many users trade and provide liquidity
  Endowment,         \* what each of them owns of token A and of token B
  Fees,              \* <<numerator, denominator>> pairs passed to initialize_pool
  TransferFees,      \* [Tokens -> basis points] the two mints may charge
  Amounts,           \* amounts passed to instructions
  Minimums,          \* slippage limits passed to instructions
  DirectTransfers,   \* mints that users also transfer without the program
  DirectBurns        \* mints that users also burn without the program

Tokens == {"A", "B"}
Mints  == Tokens \cup {"LP"}

BasisPoints == 10000                   \* in all of a transfer

Vault    == 0                          \* the pool's account of each token mint
Users    == 1..NumUsers
Accounts == Users \cup {Vault}

ASSUME AnchorDexAssumption ==
  /\ NumUsers \in Nat \ {0}
  /\ Endowment \in U64 /\ NumUsers * Endowment <= MaxU64
  /\ Fees \subseteq U64 \X U64
  /\ TransferFees \subseteq [Tokens -> 0..BasisPoints]
  /\ Amounts \subseteq U64 /\ Minimums \subseteq U64
  /\ DirectTransfers \subseteq Mints /\ DirectBurns \subseteq Mints

VARIABLES
  created,                             \* the pool account exists
  reserve, lp_supply,                  \* struct Pool, without the addresses
  fee_numerator, fee_denominator,      \*   and the bump
  transfer_fee,                        \* token program: [token] |-> basis points
  balance,                             \* token program: [mint][account] |-> amount
  supply,                              \* token program: [mint] |-> tokens in existence
  withheld,                            \* [token] |-> fees withheld from transfers to
                                       \*   the vault, whether collected since or not
  burned_directly,                     \* shares that users burned themselves
  result                               \* what the last instruction returned

poolVars  == <<created, reserve, lp_supply, fee_numerator, fee_denominator>>
tokenVars == <<transfer_fee, balance, supply, withheld, burned_directly>>
vars      == <<created, reserve, lp_supply, fee_numerator, fee_denominator,
               transfer_fee, balance, supply, withheld, burned_directly, result>>

Init ==
  /\ created = FALSE
  /\ reserve = [t \in Tokens |-> 0]
  /\ lp_supply = 0 /\ fee_numerator = 0 /\ fee_denominator = 0
  /\ transfer_fee \in TransferFees
  /\ balance = [m \in Mints |-> [a \in Accounts |->
                  IF m \in Tokens /\ a \in Users THEN Endowment ELSE 0]]
  /\ supply = [m \in Mints |-> IF m \in Tokens THEN NumUsers * Endowment ELSE 0]
  /\ withheld = [t \in Tokens |-> 0]
  /\ burned_directly = 0
  /\ result = "none"

-----------------------------------------------------------------------------
(* The token program.  A transfer fee is rounded up (its upper limit, part *)
(* of the mint, is left out); the LP mint, which the program creates, has  *)
(* none.  What a user's account withholds only leaves the user's balance.  *)

Fee(m, n) ==
  IF m \in Tokens
  THEN (n * transfer_fee[m] + BasisPoints - 1) \div BasisPoints
  ELSE 0
Arriving(m, n) == n - Fee(m, n)

CanTransfer(m, from, to, n) ==
  balance[m][from] >= n /\ balance[m][to] + Arriving(m, n) <= MaxU64
Transfer(bal, m, from, to, n) ==
  [bal EXCEPT ![m][from] = @ - n, ![m][to] = @ + Arriving(m, n)]

CanMint(m, to, n)   == supply[m] + n <= MaxU64 /\ balance[m][to] + n <= MaxU64
CanBurn(m, from, n) == balance[m][from] >= n /\ supply[m] >= n

-----------------------------------------------------------------------------
DexErrors    == {"InvalidFee", "ZeroAmount", "InsufficientLiquidity",
                 "SlippageExceeded", "Overflow"}
AnchorErrors == {"AccountAlreadyInUse", "AccountNotInitialized", "TokenError"}
Results      == DexErrors \cup AnchorErrors \cup {"Ok"}

Reject(checks) ==
  /\ ~Passes(checks)
  /\ result' = checks[FirstFailed(checks)]
  /\ UNCHANGED <<poolVars, tokenVars>>

Accept(checks) ==
  /\ Passes(checks)
  /\ result' = "Ok"

(* Account constraints are checked before the handler runs.                *)
Exists == Check(~created, "AccountNotInitialized")

-----------------------------------------------------------------------------
InitChecks(numerator, denominator) ==
  << Check(created, "AccountAlreadyInUse"),
     Check(denominator = 0 \/ numerator >= denominator, "InvalidFee") >>

InitializePool(numerator, denominator) ==
  LET checks == InitChecks(numerator, denominator)
  IN  \/ Reject(checks)
      \/ /\ Accept(checks)
         /\ created' = TRUE
         /\ reserve' = [t \in Tokens |-> 0]
         /\ lp_supply' = 0
         /\ fee_numerator' = numerator
         /\ fee_denominator' = denominator
         /\ UNCHANGED tokenVars

-----------------------------------------------------------------------------
LpTokens(amount_a, amount_b) ==
  CalculateLpTokens(amount_a, amount_b, reserve["A"], reserve["B"], lp_supply)

AddChecks(u, amount_a, amount_b, min_lp) ==
  LET lp == LpTokens(amount_a, amount_b)
  IN  << Exists,
         Check(amount_a = 0 \/ amount_b = 0,             "ZeroAmount"),
         Check(lp = None,                                "Overflow"),
         Check(lp = 0,                                   "ZeroAmount"),
         Check(lp < min_lp,                              "SlippageExceeded"),
         Check(~CanTransfer("A", u, Vault, amount_a),    "TokenError"),
         Check(~CanTransfer("B", u, Vault, amount_b),    "TokenError"),
         Check(~CanMint("LP", u, lp),                    "TokenError"),
         Check(\/ reserve["A"] + amount_a > MaxU64
               \/ reserve["B"] + amount_b > MaxU64
               \/ lp_supply + lp > MaxU64, "Overflow") >>

AddLiquidity(u, amount_a, amount_b, min_lp) ==
  LET checks == AddChecks(u, amount_a, amount_b, min_lp)
      lp     == LpTokens(amount_a, amount_b)
      paid_a == Transfer(balance, "A", u, Vault, amount_a)
      paid   == Transfer(paid_a, "B", u, Vault, amount_b)
  IN  \/ Reject(checks)
      \/ /\ Accept(checks)
         /\ balance' = [paid EXCEPT !["LP"][u] = @ + lp]
         /\ supply'  = [supply EXCEPT !["LP"] = @ + lp]
         /\ withheld' = [withheld EXCEPT !["A"] = @ + Fee("A", amount_a),
                                         !["B"] = @ + Fee("B", amount_b)]
         /\ reserve' = [reserve EXCEPT !["A"] = @ + amount_a, !["B"] = @ + amount_b]
         /\ lp_supply' = lp_supply + lp
         /\ UNCHANGED <<created, fee_numerator, fee_denominator, transfer_fee,
                        burned_directly>>

-----------------------------------------------------------------------------
Removal(t, lp) == RemovalAmount(lp, reserve[t], lp_supply)

RemoveChecks(u, lp, min_a, min_b) ==
  LET amount_a == Removal("A", lp)
      amount_b == Removal("B", lp)
  IN  << Exists,
         Check(lp = 0,                                   "ZeroAmount"),
         Check(None \in {amount_a, amount_b},            "InsufficientLiquidity"),
         Check(amount_a < min_a \/ amount_b < min_b,     "SlippageExceeded"),
         Check(~CanBurn("LP", u, lp),                    "TokenError"),
         Check(~CanTransfer("A", Vault, u, amount_a),    "TokenError"),
         Check(~CanTransfer("B", Vault, u, amount_b),    "TokenError"),
         Check(\/ amount_a > reserve["A"]
               \/ amount_b > reserve["B"]
               \/ lp > lp_supply, "Overflow") >>

LpSupplyKept(lp) == lp_supply                                     \* mutant
LpSupplyAfterRemove(lp) == lp_supply - lp

RemoveLiquidity(u, lp, min_a, min_b) ==
  LET checks   == RemoveChecks(u, lp, min_a, min_b)
      amount_a == Removal("A", lp)
      amount_b == Removal("B", lp)
      burned   == [balance EXCEPT !["LP"][u] = @ - lp]
      paid_a   == Transfer(burned, "A", Vault, u, amount_a)
  IN  \/ Reject(checks)
      \/ /\ Accept(checks)
         /\ balance' = Transfer(paid_a, "B", Vault, u, amount_b)
         /\ supply'  = [supply EXCEPT !["LP"] = @ - lp]
         /\ reserve' = [reserve EXCEPT !["A"] = @ - amount_a, !["B"] = @ - amount_b]
         /\ lp_supply' = LpSupplyAfterRemove(lp)
         /\ UNCHANGED <<created, fee_numerator, fee_denominator, transfer_fee,
                        withheld, burned_directly>>

-----------------------------------------------------------------------------
(* tin is the token paid in: "A" when the instruction says a_to_b.         *)
Other(t) == IF t = "A" THEN "B" ELSE "A"

AmountOut(amount_in, tin) ==
  SwapOutput(amount_in, reserve[tin], reserve[Other(tin)],
             fee_numerator, fee_denominator)

SwapChecks(u, amount_in, min_out, tin) ==
  LET out == AmountOut(amount_in, tin)
  IN  << Exists,
         Check(amount_in = 0,                                  "ZeroAmount"),
         Check(0 \in {reserve["A"], reserve["B"]},             "InsufficientLiquidity"),
         Check(out = None,                                     "Overflow"),
         Check(out = 0,                                        "ZeroAmount"),
         Check(out < min_out,                                  "SlippageExceeded"),
         Check(~CanTransfer(tin, u, Vault, amount_in),         "TokenError"),
         Check(~CanTransfer(Other(tin), Vault, u, out),        "TokenError"),
         Check(\/ reserve[tin] + amount_in > MaxU64
               \/ out > reserve[Other(tin)], "Overflow") >>

ReserveNotPaidOut(amount_in, out, tin) ==                         \* mutant
  [reserve EXCEPT ![tin] = @ + amount_in]
ReserveAlwaysAToB(amount_in, out, tin) ==                         \* mutant
  [reserve EXCEPT !["A"] = @ + amount_in, !["B"] = @ - out]
ReserveAfterSwap(amount_in, out, tin) ==
  [reserve EXCEPT ![tin] = @ + amount_in, ![Other(tin)] = @ - out]

Swap(u, amount_in, min_out, tin) ==
  LET checks == SwapChecks(u, amount_in, min_out, tin)
      tout   == Other(tin)
      out    == AmountOut(amount_in, tin)
      paid   == Transfer(balance, tin, u, Vault, amount_in)
  IN  \/ Reject(checks)
      \/ /\ Accept(checks)
         /\ balance' = Transfer(paid, tout, Vault, u, out)
         /\ withheld' = [withheld EXCEPT ![tin] = @ + Fee(tin, amount_in)]
         /\ reserve' = ReserveAfterSwap(amount_in, out, tin)
         /\ UNCHANGED <<created, lp_supply, fee_numerator, fee_denominator,
                        transfer_fee, supply, burned_directly>>

-----------------------------------------------------------------------------
GetPoolInfo ==
  \/ Reject(<<Exists>>)
  \/ Accept(<<Exists>>) /\ UNCHANGED <<poolVars, tokenVars>>

(* Users transfer tokens without this program taking part, to the vault    *)
(* too once it exists.                                                     *)
DirectTransfer(m, from, to, n) ==
  /\ from # to /\ n > 0
  /\ to = Vault => created /\ m \in Tokens
  /\ CanTransfer(m, from, to, n)
  /\ balance' = Transfer(balance, m, from, to, n)
  /\ withheld' = IF to = Vault THEN [withheld EXCEPT ![m] = @ + Fee(m, n)] ELSE withheld
  /\ UNCHANGED <<poolVars, transfer_fee, supply, burned_directly, result>>

(* Users burn tokens, their shares in the pool among them.                 *)
DirectBurn(m, from, n) ==
  /\ n > 0
  /\ CanBurn(m, from, n)
  /\ balance' = [balance EXCEPT ![m][from] = @ - n]
  /\ supply' = [supply EXCEPT ![m] = @ - n]
  /\ burned_directly' = IF m = "LP" THEN burned_directly + n ELSE burned_directly
  /\ UNCHANGED <<poolVars, transfer_fee, withheld, result>>

-----------------------------------------------------------------------------
Next ==
  \/ \E fee \in Fees : InitializePool(fee[1], fee[2])
  \/ \E u \in Users, a, b \in Amounts, min \in Minimums : AddLiquidity(u, a, b, min)
  \/ \E u \in Users, lp \in Amounts, min_a, min_b \in Minimums :
       RemoveLiquidity(u, lp, min_a, min_b)
  \/ \E u \in Users, n \in Amounts, min \in Minimums, t \in Tokens : Swap(u, n, min, t)
  \/ GetPoolInfo
  \/ \E m \in DirectTransfers, from \in Users, to \in Accounts, n \in Amounts :
       DirectTransfer(m, from, to, n)
  \/ \E m \in DirectBurns, from \in Users, n \in Amounts : DirectBurn(m, from, n)

Spec == Init /\ [][Next]_vars

-----------------------------------------------------------------------------
TypeOK ==
  /\ created \in BOOLEAN
  /\ reserve \in [Tokens -> U64]
  /\ lp_supply \in U64 /\ fee_numerator \in U64 /\ fee_denominator \in U64
  /\ transfer_fee \in TransferFees
  /\ balance \in [Mints -> [Accounts -> U64]]
  /\ supply \in [Mints -> U64]
  /\ withheld \in [Tokens -> U64]
  /\ burned_directly \in U64
  /\ result \in Results \cup {"none"}

(* state.rs: "Cached token A reserve (must equal vault balance)".  With a  *)
(* transfer fee it does not, but the books count no token that was not     *)
(* sent to the vault: whatever is missing there was withheld on its way    *)
(* in, so mints without a fee leave the vault covering the reserve.        *)
ShortfallIsWithheld ==
  \A t \in Tokens : reserve[t] <= balance[t][Vault] + withheld[t]

(* state.rs: "Total LP token supply outstanding".  The pool counts every   *)
(* share that exists, and beyond these only those that their holders       *)
(* burned without it.                                                      *)
MissingSharesAreBurned == lp_supply = supply["LP"] + burned_directly

(* Whoever holds shares can withdraw any part of them at any moment, for   *)
(* something in at least one of the tokens.  Only the transfer out of a    *)
(* vault that had fees withheld can refuse.                                *)
OutOfVault == [t \in Tokens |-> IF t = "A" THEN 6 ELSE 7]
RedeemableUnlessWithheld ==
  \A u \in Users : \A lp \in 1..balance["LP"][u] :
    /\ Removal("A", lp) > 0 \/ Removal("B", lp) > 0
    /\ Failed(RemoveChecks(u, lp, 0, 0))
         \subseteq {OutOfVault[t] : t \in {s \in Tokens : withheld[s] > 0}}

(* anchor_dex/README.md: min_amount_out keeps a trade from losing by       *)
(* slippage.  A user whose swap succeeds has at least the minimum more of  *)
(* the token bought than before.                                           *)
SwapPaysMinimum ==
  [][\A u \in Users, n \in Amounts, min \in Minimums, t \in Tokens :
       Swap(u, n, min, t) /\ result' = "Ok" =>
         balance'[Other(t)][u] >= balance[Other(t)][u] + min]_vars

(* The books of the Anchor program are those of a fair pool (FairPool),    *)
(* whatever the mints withhold.                                            *)
Abstract == INSTANCE FairPool

ImplementsFairPool == Abstract!Spec
=============================================================================
