------------------------------ MODULE DexPool ------------------------------
(***************************************************************************)
(* The native DEX program (src/lib.rs, src/processor.rs, src/state.rs) and *)
(* the SPL Token program it drives, for one pool.                          *)
(*                                                                         *)
(* The runtime executes one instruction at a time on a pool account (every *)
(* instruction that changes it takes a write lock) and discards all writes *)
(* of an instruction that returns an error, token transfers included.  So  *)
(* an instruction is one action: either its first failing check gives the  *)
(* error it returns and nothing else changes, or all its effects happen.   *)
(* Instructions of different users interleave in any order, together with  *)
(* the calls users make to the token program directly.                     *)
(*                                                                         *)
(* Callers pass the accounts each instruction documents: their own token   *)
(* accounts, and the vaults, mint and authority recorded in the pool.      *)
(***************************************************************************)
EXTENDS AmmMath, EarlyReturns, Sequences

CONSTANTS
  NumUsers,          \* how many users trade and provide liquidity
  Endowment,         \* what each of them owns of token A and of token B
  DataLens,          \* sizes the pool account may have been allocated with
  Fees,              \* <<numerator, denominator>> pairs passed to InitializePool
  Amounts,           \* amounts passed to instructions
  Minimums,          \* slippage limits passed to instructions
  DirectTransfers,   \* mints that users also transfer without the program
  DirectBurns        \* mints that users also burn without the program

POOL_SIZE == 202

Tokens == {"A", "B"}
Mints  == Tokens \cup {"LP"}

Vault    == 0                          \* the pool's account of each token mint
Users    == 1..NumUsers
Accounts == Users \cup {Vault}

ASSUME DexPoolAssumption ==
  /\ NumUsers \in Nat \ {0}
  /\ Endowment \in U64 /\ NumUsers * Endowment <= MaxU64
  /\ DataLens \subseteq Nat
  /\ Fees \subseteq U64 \X U64
  /\ Amounts \subseteq U64 /\ Minimums \subseteq U64
  /\ DirectTransfers \subseteq Mints /\ DirectBurns \subseteq Mints

VARIABLES
  data_len,                            \* size of the pool account's data
  is_initialized, reserve, lp_supply,  \* struct Pool, without the addresses
  fee_numerator, fee_denominator,      \*   and the bump, which never matter here
  balance,                             \* token program: [mint][account] |-> amount
  supply,                              \* token program: [mint] |-> tokens in existence
  result                               \* what the last instruction returned

poolVars  == <<data_len, is_initialized, reserve, lp_supply,
               fee_numerator, fee_denominator>>
tokenVars == <<balance, supply>>
vars      == <<data_len, is_initialized, reserve, lp_supply,
               fee_numerator, fee_denominator, balance, supply, result>>

Init ==
  /\ data_len \in DataLens
  /\ is_initialized = FALSE
  /\ reserve = [t \in Tokens |-> 0]
  /\ lp_supply = 0 /\ fee_numerator = 0 /\ fee_denominator = 0
  /\ balance = [m \in Mints |-> [a \in Accounts |->
                  IF m \in Tokens /\ a \in Users THEN Endowment ELSE 0]]
  /\ supply = [m \in Mints |-> IF m \in Tokens THEN NumUsers * Endowment ELSE 0]
  /\ result = "none"

-----------------------------------------------------------------------------
(* The token program.                                                      *)

CanTransfer(m, from, to, n) ==
  balance[m][from] >= n /\ balance[m][to] + n <= MaxU64
Transfer(bal, m, from, to, n) ==
  [bal EXCEPT ![m][from] = @ - n, ![m][to] = @ + n]

CanMint(m, to, n)  == supply[m] + n <= MaxU64 /\ balance[m][to] + n <= MaxU64
CanBurn(m, from, n) == balance[m][from] >= n /\ supply[m] >= n

-----------------------------------------------------------------------------
(* What an instruction returns, and what its first failing check does.     *)

DexErrors     == {"AlreadyInitialized", "NotInitialized", "InsufficientLiquidity",
                  "SlippageExceeded", "Overflow", "InvalidFee", "ZeroAmount"}
ProgramErrors == {"InvalidAccountData", "AccountDataTooSmall", "BorshIoError",
                  "TokenError"}
Results == DexErrors \cup ProgramErrors \cup {"Ok"}

Reject(checks) ==
  /\ ~Passes(checks)
  /\ result' = checks[FirstFailed(checks)]
  /\ UNCHANGED <<poolVars, tokenVars>>

Accept(checks) ==
  /\ Passes(checks)
  /\ result' = "Ok"

(* Pool::try_from_slice wants the whole slice, no byte more or less.       *)
Parses == data_len = POOL_SIZE

-----------------------------------------------------------------------------
NoDoubleInitGuard == FALSE                                        \* mutant
DoubleInit == Parses /\ is_initialized

InitChecks(numerator, denominator, derived) ==
  << Check(denominator = 0 \/ numerator >= denominator, "InvalidFee"),
     Check(~derived,                   "InvalidAccountData"),
     Check(data_len < POOL_SIZE,       "AccountDataTooSmall"),
     Check(DoubleInit,                 "AlreadyInitialized") >>

(* derived: the authority and bump passed are those of find_program_address *)
InitializePool(numerator, denominator, derived) ==
  LET checks == InitChecks(numerator, denominator, derived)
  IN  \/ Reject(checks)
      \/ /\ Accept(checks)
         /\ is_initialized' = TRUE
         /\ reserve' = [t \in Tokens |-> 0]
         /\ lp_supply' = 0
         /\ fee_numerator' = numerator
         /\ fee_denominator' = denominator
         /\ UNCHANGED <<data_len, tokenVars>>

-----------------------------------------------------------------------------
LpTokens(amount_a, amount_b) ==
  CalculateLpTokens(amount_a, amount_b, reserve["A"], reserve["B"], lp_supply)

AddChecks(u, amount_a, amount_b, min_lp) ==
  LET lp == LpTokens(amount_a, amount_b)
  IN  << Check(amount_a = 0 \/ amount_b = 0,             "ZeroAmount"),
         Check(~Parses,                                  "BorshIoError"),
         Check(~is_initialized,                          "NotInitialized"),
         Check(lp = None,                                "Overflow"),
         Check(lp = 0,                                   "ZeroAmount"),
         Check(lp < min_lp,                              "SlippageExceeded"),
         Check(~CanTransfer("A", u, Vault, amount_a),    "TokenError"),
         Check(~CanTransfer("B", u, Vault, amount_b),    "TokenError"),
         Check(~CanMint("LP", u, lp),                    "TokenError"),
         Check(\/ reserve["A"] + amount_a > MaxU64
               \/ reserve["B"] + amount_b > MaxU64
               \/ lp_supply + lp > MaxU64, "Overflow") >>

LpSupplyUnchanged(lp) == lp_supply                                \* mutant
LpSupplyAfterAdd(lp) == lp_supply + lp

AddLiquidity(u, amount_a, amount_b, min_lp) ==
  LET checks == AddChecks(u, amount_a, amount_b, min_lp)
      lp     == LpTokens(amount_a, amount_b)
      paid_a == Transfer(balance, "A", u, Vault, amount_a)
      paid   == Transfer(paid_a, "B", u, Vault, amount_b)
  IN  \/ Reject(checks)
      \/ /\ Accept(checks)
         /\ balance' = [paid EXCEPT !["LP"][u] = @ + lp]
         /\ supply'  = [supply EXCEPT !["LP"] = @ + lp]
         /\ reserve' = [reserve EXCEPT !["A"] = @ + amount_a, !["B"] = @ + amount_b]
         /\ lp_supply' = LpSupplyAfterAdd(lp)
         /\ UNCHANGED <<data_len, is_initialized, fee_numerator, fee_denominator>>

-----------------------------------------------------------------------------
Removal(t, lp) == RemovalAmount(lp, reserve[t], lp_supply)

RemoveChecks(u, lp, min_a, min_b) ==
  LET amount_a == Removal("A", lp)
      amount_b == Removal("B", lp)
  IN  << Check(lp = 0,                                   "ZeroAmount"),
         Check(~Parses,                                  "BorshIoError"),
         Check(~is_initialized,                          "NotInitialized"),
         Check(None \in {amount_a, amount_b},            "InsufficientLiquidity"),
         Check(amount_a < min_a \/ amount_b < min_b,     "SlippageExceeded"),
         Check(~CanBurn("LP", u, lp),                    "TokenError"),
         Check(~CanTransfer("A", Vault, u, amount_a),    "TokenError"),
         Check(~CanTransfer("B", Vault, u, amount_b),    "TokenError"),
         Check(\/ amount_a > reserve["A"]
               \/ amount_b > reserve["B"]
               \/ lp > lp_supply, "Overflow") >>

LpSupplyKept(lp) == lp_supply                                     \* mutant
LpSupplyAfterRemove(lp) == lp_supply - lp

RemoveLiquidity(u, lp, min_a, min_b) ==
  LET checks   == RemoveChecks(u, lp, min_a, min_b)
      amount_a == Removal("A", lp)
      amount_b == Removal("B", lp)
      burned   == [balance EXCEPT !["LP"][u] = @ - lp]
      paid_a   == Transfer(burned, "A", Vault, u, amount_a)
  IN  \/ Reject(checks)
      \/ /\ Accept(checks)
         /\ balance' = Transfer(paid_a, "B", Vault, u, amount_b)
         /\ supply'  = [supply EXCEPT !["LP"] = @ - lp]
         /\ reserve' = [reserve EXCEPT !["A"] = @ - amount_a, !["B"] = @ - amount_b]
         /\ lp_supply' = LpSupplyAfterRemove(lp)
         /\ UNCHANGED <<data_len, is_initialized, fee_numerator, fee_denominator>>

-----------------------------------------------------------------------------
(* tin is the token paid in: "A" when the instruction says a_to_b.         *)
Other(t) == IF t = "A" THEN "B" ELSE "A"

AmountOut(amount_in, tin) ==
  SwapOutput(amount_in, reserve[tin], reserve[Other(tin)],
             fee_numerator, fee_denominator)

SwapChecks(u, amount_in, min_out, tin) ==
  LET out == AmountOut(amount_in, tin)
  IN  << Check(amount_in = 0,                                  "ZeroAmount"),
         Check(~Parses,                                        "BorshIoError"),
         Check(~is_initialized,                                "NotInitialized"),
         Check(0 \in {reserve["A"], reserve["B"]},             "InsufficientLiquidity"),
         Check(out = None,                                     "Overflow"),
         Check(out = 0,                                        "ZeroAmount"),
         Check(out < min_out,                                  "SlippageExceeded"),
         Check(~CanTransfer(tin, u, Vault, amount_in),         "TokenError"),
         Check(~CanTransfer(Other(tin), Vault, u, out),        "TokenError"),
         Check(\/ reserve[tin] + amount_in > MaxU64
               \/ out > reserve[Other(tin)], "Overflow") >>

ReserveNotPaidOut(amount_in, out, tin) ==                         \* mutant
  [reserve EXCEPT ![tin] = @ + amount_in]
ReserveAlwaysAToB(amount_in, out, tin) ==                         \* mutant
  [reserve EXCEPT !["A"] = @ + amount_in, !["B"] = @ - out]
ReserveAfterSwap(amount_in, out, tin) ==
  [reserve EXCEPT ![tin] = @ + amount_in, ![Other(tin)] = @ - out]

Swap(u, amount_in, min_out, tin) ==
  LET checks == SwapChecks(u, amount_in, min_out, tin)
      tout   == Other(tin)
      out    == AmountOut(amount_in, tin)
      paid   == Transfer(balance, tin, u, Vault, amount_in)
  IN  \/ Reject(checks)
      \/ /\ Accept(checks)
         /\ balance' = Transfer(paid, tout, Vault, u, out)
         /\ reserve' = ReserveAfterSwap(amount_in, out, tin)
         /\ UNCHANGED <<data_len, is_initialized, lp_supply,
                        fee_numerator, fee_denominator, supply>>

-----------------------------------------------------------------------------
InfoChecks == << Check(~Parses,         "InvalidAccountData"),
                 Check(~is_initialized, "NotInitialized") >>

GetPoolInfo ==
  \/ Reject(InfoChecks)
  \/ Accept(InfoChecks) /\ UNCHANGED <<poolVars, tokenVars>>

-----------------------------------------------------------------------------
(* Users own their token accounts: they may transfer from them, to the     *)
(* vault too, and burn from them, without this program taking part.        *)

DirectTransfer(m, from, to, n) ==
  /\ from # to /\ n > 0
  /\ m = "LP" => to # Vault             \* the pool has no account for its shares
  /\ CanTransfer(m, from, to, n)
  /\ balance' = Transfer(balance, m, from, to, n)
  /\ UNCHANGED <<poolVars, supply, result>>

DirectBurn(m, from, n) ==
  /\ n > 0
  /\ CanBurn(m, from, n)
  /\ balance' = [balance EXCEPT ![m][from] = @ - n]
  /\ supply' = [supply EXCEPT ![m] = @ - n]
  /\ UNCHANGED <<poolVars, result>>

-----------------------------------------------------------------------------
Next ==
  \/ \E fee \in Fees, derived \in BOOLEAN : InitializePool(fee[1], fee[2], derived)
  \/ \E u \in Users, a, b \in Amounts, min \in Minimums : AddLiquidity(u, a, b, min)
  \/ \E u \in Users, lp \in Amounts, min_a, min_b \in Minimums :
       RemoveLiquidity(u, lp, min_a, min_b)
  \/ \E u \in Users, n \in Amounts, min \in Minimums, t \in Tokens : Swap(u, n, min, t)
  \/ GetPoolInfo
  \/ \E m \in DirectTransfers, from \in Users, to \in Accounts, n \in Amounts :
       DirectTransfer(m, from, to, n)
  \/ \E m \in DirectBurns, from \in Users, n \in Amounts : DirectBurn(m, from, n)

Spec == Init /\ [][Next]_vars

-----------------------------------------------------------------------------
TypeOK ==
  /\ data_len \in DataLens
  /\ is_initialized \in BOOLEAN
  /\ reserve \in [Tokens -> U64]
  /\ lp_supply \in U64 /\ fee_numerator \in U64 /\ fee_denominator \in U64
  /\ balance \in [Mints -> [Accounts -> U64]]
  /\ supply \in [Mints -> U64]
  /\ result \in Results \cup {"none"}

(* state.rs: "cached, must equal vault balance".  The reserves priced with *)
(* are the tokens in the vaults.  Every handler updates the two apart.     *)
ReservesMatchVaults ==
  is_initialized => \A t \in Tokens : reserve[t] = balance[t][Vault]

(* state.rs: "Total LP token supply outstanding".  The shares a withdrawal *)
(* divides by are those the mint says exist.                               *)
LpSupplyMatchesMint == lp_supply = supply["LP"]

(* What remains of the two when users call the token program themselves:   *)
(* the vaults hold at least the reserves, and no share exists that the     *)
(* pool does not count.                                                    *)
ReservesBacked == \A t \in Tokens : reserve[t] <= balance[t][Vault]
SharesBacked   == supply["LP"] <= lp_supply

(* processor.rs: "Guard against double-init".  A pool is set up once: no   *)
(* later instruction changes its fee, or writes off shares and reserves    *)
(* that still stand in the token program.                                  *)
InitializedOnce ==
  [][is_initialized =>
       /\ UNCHANGED <<is_initialized, fee_numerator, fee_denominator>>
       /\ lp_supply' < lp_supply => supply'["LP"] < supply["LP"]
       /\ \A t \in Tokens :
            reserve'[t] < reserve[t] => balance'[t][Vault] < balance[t][Vault]]_vars

(* Whoever holds shares can withdraw any part of them, at any moment and   *)
(* whatever others did before: no check of RemoveLiquidity stands in the   *)
(* way, and the withdrawal pays something in at least one of the tokens.   *)
Redeemable ==
  \A u \in Users : \A lp \in 1..balance["LP"][u] :
    /\ Passes(RemoveChecks(u, lp, 0, 0))
    /\ Removal("A", lp) > 0 \/ Removal("B", lp) > 0

(* The checked arithmetic after the transfers ("Update state") never       *)
(* fails: an instruction whose transfers all succeed is not then undone    *)
(* by the pool's own bookkeeping.                                          *)
OnlyLastFails(checks) == Failed(checks) = {Len(checks)}
NoLateOverflow ==
  \A u \in Users, m, n \in Amounts :
    /\ ~OnlyLastFails(AddChecks(u, m, n, 0))
    /\ ~OnlyLastFails(RemoveChecks(u, m, 0, 0))
    /\ \A t \in Tokens : ~OnlyLastFails(SwapChecks(u, m, 0, t))

-----------------------------------------------------------------------------
(* The promise to the holders of shares, kept by every instruction and     *)
(* every direct call to the token program: module FairPool.                *)
Abstract == INSTANCE FairPool

(* Every behaviour of the program is one of a fair pool.                   *)
ImplementsFairPool == Abstract!Spec

(* No reserve is left without shares, no share without reserves.           *)
EmptyTogether == Abstract!EmptyTogether

(* Never more shares than the geometric mean of the reserves: the reason   *)
(* that rounding never makes a share worth nothing, and that lp_supply     *)
(* cannot overflow.                                                        *)
SharesBoundedByReserves == Abstract!SharesBoundedByReserves

(* The value of a share never falls, whatever anyone else does.            *)
NoDilution == Abstract!NoDilution
=============================================================================
