--------------------------- MODULE DexPoolProofs ---------------------------
(***************************************************************************)
(* The native program keeps the promise of FairPool, for every width,      *)
(* number of users, endowment, fee and amount, and whatever users do with  *)
(* the token program directly, in pool accounts of the documented size.    *)
(* The figures reported about the pool hold what they seem to promise.     *)
(***************************************************************************)
EXTENDS PoolInfo, AmmMathProofs

(* The theorems of FairPool, for the reserves and shares of this pool.     *)
Fair == INSTANCE FairPoolProofs

(* lib.rs: "pre-allocated, size = POOL_SIZE".  In a larger account a pool  *)
(* can be initialized twice (run pool_large_account).                      *)
DocumentedSizes == \A size \in DataLens : size \in Nat /\ size <= POOL_SIZE

(* Only a pool that is set up has reserves, shares and a fee to speak of.  *)
SetUp ==
  /\ is_initialized => fee_numerator < fee_denominator
  /\ ~is_initialized => reserve = [t \in Tokens |-> 0] /\ lp_supply = 0

AmountsOK ==
  /\ data_len \in DataLens
  /\ is_initialized \in BOOLEAN
  /\ reserve \in [Tokens -> U64]
  /\ lp_supply \in U64 /\ fee_numerator \in U64 /\ fee_denominator \in U64
  /\ balance \in [Mints -> [Accounts -> U64]]
  /\ supply \in [Mints -> U64]

IInv ==
  /\ AmountsOK
  /\ SetUp
  /\ ReservesBacked
  /\ SharesBacked
  /\ Fair!IInv

-----------------------------------------------------------------------------
(* An instruction that is accepted failed none of its checks.              *)
LEMMA AddAccepted ==
  ASSUME NEW u, NEW a, NEW b, NEW min, Passes(AddChecks(u, a, b, min))
  PROVE  LET lp == LpTokens(a, b)
         IN  /\ a # 0 /\ b # 0 /\ is_initialized
             /\ lp # None /\ lp # 0
             /\ CanTransfer("A", u, Vault, a)
             /\ CanTransfer("B", u, Vault, b)
             /\ CanMint("LP", u, lp)
             /\ ~(reserve["A"] + a > MaxU64)
             /\ ~(reserve["B"] + b > MaxU64)
             /\ ~(lp_supply + lp > MaxU64)
<1> DEFINE checks == AddChecks(u, a, b, min)
<1>1. DOMAIN checks = 1..10
  BY DEF AddChecks
<1>2. \A i \in 1..10 : checks[i] = "Ok"
  BY <1>1 DEF Passes, Failed
<1>3. QED
  BY <1>2 DEF AddChecks, Check

LEMMA RemoveAccepted ==
  ASSUME NEW u, NEW lp, NEW min_a, NEW min_b,
         Passes(RemoveChecks(u, lp, min_a, min_b))
  PROVE  LET amount_a == Removal("A", lp)
             amount_b == Removal("B", lp)
         IN  /\ lp # 0 /\ is_initialized
             /\ amount_a # None /\ amount_b # None
             /\ CanBurn("LP", u, lp)
             /\ CanTransfer("A", Vault, u, amount_a)
             /\ CanTransfer("B", Vault, u, amount_b)
             /\ ~(amount_a > reserve["A"])
             /\ ~(amount_b > reserve["B"])
             /\ ~(lp > lp_supply)
<1> DEFINE checks == RemoveChecks(u, lp, min_a, min_b)
<1>1. DOMAIN checks = 1..9
  BY DEF RemoveChecks
<1>2. \A i \in 1..9 : checks[i] = "Ok"
  BY <1>1 DEF Passes, Failed
<1>3. QED
  BY <1>2 DEF RemoveChecks, Check

LEMMA SwapAccepted ==
  ASSUME NEW u, NEW n, NEW min, NEW tin, Passes(SwapChecks(u, n, min, tin))
  PROVE  LET out == AmountOut(n, tin)
         IN  /\ n # 0 /\ is_initialized
             /\ reserve["A"] # 0 /\ reserve["B"] # 0
             /\ out # None /\ out # 0
             /\ CanTransfer(tin, u, Vault, n)
             /\ CanTransfer(Other(tin), Vault, u, out)
             /\ ~(reserve[tin] + n > MaxU64)
             /\ ~(out > reserve[Other(tin)])
<1> DEFINE checks == SwapChecks(u, n, min, tin)
<1>1. DOMAIN checks = 1..10
  BY DEF SwapChecks
<1>2. \A i \in 1..10 : checks[i] = "Ok"
  BY <1>1 DEF Passes, Failed
<1>3. QED
  BY <1>2 DEF SwapChecks, Check

LEMMA InitAccepted ==
  ASSUME NEW numerator, NEW denominator, NEW derived,
         Passes(InitChecks(numerator, denominator, derived))
  PROVE  /\ ~(numerator >= denominator)
         /\ ~(data_len < POOL_SIZE)
         /\ ~DoubleInit
<1> DEFINE checks == InitChecks(numerator, denominator, derived)
<1>1. DOMAIN checks = 1..4
  BY DEF InitChecks
<1>2. \A i \in 1..4 : checks[i] = "Ok"
  BY <1>1 DEF Passes, Failed
<1>3. QED
  BY <1>2 DEF InitChecks, Check

-----------------------------------------------------------------------------
(* Moving tokens between two accounts keeps every balance a u64 and every  *)
(* other balance as it was.                                                *)
LEMMA TransferOK ==
  ASSUME NEW bal \in [Mints -> [Accounts -> U64]],
         NEW m \in Mints, NEW from \in Accounts, NEW to \in Accounts,
         NEW n \in Nat, from # to, n <= bal[m][from], bal[m][to] + n <= MaxU64
  PROVE  LET moved == Transfer(bal, m, from, to, n)
         IN  /\ moved \in [Mints -> [Accounts -> U64]]
             /\ moved[m][from] = bal[m][from] - n
             /\ moved[m][to] = bal[m][to] + n
             /\ \A k \in Mints : k # m => moved[k] = bal[k]
             /\ \A a \in Accounts \ {from, to} : moved[m][a] = bal[m][a]
<1>1. bal[m] \in [Accounts -> U64] /\ bal[m][from] \in Nat /\ bal[m][to] \in Nat
  BY MaxU64Assumption DEF U64
<1> DEFINE row == [bal[m] EXCEPT ![from] = @ - n, ![to] = @ + n]
<1>2. row \in [Accounts -> U64]
  BY <1>1, MaxU64Assumption DEF U64
<1>3. /\ row[from] = bal[m][from] - n /\ row[to] = bal[m][to] + n
      /\ \A a \in Accounts \ {from, to} : row[a] = bal[m][a]
  BY <1>1
<1>4. Transfer(bal, m, from, to, n) = [bal EXCEPT ![m] = row]
  BY <1>1 DEF Transfer
<1> HIDE DEF row
<1>5. QED
  BY <1>2, <1>3, <1>4

(* Two transfers, of different tokens.                                     *)
LEMMA TransfersOK ==
  ASSUME NEW bal \in [Mints -> [Accounts -> U64]],
         NEW m \in Mints, NEW from \in Accounts, NEW to \in Accounts,
         NEW n \in Nat, from # to, n <= bal[m][from], bal[m][to] + n <= MaxU64,
         NEW k \in Mints, NEW src \in Accounts, NEW dst \in Accounts, k # m,
         NEW o \in Nat, src # dst, o <= bal[k][src], bal[k][dst] + o <= MaxU64
  PROVE  LET moved == Transfer(Transfer(bal, m, from, to, n), k, src, dst, o)
         IN  /\ moved \in [Mints -> [Accounts -> U64]]
             /\ moved[m][from] = bal[m][from] - n /\ moved[m][to] = bal[m][to] + n
             /\ moved[k][src] = bal[k][src] - o /\ moved[k][dst] = bal[k][dst] + o
             /\ \A l \in Mints \ {m, k} : moved[l] = bal[l]
<1>1. PICK once \in [Mints -> [Accounts -> U64]] :
        /\ once = Transfer(bal, m, from, to, n)
        /\ once[m][from] = bal[m][from] - n /\ once[m][to] = bal[m][to] + n
        /\ \A l \in Mints : l # m => once[l] = bal[l]
  BY TransferOK
<1>2. PICK twice \in [Mints -> [Accounts -> U64]] :
        /\ twice = Transfer(once, k, src, dst, o)
        /\ twice[k][src] = once[k][src] - o /\ twice[k][dst] = once[k][dst] + o
        /\ \A l \in Mints : l # k => twice[l] = once[l]
  BY <1>1, TransferOK, SMTT(30)
<1>3. QED
  BY <1>1, <1>2

-----------------------------------------------------------------------------
(* What every instruction must do, given the invariant: keep amounts in    *)
(* range and the books backed, and be a fair step or change neither        *)
(* reserves nor shares.                                                    *)
KeepsInv ==
  /\ AmountsOK' /\ SetUp' /\ ReservesBacked' /\ SharesBacked'
  /\ [Fair!Next]_(Fair!vars)

(* And, of what an instruction of the program moves: as many tokens in its *)
(* books as in the token accounts.                                         *)
MovesBooks ==
  /\ is_initialized => UNCHANGED <<is_initialized, fee_numerator, fee_denominator>>
  /\ lp_supply' - lp_supply = supply'["LP"] - supply["LP"]
  /\ \A t \in Tokens :
       reserve'[t] - reserve[t] = balance'[t][Vault] - balance[t][Vault]

(* The invariant, said of each amount by itself.                           *)
LEMMA Amounts64 ==
  ASSUME IInv
  PROVE  /\ \A t \in Tokens : reserve[t] \in U64
         /\ lp_supply \in U64 /\ fee_numerator \in U64 /\ fee_denominator \in U64
         /\ \A m \in Mints, a \in Accounts : balance[m][a] \in U64
         /\ \A m \in Mints : supply[m] \in U64
         /\ \A t \in Tokens : reserve[t] = 0 <=> lp_supply = 0
         /\ "A" \in Tokens /\ "B" \in Tokens /\ Tokens \subseteq Mints /\ "LP" \in Mints
         /\ \A u \in Users : u \in Accounts /\ u # Vault
         /\ Vault \in Accounts
         /\ U64 \subseteq Nat
BY MaxU64Assumption, DexPoolAssumption
   DEF IInv, AmountsOK, Tokens, Mints, Accounts, Users, Vault, U64,
       Fair!IInv, Fair!EmptyTogether, Fair!Tokens

(* A rejected instruction.                                                 *)
LEMMA RejectedKeepsInv ==
  ASSUME IInv, UNCHANGED <<poolVars, tokenVars>>
  PROVE  KeepsInv /\ MovesBooks
<1>1. KeepsInv
  BY DEF IInv, KeepsInv, AmountsOK, SetUp, ReservesBacked, SharesBacked,
         poolVars, tokenVars, Fair!vars
<1>2. MovesBooks
  <2>1. /\ lp_supply \in Nat /\ supply["LP"] \in Nat
        /\ \A t \in Tokens : reserve[t] \in Nat /\ balance[t][Vault] \in Nat
    BY Amounts64
  <2>2. QED
    BY <2>1 DEF MovesBooks, poolVars, tokenVars
<1>3. QED
  BY <1>1, <1>2

LEMMA InitializeKeepsInv ==
  ASSUME IInv, DocumentedSizes, NEW fee \in Fees, NEW derived \in BOOLEAN,
         InitializePool(fee[1], fee[2], derived)
  PROVE  KeepsInv /\ MovesBooks
<1> DEFINE checks == InitChecks(fee[1], fee[2], derived)
<1>1. CASE ~Passes(checks)
  BY <1>1, RejectedKeepsInv DEF InitializePool, Reject, Accept
<1>2. CASE Passes(checks)
  <2>1. /\ fee[1] \in U64 /\ fee[2] \in U64 /\ fee[1] < fee[2]
        /\ ~(data_len < POOL_SIZE) /\ ~DoubleInit
    BY <1>2, InitAccepted, DexPoolAssumption, MaxU64Assumption DEF U64
  <2>2. ~is_initialized
    BY <2>1 DEF DoubleInit, Parses, DocumentedSizes, IInv, AmountsOK, POOL_SIZE
  <2>3. reserve = [t \in Tokens |-> 0] /\ lp_supply = 0
    BY <2>2 DEF IInv, SetUp
  <2>4. /\ is_initialized' = TRUE /\ reserve' = reserve /\ lp_supply' = lp_supply
        /\ fee_numerator' = fee[1] /\ fee_denominator' = fee[2]
        /\ UNCHANGED <<data_len, tokenVars>>
    BY <1>2, <2>3 DEF InitializePool, Reject
  <2>5. KeepsInv
    BY <2>1, <2>4 DEF IInv, KeepsInv, AmountsOK, SetUp, ReservesBacked, SharesBacked,
                      tokenVars, Fair!vars
  <2>6. MovesBooks
    <3>1. /\ lp_supply \in Nat /\ supply["LP"] \in Nat
          /\ \A t \in Tokens : reserve[t] \in Nat /\ balance[t][Vault] \in Nat
      BY Amounts64
    <3>2. balance' = balance /\ supply' = supply
      BY <2>4 DEF tokenVars
    <3>3. /\ lp_supply' - lp_supply = supply'["LP"] - supply["LP"]
          /\ \A t \in Tokens :
               reserve'[t] - reserve[t] = balance'[t][Vault] - balance[t][Vault]
      BY <2>4, <3>1, <3>2
    <3>4. QED
      BY <2>2, <3>3 DEF MovesBooks
  <2>7. QED
    BY <2>5, <2>6
<1>3. QED
  BY <1>1, <1>2

(* The shares a deposit creates are worth no more than the deposit.        *)
LEMMA SharesAreFair ==
  ASSUME IInv, NEW a \in Amounts, NEW b \in Amounts, LpTokens(a, b) # None
  PROVE  LET lp == LpTokens(a, b)
         IN  /\ lp \in U64
             /\ lp_supply = 0 => lp * lp <= a * b
             /\ lp_supply # 0 => /\ lp * reserve["A"] <= a * lp_supply
                                 /\ lp * reserve["B"] <= b * lp_supply
<1>1. a \in U64 /\ b \in U64
  BY DexPoolAssumption
<1>2. CASE lp_supply = 0
  BY <1>1, <1>2, Amounts64, FirstLpTokens DEF LpTokens
<1>3. CASE lp_supply # 0
  <2>1. /\ reserve["A"] \in U64 \ {0} /\ reserve["B"] \in U64 \ {0}
        /\ lp_supply \in U64 \ {0}
    BY <1>3, Amounts64
  <2>2. QED
    BY <1>1, <1>3, <2>1, LaterLpTokens DEF LpTokens
<1>4. QED
  BY <1>2, <1>3

LEMMA AddKeepsInv ==
  ASSUME IInv, NEW u \in Users, NEW a \in Amounts, NEW b \in Amounts,
         NEW min \in Minimums, AddLiquidity(u, a, b, min)
  PROVE  KeepsInv /\ MovesBooks
<1> DEFINE checks == AddChecks(u, a, b, min)
           lp     == LpTokens(a, b)
           paid   == Transfer(Transfer(balance, "A", u, Vault, a), "B", u, Vault, b)
<1>1. CASE ~Passes(checks)
  BY <1>1, RejectedKeepsInv DEF AddLiquidity, Reject, Accept
<1>2. CASE Passes(checks)
  <2>1. /\ a # 0 /\ b # 0 /\ is_initialized /\ lp # None /\ lp # 0
        /\ CanTransfer("A", u, Vault, a) /\ CanTransfer("B", u, Vault, b)
        /\ CanMint("LP", u, lp)
        /\ ~(reserve["A"] + a > MaxU64) /\ ~(reserve["B"] + b > MaxU64)
        /\ ~(lp_supply + lp > MaxU64)
    BY <1>2, AddAccepted
  <2>2. /\ balance' = [paid EXCEPT !["LP"][u] = @ + lp]
        /\ supply'  = [supply EXCEPT !["LP"] = @ + lp]
        /\ reserve' = [reserve EXCEPT !["A"] = @ + a, !["B"] = @ + b]
        /\ lp_supply' = lp_supply + lp
        /\ UNCHANGED <<data_len, is_initialized, fee_numerator, fee_denominator>>
    BY <1>2 DEF AddLiquidity, Reject, LpSupplyAfterAdd
  <2>3. a \in U64 /\ b \in U64
    BY DexPoolAssumption
  <2>4. /\ lp \in U64
        /\ lp_supply = 0 => lp * lp <= a * b
        /\ lp_supply # 0 => /\ lp * reserve["A"] <= a * lp_supply
                            /\ lp * reserve["B"] <= b * lp_supply
    BY <2>1, SharesAreFair
  <2> HIDE DEF lp, checks
  <2>5. /\ a \in Nat \ {0} /\ b \in Nat \ {0} /\ lp \in Nat \ {0}
        /\ reserve["A"] \in Nat /\ reserve["B"] \in Nat /\ lp_supply \in Nat
    BY <2>1, <2>3, <2>4, Amounts64
  <2>6. /\ reserve' \in [Tokens -> U64] /\ lp_supply' \in U64
        /\ reserve'["A"] = reserve["A"] + a /\ reserve'["B"] = reserve["B"] + b
        /\ reserve' \in [Tokens -> 1..MaxU64] /\ lp_supply' \in 1..MaxU64
    <3>1. reserve \in [Tokens -> U64] /\ reserve["A"] + a \in 1..MaxU64
          /\ reserve["B"] + b \in 1..MaxU64 /\ lp_supply + lp \in 1..MaxU64
      BY <2>1, <2>5, MaxU64Assumption DEF IInv, AmountsOK
    <3>2. reserve'["A"] = reserve["A"] + a /\ reserve'["B"] = reserve["B"] + b
      BY <2>2, <3>1 DEF Tokens
    <3>3. reserve' \in [Tokens -> 1..MaxU64]
      BY <2>2, <3>1 DEF Tokens
    <3>4. 1..MaxU64 \subseteq U64
      BY MaxU64Assumption DEF U64
    <3>5. QED
      BY <2>2, <3>1, <3>2, <3>3, <3>4
  <2>7. /\ balance \in [Mints -> [Accounts -> U64]]
        /\ "A" \in Mints /\ "B" \in Mints /\ "LP" \in Mints
        /\ u \in Accounts /\ Vault \in Accounts /\ u # Vault
    BY Amounts64 DEF IInv, AmountsOK
  <2>8. /\ a \in Nat /\ a <= balance["A"][u] /\ balance["A"][Vault] + a <= MaxU64
        /\ b \in Nat /\ b <= balance["B"][u] /\ balance["B"][Vault] + b <= MaxU64
    BY <2>1, <2>5, <2>7, Amounts64 DEF CanTransfer
  <2>9. /\ paid \in [Mints -> [Accounts -> U64]]
        /\ paid["A"][Vault] = balance["A"][Vault] + a
        /\ paid["B"][Vault] = balance["B"][Vault] + b
        /\ paid["LP"] = balance["LP"]
    <3>1. /\ paid \in [Mints -> [Accounts -> U64]]
          /\ paid["A"][u] = balance["A"][u] - a
          /\ paid["A"][Vault] = balance["A"][Vault] + a
          /\ paid["B"][u] = balance["B"][u] - b
          /\ paid["B"][Vault] = balance["B"][Vault] + b
          /\ \A l \in Mints \ {"A", "B"} : paid[l] = balance[l]
      BY <2>7, <2>8, TransfersOK, SMTT(60)
    <3>2. QED
      BY <2>7, <3>1
  <2> HIDE DEF paid
  <2>10. balance["LP"][u] + lp \in U64 /\ supply["LP"] + lp \in U64
    BY <2>1, <2>5, <2>7, Amounts64, MaxU64Assumption DEF CanMint, U64
  <2>11. /\ balance' \in [Mints -> [Accounts -> U64]]
         /\ balance'["A"] = paid["A"] /\ balance'["B"] = paid["B"]
    BY <2>2, <2>7, <2>9, <2>10
  <2>12. supply' \in [Mints -> U64] /\ supply'["LP"] = supply["LP"] + lp
    BY <2>2, <2>10 DEF IInv, AmountsOK, Mints, Tokens
  <2>13. AmountsOK' /\ SetUp'
    BY <2>1, <2>2, <2>6, <2>11, <2>12 DEF IInv, AmountsOK, SetUp
  <2>14. ReservesBacked'
    <3>1. /\ reserve["A"] <= balance["A"][Vault] /\ reserve["B"] <= balance["B"][Vault]
          /\ balance["A"][Vault] \in Nat /\ balance["B"][Vault] \in Nat
      BY <2>7, Amounts64 DEF IInv, ReservesBacked, Tokens
    <3>2. /\ reserve'["A"] <= balance'["A"][Vault]
          /\ reserve'["B"] <= balance'["B"][Vault]
      BY <2>5, <2>6, <2>9, <2>11, <3>1
    <3>3. QED
      BY <3>2 DEF ReservesBacked, Tokens
  <2>15. SharesBacked'
    BY <2>2, <2>5, <2>7, <2>12, Amounts64 DEF IInv, SharesBacked
  <2>16. Fair!Next
    <3>1. CASE lp_supply = 0
      <4>1. reserve["A"] = 0 /\ reserve["B"] = 0
        BY <3>1, Amounts64
      <4>2. reserve'["A"] = a /\ reserve'["B"] = b /\ lp_supply' = lp
        BY <2>2, <2>5, <2>6, <3>1, <4>1
      <4>3. Fair!FirstDeposit
        BY <2>4, <2>6, <3>1, <4>2
           DEF Fair!FirstDeposit, Fair!Tokens, Fair!Positive, Fair!Product, Tokens
      <4>4. QED
        BY <4>3 DEF Fair!Next
    <3>2. CASE lp_supply # 0
      <4>1. /\ reserve'["A"] * lp_supply >= reserve["A"] * lp_supply'
            /\ reserve'["B"] * lp_supply >= reserve["B"] * lp_supply'
        <5>1. (reserve["A"] + a) * lp_supply >= reserve["A"] * (lp_supply + lp)
          BY <2>4, <2>5, <3>2, Z3
        <5>2. (reserve["B"] + b) * lp_supply >= reserve["B"] * (lp_supply + lp)
          BY <2>4, <2>5, <3>2, Z3
        <5>3. QED
          BY <2>2, <2>6, <5>1, <5>2
      <4>2. Fair!KeepsEachShare
        BY <4>1 DEF Fair!KeepsEachShare, Fair!Tokens
      <4>3. /\ lp_supply > 0 /\ lp_supply' > lp_supply
            /\ \A t \in Fair!Tokens : reserve'[t] > reserve[t]
        BY <2>2, <2>5, <2>6, <3>2 DEF Fair!Tokens
      <4>4. Fair!Deposit
        BY <2>6, <4>2, <4>3 DEF Fair!Deposit, Fair!Tokens, Fair!Positive, Tokens
      <4>5. QED
        BY <4>4 DEF Fair!Next
    <3>3. QED
      BY <3>1, <3>2
  <2>17. MovesBooks
    <3>1. lp_supply' - lp_supply = supply'["LP"] - supply["LP"]
      BY <2>2, <2>5, <2>7, <2>12, Amounts64
    <3>2. /\ balance["A"][Vault] \in Nat /\ balance["B"][Vault] \in Nat
          /\ balance'["A"][Vault] = balance["A"][Vault] + a
          /\ balance'["B"][Vault] = balance["B"][Vault] + b
      BY <2>7, <2>9, <2>11, Amounts64
    <3>3. \A t \in Tokens :
            reserve'[t] - reserve[t] = balance'[t][Vault] - balance[t][Vault]
      BY <2>5, <2>6, <3>2 DEF Tokens
    <3>4. QED
      BY <2>2, <3>1, <3>3 DEF MovesBooks
  <2>18. QED
    BY <2>13, <2>14, <2>15, <2>16, <2>17 DEF KeepsInv
<1>3. QED
  BY <1>1, <1>2

LEMMA RemoveKeepsInv ==
  ASSUME IInv, NEW u \in Users, NEW lp \in Amounts,
         NEW min_a \in Minimums, NEW min_b \in Minimums,
         RemoveLiquidity(u, lp, min_a, min_b)
  PROVE  KeepsInv /\ MovesBooks
<1> DEFINE checks == RemoveChecks(u, lp, min_a, min_b)
           a      == Removal("A", lp)
           b      == Removal("B", lp)
           burned == [balance EXCEPT !["LP"][u] = @ - lp]
           paid   == Transfer(Transfer(burned, "A", Vault, u, a), "B", Vault, u, b)
<1>1. CASE ~Passes(checks)
  BY <1>1, RejectedKeepsInv DEF RemoveLiquidity, Reject, Accept
<1>2. CASE Passes(checks)
  <2>1. /\ lp # 0 /\ is_initialized /\ a # None /\ b # None
        /\ CanBurn("LP", u, lp)
        /\ CanTransfer("A", Vault, u, a) /\ CanTransfer("B", Vault, u, b)
        /\ ~(lp > lp_supply)
    BY <1>2, RemoveAccepted
  <2>2. /\ balance' = paid
        /\ supply'  = [supply EXCEPT !["LP"] = @ - lp]
        /\ reserve' = [reserve EXCEPT !["A"] = @ - a, !["B"] = @ - b]
        /\ lp_supply' = lp_supply - lp
        /\ UNCHANGED <<data_len, is_initialized, fee_numerator, fee_denominator>>
    BY <1>2 DEF RemoveLiquidity, Reject, LpSupplyAfterRemove
  <2>3. lp \in U64 /\ lp \in Nat \ {0} /\ lp_supply \in U64 \ {0} /\ lp <= lp_supply
    BY <2>1, DexPoolAssumption, Amounts64 DEF Removal, RemovalAmount
  <2>4. reserve["A"] \in U64 /\ reserve["B"] \in U64
        /\ reserve["A"] \in Nat \ {0} /\ reserve["B"] \in Nat \ {0}
        /\ lp_supply \in Nat \ {0}
    BY <2>3, Amounts64
  <2>5. /\ a \in U64 /\ a <= reserve["A"] /\ a * lp_supply <= lp * reserve["A"]
        /\ lp = lp_supply => a = reserve["A"]
        /\ lp < lp_supply => a < reserve["A"]
    BY <2>1, <2>3, <2>4, RemovalIsFair DEF Removal
  <2>6. /\ b \in U64 /\ b <= reserve["B"] /\ b * lp_supply <= lp * reserve["B"]
        /\ lp = lp_supply => b = reserve["B"]
        /\ lp < lp_supply => b < reserve["B"]
    BY <2>1, <2>3, <2>4, RemovalIsFair DEF Removal
  <2> HIDE DEF a, b, checks
  <2>7. a \in Nat /\ b \in Nat
    BY <2>5, <2>6, Amounts64
  <2>8. /\ balance \in [Mints -> [Accounts -> U64]]
        /\ "A" \in Mints /\ "B" \in Mints /\ "LP" \in Mints
        /\ u \in Accounts /\ Vault \in Accounts /\ u # Vault
    BY Amounts64 DEF IInv, AmountsOK
  <2>9. PICK rest \in [Mints -> [Accounts -> U64]] :
          rest = burned /\ rest["A"] = balance["A"] /\ rest["B"] = balance["B"]
    <3>1. balance["LP"][u] - lp \in U64
      BY <2>1, <2>3, <2>8, Amounts64, MaxU64Assumption DEF CanBurn, U64
    <3>2. /\ burned \in [Mints -> [Accounts -> U64]]
          /\ burned["A"] = balance["A"] /\ burned["B"] = balance["B"]
      BY <2>8, <3>1
    <3>3. QED
      BY <3>2
  <2>10. /\ paid \in [Mints -> [Accounts -> U64]]
         /\ paid["A"][Vault] = balance["A"][Vault] - a
         /\ paid["B"][Vault] = balance["B"][Vault] - b
    <3>1. /\ rest \in [Mints -> [Accounts -> U64]]
          /\ a <= rest["A"][Vault] /\ rest["A"][u] + a <= MaxU64
          /\ b <= rest["B"][Vault] /\ rest["B"][u] + b <= MaxU64
      BY <2>1, <2>7, <2>8, <2>9, Amounts64 DEF CanTransfer
    <3>2. paid = Transfer(Transfer(rest, "A", Vault, u, a), "B", Vault, u, b)
      BY <2>9
    <3> HIDE DEF paid
    <3>3. PICK m \in Mints, k \in Mints : m = "A" /\ k = "B" /\ m # k
      BY <2>8
    <3>4. /\ a <= rest[m][Vault] /\ rest[m][u] + a <= MaxU64
          /\ b <= rest[k][Vault] /\ rest[k][u] + b <= MaxU64
          /\ paid = Transfer(Transfer(rest, m, Vault, u, a), k, Vault, u, b)
      BY <3>1, <3>2, <3>3
    <3>5. /\ paid \in [Mints -> [Accounts -> U64]]
          /\ paid[m][Vault] = rest[m][Vault] - a
          /\ paid[m][u] = rest[m][u] + a
          /\ paid[k][Vault] = rest[k][Vault] - b
          /\ paid[k][u] = rest[k][u] + b
          /\ \A l \in Mints \ {m, k} : paid[l] = rest[l]
      BY <2>7, <2>8, <3>1, <3>3, <3>4, TransfersOK, SMTT(60)
    <3>6. QED
      BY <2>9, <3>3, <3>5
  <2> HIDE DEF paid
  <2>11. supply' \in [Mints -> U64] /\ supply'["LP"] = supply["LP"] - lp
    <3>1. supply["LP"] - lp \in U64
      BY <2>1, <2>3, <2>8, Amounts64, MaxU64Assumption DEF CanBurn, U64
    <3>2. QED
      BY <2>2, <2>8, <3>1 DEF IInv, AmountsOK
  <2>12. /\ reserve' \in [Tokens -> U64] /\ lp_supply' \in U64
         /\ reserve'["A"] = reserve["A"] - a /\ reserve'["B"] = reserve["B"] - b
    <3>1. /\ reserve["A"] - a \in U64 /\ reserve["B"] - b \in U64
          /\ lp_supply - lp \in U64 /\ reserve \in [Tokens -> U64]
      BY <2>3, <2>4, <2>5, <2>6, <2>7, MaxU64Assumption DEF IInv, AmountsOK, U64
    <3>2. QED
      BY <2>2, <3>1 DEF Tokens
  <2>13. AmountsOK' /\ SetUp'
    BY <2>1, <2>2, <2>10, <2>11, <2>12 DEF IInv, AmountsOK, SetUp
  <2>14. ReservesBacked'
    <3>1. /\ reserve["A"] <= balance["A"][Vault] /\ reserve["B"] <= balance["B"][Vault]
          /\ balance["A"][Vault] \in Nat /\ balance["B"][Vault] \in Nat
      BY <2>8, Amounts64 DEF IInv, ReservesBacked, Tokens
    <3>2. /\ reserve'["A"] <= balance'["A"][Vault]
          /\ reserve'["B"] <= balance'["B"][Vault]
      BY <2>2, <2>4, <2>7, <2>10, <2>12, <3>1
    <3>3. QED
      BY <3>2 DEF ReservesBacked, Tokens
  <2>15. SharesBacked'
    <3>1. supply["LP"] \in Nat /\ supply["LP"] <= lp_supply
      BY <2>8, Amounts64 DEF IInv, SharesBacked
    <3>2. supply["LP"] - lp <= lp_supply - lp
      BY <2>3, <2>4, <3>1
    <3>3. QED
      BY <2>2, <2>11, <3>2 DEF SharesBacked
  <2>16. Fair!Next
    <3>1. CASE lp = lp_supply
      <4>1. reserve'["A"] = 0 /\ reserve'["B"] = 0 /\ lp_supply' = 0
        BY <2>2, <2>4, <2>5, <2>6, <2>12, <3>1
      <4>2. reserve' = [t \in Tokens |-> 0]
        BY <2>12, <4>1 DEF Tokens
      <4>3. Fair!WithdrawAll
        BY <2>4, <4>1, <4>2 DEF Fair!WithdrawAll, Fair!Tokens, Tokens
      <4>4. QED
        BY <4>3 DEF Fair!Next
    <3>2. CASE lp # lp_supply
      <4>1. /\ reserve'["A"] * lp_supply >= reserve["A"] * lp_supply'
            /\ reserve'["B"] * lp_supply >= reserve["B"] * lp_supply'
        <5>1. (reserve["A"] - a) * lp_supply >= reserve["A"] * (lp_supply - lp)
          BY <2>3, <2>4, <2>5, <2>7, Z3
        <5>2. (reserve["B"] - b) * lp_supply >= reserve["B"] * (lp_supply - lp)
          BY <2>3, <2>4, <2>6, <2>7, Z3
        <5>3. QED
          BY <2>2, <2>12, <5>1, <5>2
      <4>2. Fair!KeepsEachShare
        BY <4>1 DEF Fair!KeepsEachShare, Fair!Tokens
      <4>3. /\ reserve'["A"] \in 1..MaxU64 /\ reserve'["B"] \in 1..MaxU64
            /\ lp_supply' \in 1..MaxU64 /\ lp_supply' < lp_supply
            /\ reserve'["A"] <= reserve["A"] /\ reserve'["B"] <= reserve["B"]
        BY <2>2, <2>3, <2>4, <2>5, <2>6, <2>7, <2>12, <3>2, MaxU64Assumption DEF U64
      <4>4. reserve' \in [Tokens -> 1..MaxU64]
        BY <2>12, <4>3 DEF Tokens
      <4>5. Fair!Withdraw
        BY <4>2, <4>3, <4>4 DEF Fair!Withdraw, Fair!Tokens, Fair!Positive, Tokens
      <4>6. QED
        BY <4>5 DEF Fair!Next
    <3>3. QED
      BY <3>1, <3>2
  <2>17. MovesBooks
    <3>1. lp_supply' - lp_supply = supply'["LP"] - supply["LP"]
      <4>1. lp \in Nat /\ lp_supply \in Nat /\ supply["LP"] \in Nat
        BY <2>3, <2>4, Amounts64
      <4>2. lp_supply' = lp_supply - lp /\ supply'["LP"] = supply["LP"] - lp
        BY <2>2, <2>11
      <4>3. QED
        BY <4>1, <4>2
    <3>2. /\ balance["A"][Vault] \in Nat /\ balance["B"][Vault] \in Nat
          /\ balance'["A"][Vault] = balance["A"][Vault] - a
          /\ balance'["B"][Vault] = balance["B"][Vault] - b
      BY <2>2, <2>8, <2>10, Amounts64
    <3>3. \A t \in Tokens :
            reserve'[t] - reserve[t] = balance'[t][Vault] - balance[t][Vault]
      BY <2>4, <2>7, <2>12, <3>2 DEF Tokens
    <3>4. QED
      BY <2>2, <3>1, <3>3 DEF MovesBooks
  <2>18. QED
    BY <2>13, <2>14, <2>15, <2>16, <2>17 DEF KeepsInv
<1>3. QED
  BY <1>1, <1>2

LEMMA SwapKeepsInv ==
  ASSUME IInv, NEW u \in Users, NEW n \in Amounts, NEW min \in Minimums,
         NEW tin \in Tokens, Swap(u, n, min, tin)
  PROVE  KeepsInv /\ MovesBooks
<1> DEFINE checks == SwapChecks(u, n, min, tin)
           tout   == Other(tin)
           out    == AmountOut(n, tin)
           paid   == Transfer(Transfer(balance, tin, u, Vault, n), tout, Vault, u, out)
<1>1. CASE ~Passes(checks)
  BY <1>1, RejectedKeepsInv DEF Swap, Reject, Accept
<1>2. CASE Passes(checks)
  <2>1. /\ n # 0 /\ is_initialized /\ reserve["A"] # 0 /\ reserve["B"] # 0
        /\ out # None /\ out # 0
        /\ CanTransfer(tin, u, Vault, n) /\ CanTransfer(tout, Vault, u, out)
        /\ ~(reserve[tin] + n > MaxU64)
    BY <1>2, SwapAccepted
  <2>2. /\ balance' = paid
        /\ reserve' = [reserve EXCEPT ![tin] = @ + n, ![tout] = @ - out]
        /\ UNCHANGED <<data_len, is_initialized, lp_supply,
                       fee_numerator, fee_denominator, supply>>
    BY <1>2 DEF Swap, Reject, ReserveAfterSwap
  <2>3. /\ tout \in Tokens /\ tout # tin
        /\ tin = "A" => tout = "B"
        /\ tin = "B" => tout = "A"
        /\ \A t \in Tokens : t = tin \/ t = tout
    BY DEF Other, Tokens
  <2>4. /\ n \in U64 /\ reserve[tin] \in U64 /\ reserve[tout] \in U64
        /\ fee_numerator \in U64 /\ fee_denominator \in U64
        /\ fee_numerator < fee_denominator
    BY <2>1, <2>3, DexPoolAssumption, Amounts64 DEF IInv, SetUp
  <2>5. /\ out \in U64 /\ out < reserve[tout]
        /\ reserve[tin] * reserve[tout] <= (reserve[tin] + n) * (reserve[tout] - out)
    BY <2>1, <2>4, SwapIsFair DEF AmountOut
  <2> HIDE DEF tout, out, checks
  <2>6. /\ n \in Nat \ {0} /\ out \in Nat \ {0}
        /\ reserve[tin] \in Nat /\ reserve[tout] \in Nat
    BY <2>1, <2>4, <2>5, Amounts64
  <2>7. /\ balance \in [Mints -> [Accounts -> U64]]
        /\ tin \in Mints /\ tout \in Mints
        /\ u \in Accounts /\ Vault \in Accounts /\ u # Vault
    BY <2>3, Amounts64 DEF IInv, AmountsOK
  <2>8. /\ paid \in [Mints -> [Accounts -> U64]]
        /\ paid[tin][Vault] = balance[tin][Vault] + n
        /\ paid[tout][Vault] = balance[tout][Vault] - out
    <3>1. /\ n <= balance[tin][u] /\ balance[tin][Vault] + n <= MaxU64
          /\ out <= balance[tout][Vault] /\ balance[tout][u] + out <= MaxU64
      BY <2>1, <2>6, <2>7, Amounts64 DEF CanTransfer
    <3>2. /\ paid \in [Mints -> [Accounts -> U64]]
          /\ paid[tin][u] = balance[tin][u] - n
          /\ paid[tin][Vault] = balance[tin][Vault] + n
          /\ paid[tout][Vault] = balance[tout][Vault] - out
          /\ paid[tout][u] = balance[tout][u] + out
          /\ \A l \in Mints \ {tin, tout} : paid[l] = balance[l]
      BY <2>3, <2>6, <2>7, <3>1, TransfersOK, SMTT(60)
    <3>3. QED
      BY <3>2
  <2> HIDE DEF paid
  <2>9. /\ reserve'[tin] = reserve[tin] + n /\ reserve'[tout] = reserve[tout] - out
        /\ reserve' \in [Tokens -> 1..MaxU64] /\ reserve' \in [Tokens -> U64]
    <3>1. /\ reserve[tin] + n \in 1..MaxU64 /\ reserve[tout] - out \in 1..MaxU64
          /\ reserve \in [Tokens -> U64]
      BY <2>1, <2>4, <2>5, <2>6, MaxU64Assumption DEF IInv, AmountsOK, U64
    <3>2. /\ reserve'[tin] = reserve[tin] + n /\ reserve'[tout] = reserve[tout] - out
          /\ DOMAIN reserve' = Tokens /\ reserve' = [t \in Tokens |-> reserve'[t]]
      BY <2>2, <2>3, <2>6, <3>1
    <3>3. \A t \in Tokens : reserve'[t] \in 1..MaxU64 /\ reserve'[t] \in U64
      BY <2>3, <3>1, <3>2, MaxU64Assumption DEF U64
    <3>4. QED
      BY <3>2, <3>3
  <2>10. AmountsOK' /\ SetUp'
    BY <2>1, <2>2, <2>8, <2>9 DEF IInv, AmountsOK, SetUp
  <2>11. ReservesBacked'
    <3>1. /\ reserve[tin] <= balance[tin][Vault] /\ reserve[tout] <= balance[tout][Vault]
          /\ balance[tin][Vault] \in Nat /\ balance[tout][Vault] \in Nat
      BY <2>3, <2>7, Amounts64 DEF IInv, ReservesBacked
    <3>2. /\ reserve'[tin] <= balance'[tin][Vault]
          /\ reserve'[tout] <= balance'[tout][Vault]
      BY <2>2, <2>6, <2>8, <2>9, <3>1
    <3>3. QED
      BY <2>3, <3>2 DEF ReservesBacked
  <2>12. SharesBacked'
    BY <2>2 DEF IInv, SharesBacked
  <2>13. Fair!Product(reserve) <= Fair!Product(reserve')
    <3>1. reserve[tin] * reserve[tout] <= reserve'[tin] * reserve'[tout]
      BY <2>5, <2>9
    <3>2. CASE tin = "A"
      BY <2>3, <3>1, <3>2 DEF Fair!Product
    <3>3. CASE tin = "B"
      <4>1. /\ reserve["B"] * reserve["A"] = reserve["A"] * reserve["B"]
            /\ reserve'["B"] * reserve'["A"] = reserve'["A"] * reserve'["B"]
        BY <2>3, <2>6, <2>9, <3>3
      <4>2. QED
        BY <2>3, <3>1, <3>3, <4>1 DEF Fair!Product
    <3>4. QED
      BY <3>2, <3>3 DEF Tokens
  <2>14. Fair!Next
    <3>1. lp_supply > 0 /\ UNCHANGED lp_supply
      BY <2>1, <2>2, Amounts64
    <3>2. \E t, s \in Fair!Tokens : reserve'[t] > reserve[t] /\ reserve'[s] < reserve[s]
      BY <2>3, <2>6, <2>9 DEF Fair!Tokens, Tokens
    <3>3. Fair!Product(reserve') >= Fair!Product(reserve)
      <4>1. /\ reserve["A"] \in Nat /\ reserve["B"] \in Nat
            /\ reserve'["A"] \in Nat /\ reserve'["B"] \in Nat
        BY <2>9, Amounts64, MaxU64Assumption DEF U64, Tokens
      <4>2. QED
        BY <2>13, <4>1 DEF Fair!Product
    <3>4. Fair!Trade
      BY <2>9, <3>1, <3>2, <3>3 DEF Fair!Trade, Fair!Tokens, Fair!Positive, Tokens
    <3>5. QED
      BY <3>4 DEF Fair!Next
  <2>15. MovesBooks
    <3>1. lp_supply' - lp_supply = supply'["LP"] - supply["LP"]
      BY <2>2, Amounts64
    <3>2. /\ balance[tin][Vault] \in Nat /\ balance[tout][Vault] \in Nat
          /\ balance'[tin][Vault] = balance[tin][Vault] + n
          /\ balance'[tout][Vault] = balance[tout][Vault] - out
      BY <2>2, <2>7, <2>8, Amounts64
    <3>3. \A t \in Tokens :
            reserve'[t] - reserve[t] = balance'[t][Vault] - balance[t][Vault]
      BY <2>3, <2>6, <2>9, <3>2
    <3>4. QED
      BY <2>2, <3>1, <3>3 DEF MovesBooks
  <2>16. QED
    BY <2>10, <2>11, <2>12, <2>14, <2>15 DEF KeepsInv
<1>3. QED
  BY <1>1, <1>2

LEMMA DirectTransferKeepsInv ==
  ASSUME IInv, NEW m \in DirectTransfers, NEW from \in Users, NEW to \in Accounts,
         NEW n \in Amounts, DirectTransfer(m, from, to, n)
  PROVE  KeepsInv
<1>1. /\ from # to /\ n \in Nat /\ n <= balance[m][from] /\ balance[m][to] + n <= MaxU64
      /\ m \in Mints /\ from \in Accounts /\ from # Vault
      /\ balance \in [Mints -> [Accounts -> U64]]
      /\ balance' = Transfer(balance, m, from, to, n)
      /\ UNCHANGED <<poolVars, supply>>
  BY DexPoolAssumption, Amounts64 DEF DirectTransfer, CanTransfer, IInv, AmountsOK
<1>2. /\ balance' \in [Mints -> [Accounts -> U64]]
      /\ balance'[m][to] = balance[m][to] + n
      /\ \A k \in Mints : k # m => balance'[k] = balance[k]
      /\ \A a \in Accounts \ {from, to} : balance'[m][a] = balance[m][a]
  BY <1>1, TransferOK
<1>3. \A t \in Tokens : balance[t][Vault] <= balance'[t][Vault]
  <2> SUFFICES ASSUME NEW t \in Tokens
               PROVE  balance[t][Vault] <= balance'[t][Vault]
    OBVIOUS
  <2>1. t \in Mints /\ Vault \in Accounts /\ balance[t][Vault] \in Nat
    BY Amounts64
  <2>2. CASE t # m
    BY <1>2, <2>1, <2>2
  <2>3. CASE t = m /\ to = Vault
    BY <1>1, <1>2, <2>1, <2>3
  <2>4. CASE t = m /\ to # Vault
    BY <1>1, <1>2, <2>1, <2>4
  <2>5. QED
    BY <2>2, <2>3, <2>4
<1>4. ReservesBacked'
  <2>1. \A t \in Tokens : /\ reserve[t] \in Nat /\ balance[t][Vault] \in Nat
                          /\ balance'[t][Vault] \in Nat
    BY <1>2, Amounts64
  <2>2. QED
    BY <1>1, <1>3, <2>1 DEF IInv, ReservesBacked, poolVars
<1>5. QED
  BY <1>1, <1>2, <1>4
     DEF IInv, KeepsInv, AmountsOK, SetUp, SharesBacked, poolVars, Fair!vars

LEMMA DirectBurnKeepsInv ==
  ASSUME IInv, NEW m \in DirectBurns, NEW from \in Users, NEW n \in Amounts,
         DirectBurn(m, from, n)
  PROVE  KeepsInv
<1>1. /\ n \in Nat /\ n <= balance[m][from] /\ n <= supply[m]
      /\ m \in Mints /\ from \in Accounts /\ from # Vault
      /\ balance \in [Mints -> [Accounts -> U64]] /\ supply \in [Mints -> U64]
      /\ balance' = [balance EXCEPT ![m][from] = @ - n]
      /\ supply' = [supply EXCEPT ![m] = @ - n]
      /\ UNCHANGED poolVars
  BY DexPoolAssumption, Amounts64 DEF DirectBurn, CanBurn, IInv, AmountsOK
<1>2. balance[m][from] - n \in U64 /\ supply[m] - n \in U64
  BY <1>1, Amounts64, MaxU64Assumption DEF U64
<1>3. balance' \in [Mints -> [Accounts -> U64]] /\ supply' \in [Mints -> U64]
  BY <1>1, <1>2
<1>4. \A t \in Tokens : balance'[t][Vault] = balance[t][Vault]
  BY <1>1, Amounts64
<1>5. ReservesBacked'
  BY <1>1, <1>4 DEF IInv, ReservesBacked, poolVars
<1>6. SharesBacked'
  <2>1. supply["LP"] \in Nat /\ lp_supply \in Nat /\ supply["LP"] <= lp_supply
    BY Amounts64 DEF IInv, SharesBacked
  <2>2. supply'["LP"] <= supply["LP"]
    BY <1>1, <2>1, Amounts64
  <2>3. supply'["LP"] \in Nat
    BY <1>3, Amounts64
  <2>4. QED
    BY <1>1, <2>1, <2>2, <2>3 DEF SharesBacked, poolVars
<1>7. QED
  BY <1>1, <1>3, <1>5, <1>6
     DEF IInv, KeepsInv, AmountsOK, SetUp, poolVars, Fair!vars

-----------------------------------------------------------------------------
(* What users do without the program.                                      *)
DirectCall ==
  \/ \E m \in DirectTransfers, from \in Users, to \in Accounts, n \in Amounts :
       DirectTransfer(m, from, to, n)
  \/ \E m \in DirectBurns, from \in Users, n \in Amounts : DirectBurn(m, from, n)

LEMMA NextKeepsInv ==
  ASSUME IInv, DocumentedSizes, [Next]_vars
  PROVE  KeepsInv /\ (MovesBooks \/ DirectCall)
<1>1. CASE UNCHANGED vars
  BY <1>1, RejectedKeepsInv DEF vars, poolVars, tokenVars
<1>2. ASSUME NEW fee \in Fees, NEW derived \in BOOLEAN,
             InitializePool(fee[1], fee[2], derived)
      PROVE  KeepsInv /\ MovesBooks
  BY <1>2, InitializeKeepsInv
<1>3. ASSUME NEW u \in Users, NEW a \in Amounts, NEW b \in Amounts,
             NEW min \in Minimums, AddLiquidity(u, a, b, min)
      PROVE  KeepsInv /\ MovesBooks
  BY <1>3, AddKeepsInv
<1>4. ASSUME NEW u \in Users, NEW lp \in Amounts, NEW min_a \in Minimums,
             NEW min_b \in Minimums, RemoveLiquidity(u, lp, min_a, min_b)
      PROVE  KeepsInv /\ MovesBooks
  BY <1>4, RemoveKeepsInv
<1>5. ASSUME NEW u \in Users, NEW n \in Amounts, NEW min \in Minimums,
             NEW t \in Tokens, Swap(u, n, min, t)
      PROVE  KeepsInv /\ MovesBooks
  BY <1>5, SwapKeepsInv
<1>6. CASE GetPoolInfo
  BY <1>6, RejectedKeepsInv DEF GetPoolInfo, Reject
<1>7. ASSUME NEW m \in DirectTransfers, NEW from \in Users, NEW to \in Accounts,
             NEW n \in Amounts, DirectTransfer(m, from, to, n)
      PROVE  KeepsInv /\ DirectCall
  BY <1>7, DirectTransferKeepsInv DEF DirectCall
<1>8. ASSUME NEW m \in DirectBurns, NEW from \in Users, NEW n \in Amounts,
             DirectBurn(m, from, n)
      PROVE  KeepsInv /\ DirectCall
  BY <1>8, DirectBurnKeepsInv DEF DirectCall
<1>9. QED
  BY <1>1, <1>2, <1>3, <1>4, <1>5, <1>6, <1>7, <1>8 DEF Next

LEMMA InitIInv == Init => IInv
<1> SUFFICES ASSUME Init PROVE IInv
  OBVIOUS
<1>1. NumUsers * Endowment \in U64 /\ Endowment \in U64 /\ 0 \in U64
  BY DexPoolAssumption, MaxU64Assumption DEF U64
<1>2. AmountsOK
  BY <1>1 DEF Init, AmountsOK
<1>3. SetUp
  BY DEF Init, SetUp
<1>4. ReservesBacked /\ SharesBacked
  BY DEF Init, ReservesBacked, SharesBacked, Mints, Tokens, Accounts, Users, Vault
<1>5. Fair!IInv
  BY MaxU64Assumption, Fair!InitIInv DEF Init, Fair!Init, Tokens, Fair!Tokens
<1>6. QED
  BY <1>2, <1>3, <1>4, <1>5 DEF IInv

LEMMA StepIInv ==
  ASSUME IInv, DocumentedSizes, [Next]_vars
  PROVE  IInv'
<1>1. KeepsInv
  BY NextKeepsInv
<1>2. Fair!IInv'
  BY <1>1, MaxU64Assumption, Fair!StepIInv DEF IInv, KeepsInv
<1>3. QED
  BY <1>1, <1>2 DEF IInv, KeepsInv

(* The inductive invariant of the program.                                 *)
THEOREM DexPoolInvariant ==
  ASSUME DocumentedSizes
  PROVE  Spec => []IInv
BY InitIInv, StepIInv, PTL DEF Spec

(* The vaults always cover the reserves.                                   *)
THEOREM DexPoolReservesBacked ==
  ASSUME DocumentedSizes
  PROVE  Spec => []ReservesBacked
<1>1. IInv => ReservesBacked
  BY DEF IInv
<1>2. QED
  BY <1>1, DexPoolInvariant, PTL

(* Every share that exists is one the pool counts.                         *)
THEOREM DexPoolSharesBacked ==
  ASSUME DocumentedSizes
  PROVE  Spec => []SharesBacked
<1>1. IInv => SharesBacked
  BY DEF IInv
<1>2. QED
  BY <1>1, DexPoolInvariant, PTL

(* No reserves without shares, no shares without reserves.                 *)
THEOREM DexPoolEmptyTogether ==
  ASSUME DocumentedSizes
  PROVE  Spec => []EmptyTogether
<1>1. IInv => EmptyTogether
  BY DEF IInv, Fair!IInv, EmptyTogether, Fair!EmptyTogether, Abstract!EmptyTogether,
         Fair!Tokens, Abstract!Tokens
<1>2. QED
  BY <1>1, DexPoolInvariant, PTL

(* No more shares than the geometric mean of the reserves.                 *)
THEOREM DexPoolSharesBounded ==
  ASSUME DocumentedSizes
  PROVE  Spec => []SharesBoundedByReserves
<1>1. IInv => SharesBoundedByReserves
  BY DEF IInv, Fair!IInv, SharesBoundedByReserves, Fair!SharesBoundedByReserves,
         Abstract!SharesBoundedByReserves, Fair!Product, Abstract!Product
<1>2. QED
  BY <1>1, DexPoolInvariant, PTL

(* The program implements FairPool: each instruction, and each direct call *)
(* to the token program, is a step of it or leaves its state alone.        *)
THEOREM DexPoolImplementsFairPool ==
  ASSUME DocumentedSizes
  PROVE  Spec => ImplementsFairPool
<1>1. Init => Abstract!Init
  BY DEF Init, Abstract!Init, Tokens, Abstract!Tokens
<1>2. [Fair!Next]_(Fair!vars) => [Abstract!Next]_(Abstract!vars)
  BY DEF Fair!Next, Fair!vars, Fair!FirstDeposit, Fair!Deposit, Fair!Withdraw,
         Fair!WithdrawAll, Fair!Trade, Fair!KeepsEachShare, Fair!Product,
         Fair!Tokens, Fair!Positive,
         Abstract!Next, Abstract!vars, Abstract!FirstDeposit, Abstract!Deposit,
         Abstract!Withdraw, Abstract!WithdrawAll, Abstract!Trade,
         Abstract!KeepsEachShare, Abstract!Product, Abstract!Tokens, Abstract!Positive
<1>3. IInv /\ [Next]_vars => [Abstract!Next]_(Abstract!vars)
  BY <1>2, NextKeepsInv DEF KeepsInv
<1>4. QED
  BY <1>1, <1>3, DexPoolInvariant, PTL DEF Spec, ImplementsFairPool, Abstract!Spec

(* Nobody can lower the value of the shares of others.                     *)
THEOREM DexPoolNoDilution ==
  ASSUME DocumentedSizes
  PROVE  Spec => NoDilution
<1>1. IInv /\ IInv' /\ [Next]_vars => [Abstract!ShareValueStep]_(Abstract!vars)
  <2> SUFFICES ASSUME IInv, IInv', [Next]_vars
               PROVE  [Abstract!ShareValueStep]_(Abstract!vars)
    OBVIOUS
  <2>1. [Fair!Next]_(Fair!vars)
    BY NextKeepsInv DEF KeepsInv
  <2>2. CASE UNCHANGED Fair!vars
    BY <2>2 DEF Fair!vars, Abstract!vars
  <2>3. CASE Fair!Next
    <3>1. Fair!ShareValueStep
      BY <2>3, MaxU64Assumption, Fair!StepKeepsValue DEF IInv, Fair!IInv
    <3>2. QED
      BY <3>1 DEF Fair!ShareValueStep, Fair!Product,
                  Abstract!ShareValueStep, Abstract!Product
  <2>4. QED
    BY <2>1, <2>2, <2>3
<1>2. QED
  BY <1>1, DexPoolInvariant, PTL DEF Spec, NoDilution, Abstract!NoDilution

(* A direct call changes none of the pool's fields, and no vault and no    *)
(* supply of a mint that users do not call the token program for.          *)
LEMMA DirectCallMoves ==
  ASSUME IInv, DirectCall
  PROVE  /\ UNCHANGED poolVars
         /\ \A t \in Tokens \ DirectTransfers : balance'[t][Vault] = balance[t][Vault]
         /\ "LP" \notin DirectBurns => supply'["LP"] = supply["LP"]
<1> USE Amounts64
<1>1. balance \in [Mints -> [Accounts -> U64]] /\ supply \in [Mints -> U64]
  BY DEF IInv, AmountsOK
<1>2. CASE \E m \in DirectTransfers, from \in Users, to \in Accounts, n \in Amounts :
             DirectTransfer(m, from, to, n)
  BY <1>1, <1>2, DexPoolAssumption DEF DirectTransfer, Transfer
<1>3. CASE \E m \in DirectBurns, from \in Users, n \in Amounts : DirectBurn(m, from, n)
  BY <1>1, <1>3, DexPoolAssumption DEF DirectBurn
<1>4. QED
  BY <1>2, <1>3 DEF DirectCall

MatchingReserves == \A t \in Tokens : reserve[t] = balance[t][Vault]

(* While users send no token of the pool to its vaults themselves, the     *)
(* reserves the pool caches are what is in the vaults.                     *)
THEOREM DexPoolReservesMatch ==
  ASSUME DocumentedSizes, DirectTransfers \cap Tokens = {}
  PROVE  Spec => []ReservesMatchVaults
<1>1. Init => MatchingReserves
  BY DEF Init, MatchingReserves, Mints, Tokens, Accounts, Users, Vault
<1>2. ASSUME IInv, IInv', MatchingReserves, [Next]_vars
      PROVE  MatchingReserves'
  <2>1. CASE MovesBooks
    <3>1. \A t \in Tokens : /\ reserve[t] \in Nat /\ balance[t][Vault] \in Nat
                            /\ reserve'[t] \in Nat /\ balance'[t][Vault] \in Nat
      BY <1>2, Amounts64, MaxU64Assumption
         DEF IInv, AmountsOK, U64, Tokens, Mints, Accounts, Vault
    <3>2. QED
      BY <1>2, <2>1, <3>1 DEF MatchingReserves, MovesBooks
  <2>2. CASE DirectCall
    BY <1>2, <2>2, DirectCallMoves DEF MatchingReserves, poolVars
  <2>3. QED
    BY <1>2, <2>1, <2>2, NextKeepsInv
<1>3. MatchingReserves => ReservesMatchVaults
  BY DEF MatchingReserves, ReservesMatchVaults
<1>4. QED
  BY <1>1, <1>2, <1>3, DexPoolInvariant, PTL DEF Spec

(* While users burn no LP token themselves, the shares the pool counts are *)
(* those that exist.  Neither this nor the last needs the other: burning   *)
(* shares does not touch the vaults.                                       *)
THEOREM DexPoolSharesMatch ==
  ASSUME DocumentedSizes, "LP" \notin DirectBurns
  PROVE  Spec => []LpSupplyMatchesMint
<1>1. Init => LpSupplyMatchesMint
  BY DEF Init, LpSupplyMatchesMint, Mints, Tokens
<1>2. ASSUME IInv, IInv', LpSupplyMatchesMint, [Next]_vars
      PROVE  LpSupplyMatchesMint'
  <2>1. CASE MovesBooks
    <3>1. /\ lp_supply \in Nat /\ supply["LP"] \in Nat
          /\ lp_supply' \in Nat /\ supply'["LP"] \in Nat
      BY <1>2, MaxU64Assumption DEF IInv, AmountsOK, U64, Mints
    <3>2. QED
      BY <1>2, <2>1, <3>1 DEF LpSupplyMatchesMint, MovesBooks
  <2>2. CASE DirectCall
    BY <1>2, <2>2, DirectCallMoves DEF LpSupplyMatchesMint, poolVars
  <2>3. QED
    BY <1>2, <2>1, <2>2, NextKeepsInv
<1>3. QED
  BY <1>1, <1>2, DexPoolInvariant, PTL DEF Spec

OnceStep ==
  is_initialized =>
    /\ UNCHANGED <<is_initialized, fee_numerator, fee_denominator>>
    /\ lp_supply' < lp_supply => supply'["LP"] < supply["LP"]
    /\ \A t \in Tokens :
         reserve'[t] < reserve[t] => balance'[t][Vault] < balance[t][Vault]

(* A pool is set up once: its fee is final, and reserves and shares leave  *)
(* its books only when they leave the vaults and the mint.                 *)
THEOREM DexPoolInitializedOnce ==
  ASSUME DocumentedSizes
  PROVE  Spec => InitializedOnce
<1>1. ASSUME IInv, IInv', [Next]_vars
      PROVE  OnceStep
  <2>1. /\ lp_supply \in Nat /\ supply["LP"] \in Nat
        /\ lp_supply' \in Nat /\ supply'["LP"] \in Nat
        /\ \A t \in Tokens : /\ reserve[t] \in Nat /\ balance[t][Vault] \in Nat
                              /\ reserve'[t] \in Nat /\ balance'[t][Vault] \in Nat
    BY <1>1, MaxU64Assumption
       DEF IInv, AmountsOK, U64, Tokens, Mints, Accounts, Vault
  <2>2. CASE MovesBooks
    BY <2>1, <2>2 DEF MovesBooks, OnceStep
  <2>3. CASE DirectCall
    BY <1>1, <2>1, <2>3, DirectCallMoves DEF OnceStep, poolVars
  <2>4. QED
    BY <1>1, <2>2, <2>3, NextKeepsInv
<1>2. QED
  BY <1>1, DexPoolInvariant, PTL DEF Spec, InitializedOnce, OnceStep

-----------------------------------------------------------------------------
Named == result \in Results \cup {"none"}

(* An instruction returns Ok or the error of its first failing check.      *)
LEMMA ChecksGiveNamed ==
  ASSUME NEW n \in Nat, NEW checks, DOMAIN checks = 1..n,
         \A i \in 1..n : checks[i] \in Results,
         Reject(checks) \/ Accept(checks)
  PROVE  result' \in Results
<1> SUFFICES ASSUME Reject(checks) PROVE result' \in Results
  BY DEF Accept, Results
<1>1. Failed(checks) \subseteq Nat /\ Failed(checks) # {} /\ Failed(checks) \subseteq 1..n
  BY DEF Reject, Passes, Failed
<1>2. \E i \in Failed(checks) : \A j \in Failed(checks) : i <= j
  BY <1>1, LeastNat
<1>3. FirstFailed(checks) \in Failed(checks)
  BY <1>2 DEF FirstFailed
<1>4. QED
  BY <1>1, <1>3 DEF Reject

LEMMA ResultIsNamed ==
  ASSUME Named, [Next]_vars
  PROVE  Named'
<1>1. ASSUME NEW fee, NEW derived, InitializePool(fee[1], fee[2], derived)
      PROVE  result' \in Results
  <2> DEFINE checks == InitChecks(fee[1], fee[2], derived)
  <2>1. DOMAIN checks = 1..4
    BY DEF InitChecks
  <2>2. \A i \in 1..4 : checks[i] \in Results
    BY DEF Check, Results, DexErrors, ProgramErrors, InitChecks
  <2>3. Reject(checks) \/ Accept(checks)
    BY <1>1 DEF InitializePool
  <2> HIDE DEF checks
  <2>4. QED
    BY <2>1, <2>2, <2>3, ChecksGiveNamed
<1>2. ASSUME NEW u, NEW a, NEW b, NEW min, AddLiquidity(u, a, b, min)
      PROVE  result' \in Results
  <2> DEFINE checks == AddChecks(u, a, b, min)
  <2>1. DOMAIN checks = 1..10
    BY DEF AddChecks
  <2>2. \A i \in 1..10 : checks[i] \in Results
    BY DEF Check, Results, DexErrors, ProgramErrors, AddChecks
  <2>3. Reject(checks) \/ Accept(checks)
    BY <1>2 DEF AddLiquidity
  <2> HIDE DEF checks
  <2>4. QED
    BY <2>1, <2>2, <2>3, ChecksGiveNamed
<1>3. ASSUME NEW u, NEW lp, NEW min_a, NEW min_b, RemoveLiquidity(u, lp, min_a, min_b)
      PROVE  result' \in Results
  <2> DEFINE checks == RemoveChecks(u, lp, min_a, min_b)
  <2>1. DOMAIN checks = 1..9
    BY DEF RemoveChecks
  <2>2. \A i \in 1..9 : checks[i] \in Results
    BY DEF Check, Results, DexErrors, ProgramErrors, RemoveChecks
  <2>3. Reject(checks) \/ Accept(checks)
    BY <1>3 DEF RemoveLiquidity
  <2> HIDE DEF checks
  <2>4. QED
    BY <2>1, <2>2, <2>3, ChecksGiveNamed
<1>4. ASSUME NEW u, NEW n, NEW min, NEW t, Swap(u, n, min, t)
      PROVE  result' \in Results
  <2> DEFINE checks == SwapChecks(u, n, min, t)
  <2>1. DOMAIN checks = 1..10
    BY DEF SwapChecks
  <2>2. \A i \in 1..10 : checks[i] \in Results
    BY DEF Check, Results, DexErrors, ProgramErrors, SwapChecks
  <2>3. Reject(checks) \/ Accept(checks)
    BY <1>4 DEF Swap
  <2> HIDE DEF checks
  <2>4. QED
    BY <2>1, <2>2, <2>3, ChecksGiveNamed
<1>5. CASE GetPoolInfo
  <2>1. DOMAIN InfoChecks = 1..2
    BY DEF InfoChecks
  <2>2. \A i \in 1..2 : InfoChecks[i] \in Results
    BY DEF Check, Results, DexErrors, ProgramErrors, InfoChecks
  <2>3. Reject(InfoChecks) \/ Accept(InfoChecks)
    BY <1>5 DEF GetPoolInfo
  <2>4. QED
    BY <2>1, <2>2, <2>3, ChecksGiveNamed DEF Named
<1>6. ASSUME NEW m, NEW from, NEW to, NEW n,
             DirectTransfer(m, from, to, n) \/ DirectBurn(m, from, n)
      PROVE  Named'
  BY <1>6 DEF Named, DirectTransfer, DirectBurn
<1>7. CASE UNCHANGED vars
  BY <1>7 DEF Named, vars
<1>8. Results \subseteq Results \cup {"none"}
  OBVIOUS
<1>9. QED
  BY <1>1, <1>2, <1>3, <1>4, <1>5, <1>6, <1>7, <1>8 DEF Named, Next

(* Every amount stays a u64, whatever the instructions and whatever their  *)
(* order: no update of the pool or of a token account ever wraps.          *)
THEOREM DexPoolTypeOK ==
  ASSUME DocumentedSizes
  PROVE  Spec => []TypeOK
<1>1. Init => Named
  BY DEF Init, Named
<1>2. Named /\ [Next]_vars => Named'
  BY ResultIsNamed
<1>3. IInv /\ Named => TypeOK
  BY DEF IInv, AmountsOK, TypeOK, Named
<1>4. QED
  BY <1>1, <1>2, <1>3, DexPoolInvariant, PTL DEF Spec

-----------------------------------------------------------------------------
(***************************************************************************)
(* What the holders of shares can rely on: the program's own arithmetic    *)
(* never stands in the way of an instruction, and every share can be       *)
(* redeemed.  The second rests on the token program conserving tokens:     *)
(* what two accounts hold together is never more than there is.            *)
(***************************************************************************)
LEMMA AccountRange ==
  /\ NumUsers \in Nat \ {0}
  /\ Accounts = 0..NumUsers /\ Users = 1..NumUsers
BY DexPoolAssumption DEF Accounts, Users, Vault

-----------------------------------------------------------------------------
(* The token program's books: what the accounts of a mint hold adds up to  *)
(* its supply.                                                             *)
Sums(bal, sup) == \A m \in Mints : SumsTo(bal[m], NumUsers, sup[m])

LEMMA TransferKeepsSums ==
  ASSUME NEW bal \in [Mints -> [Accounts -> U64]], NEW sup \in [Mints -> U64],
         Sums(bal, sup),
         NEW m \in Mints, NEW from \in Accounts, NEW to \in Accounts,
         NEW n \in Nat, from # to, n <= bal[m][from], bal[m][to] + n <= MaxU64
  PROVE  LET moved == Transfer(bal, m, from, to, n)
         IN  moved \in [Mints -> [Accounts -> U64]] /\ Sums(moved, sup)
<1> DEFINE once  == [bal[m] EXCEPT ![from] = @ + (-n)]
           twice == [once EXCEPT ![to] = @ + n]
           moved == Transfer(bal, m, from, to, n)
<1>1. /\ moved \in [Mints -> [Accounts -> U64]]
      /\ moved[m][from] = bal[m][from] - n /\ moved[m][to] = bal[m][to] + n
      /\ \A k \in Mints : k # m => moved[k] = bal[k]
      /\ \A a \in Accounts \ {from, to} : moved[m][a] = bal[m][a]
  BY TransferOK
<1> HIDE DEF moved
<1>2. /\ bal[m] \in [Accounts -> U64] /\ bal[m] \in [Accounts -> Nat]
      /\ bal[m][from] \in Nat /\ bal[m][to] \in Nat /\ sup[m] \in Int
  BY MaxU64Assumption DEF U64
<1>3. once \in [Accounts -> Nat] /\ SumsTo(once, NumUsers, sup[m] + (-n))
  <2>1. SumsTo(bal[m], NumUsers, sup[m])
    BY DEF Sums
  <2>2. once \in [Accounts -> Nat]
    BY <1>2
  <2>3. -n \in Int
    OBVIOUS
  <2> HIDE DEF once
  <2>4. SumsTo([bal[m] EXCEPT ![from] = @ + (-n)], NumUsers, sup[m] + (-n))
    BY <1>2, <2>1, <2>3, ChangeOne, AccountRange
  <2>5. QED
    BY <2>2, <2>4 DEF once
<1>4. SumsTo(twice, NumUsers, sup[m])
  <2>1. SumsTo(twice, NumUsers, (sup[m] + (-n)) + n)
    <3> HIDE DEF once
    <3>1. sup[m] + (-n) \in Int /\ n \in Int
      BY <1>2
    <3>2. QED
      BY <1>3, <3>1, ChangeOne, AccountRange
  <2>2. (sup[m] + (-n)) + n = sup[m]
    BY <1>2
  <2>3. QED
    BY <2>1, <2>2
<1>5. moved[m] = twice
  <2>1. moved[m] \in [Accounts -> U64] /\ twice \in [Accounts -> Int]
    BY <1>1, <1>2
  <2>2. ASSUME NEW a \in Accounts PROVE moved[m][a] = twice[a]
    BY <1>1, <1>2
  <2>3. QED
    BY <2>1, <2>2
<1>6. QED
  BY <1>1, <1>4, <1>5 DEF Sums, moved

(* Minting to an account, or burning from it.                              *)
LEMMA IssueKeepsSums ==
  ASSUME NEW bal \in [Mints -> [Accounts -> U64]], NEW sup \in [Mints -> U64],
         Sums(bal, sup),
         NEW m \in Mints, NEW a \in Accounts, NEW d \in Int,
         bal[m][a] + d \in U64, sup[m] + d \in U64,
         NEW bal2, bal2 = [bal EXCEPT ![m][a] = @ + d],
         NEW sup2, sup2 = [sup EXCEPT ![m] = @ + d]
  PROVE  bal2 \in [Mints -> [Accounts -> U64]] /\ sup2 \in [Mints -> U64] /\ Sums(bal2, sup2)
<1>1. bal[m] \in [Accounts -> Nat] /\ sup[m] \in Int /\ SumsTo(bal[m], NumUsers, sup[m])
  BY MaxU64Assumption DEF U64, Sums
<1>2. SumsTo([bal[m] EXCEPT ![a] = @ + d], NumUsers, sup[m] + d)
  BY <1>1, ChangeOne, AccountRange
<1>3. /\ bal2[m] = [bal[m] EXCEPT ![a] = @ + d]
      /\ \A k \in Mints : k # m => bal2[k] = bal[k]
  OBVIOUS
<1>4. sup2[m] = sup[m] + d /\ \A k \in Mints : k # m => sup2[k] = sup[k]
  OBVIOUS
<1>5. bal2 \in [Mints -> [Accounts -> U64]] /\ sup2 \in [Mints -> U64]
  OBVIOUS
<1>6. QED
  BY <1>2, <1>3, <1>4, <1>5 DEF Sums

-----------------------------------------------------------------------------
(* What else the invariant needs: a pool that is set up can be parsed.     *)
HInv ==
  /\ Sums(balance, supply)
  /\ is_initialized => Parses

LEMMA Books64 ==
  ASSUME IInv
  PROVE  balance \in [Mints -> [Accounts -> U64]] /\ supply \in [Mints -> U64]
BY DEF IInv, AmountsOK

LEMMA AddKeepsHInv ==
  ASSUME IInv, IInv', HInv, NEW u \in Users, NEW a \in Amounts, NEW b \in Amounts,
         NEW min \in Minimums, AddLiquidity(u, a, b, min)
  PROVE  HInv'
<1> DEFINE lp     == LpTokens(a, b)
           paid_a == Transfer(balance, "A", u, Vault, a)
           paid   == Transfer(paid_a, "B", u, Vault, b)
<1>1. CASE ~Passes(AddChecks(u, a, b, min))
  BY <1>1 DEF AddLiquidity, Reject, Accept, HInv, poolVars, tokenVars, Parses
<1>2. CASE Passes(AddChecks(u, a, b, min))
  <2>1. /\ lp # None
        /\ CanTransfer("A", u, Vault, a) /\ CanTransfer("B", u, Vault, b)
        /\ CanMint("LP", u, lp)
    BY <1>2, AddAccepted
  <2>2. /\ balance' = [paid EXCEPT !["LP"][u] = @ + lp]
        /\ supply' = [supply EXCEPT !["LP"] = @ + lp]
        /\ UNCHANGED <<data_len, is_initialized>>
    BY <1>2 DEF AddLiquidity, Reject
  <2>3. /\ "A" \in Mints /\ "B" \in Mints /\ "LP" \in Mints
        /\ u \in Accounts /\ Vault \in Accounts /\ u # Vault
        /\ a \in Nat /\ b \in Nat
    BY Amounts64, DexPoolAssumption
  <2>4. PICK mid \in [Mints -> [Accounts -> U64]] :
          mid = paid_a /\ Sums(mid, supply) /\ mid["B"] = balance["B"]
                       /\ mid["LP"] = balance["LP"]
    <3>1. a <= balance["A"][u] /\ balance["A"][Vault] + a <= MaxU64
      BY <2>1, <2>3, Amounts64 DEF CanTransfer
    <3>2. paid_a \in [Mints -> [Accounts -> U64]] /\ Sums(paid_a, supply)
      BY <2>3, <3>1, Books64, TransferKeepsSums DEF HInv
    <3>3. paid_a["B"] = balance["B"] /\ paid_a["LP"] = balance["LP"]
      BY <2>3, Books64 DEF Transfer
    <3>4. QED
      BY <3>2, <3>3
  <2>5. PICK end \in [Mints -> [Accounts -> U64]] :
          end = paid /\ Sums(end, supply) /\ end["LP"] = balance["LP"]
    <3>1. b <= mid["B"][u] /\ mid["B"][Vault] + b <= MaxU64
      BY <2>1, <2>3, <2>4, Amounts64 DEF CanTransfer
    <3>2. paid = Transfer(mid, "B", u, Vault, b)
      BY <2>4
    <3> HIDE DEF paid, paid_a
    <3>3. paid \in [Mints -> [Accounts -> U64]] /\ Sums(paid, supply)
      BY <2>3, <2>4, <3>1, <3>2, Books64, TransferKeepsSums
    <3>4. paid["LP"] = balance["LP"]
      BY <2>3, <2>4, <3>2 DEF Transfer
    <3>5. QED
      BY <3>3, <3>4
  <2> HIDE DEF paid, paid_a, lp
  <2>6. balance'["LP"][u] \in U64 /\ supply'["LP"] \in U64
    BY <2>3 DEF IInv, AmountsOK
  <2>7. lp \in Int
    BY <2>1, SharesAreFair, MaxU64Assumption DEF lp, U64
  <2>8. end["LP"][u] + lp \in U64 /\ supply["LP"] + lp \in U64
    BY <2>2, <2>3, <2>5, <2>6, Books64
  <2>9. balance' = [end EXCEPT !["LP"][u] = @ + lp]
    BY <2>2, <2>5
  <2>10. Sums(balance', supply')
    <3>1. PICK m \in Mints : m = "LP"
      BY <2>3
    <3>6. PICK bal2, sup2 : bal2 = balance' /\ sup2 = supply'
      OBVIOUS
    <3>2. /\ bal2 = [end EXCEPT ![m][u] = @ + lp] /\ sup2 = [supply EXCEPT ![m] = @ + lp]
          /\ end[m][u] + lp \in U64 /\ supply[m] + lp \in U64
      BY <2>2, <2>8, <2>9, <3>1, <3>6
    <3>3. supply \in [Mints -> U64] /\ Sums(end, supply) /\ u \in Accounts
      BY <2>3, <2>5, Books64
    <3>4. Sums(bal2, sup2)
      BY <2>7, <3>2, <3>3, IssueKeepsSums
    <3>5. QED
      BY <3>6, <3>4
  <2>11. QED
    BY <2>2, <2>10 DEF HInv, Parses
<1>3. QED
  BY <1>1, <1>2

(* What a withdrawal computes is within the reserve.                       *)
LEMMA RemovalPaid ==
  ASSUME IInv, NEW t \in Tokens, NEW lp \in U64, lp # 0, lp <= lp_supply,
         Removal(t, lp) # None
  PROVE  Removal(t, lp) \in U64 /\ Removal(t, lp) <= reserve[t]
<1>1. PICK r, S, out :
        /\ r \in U64 /\ S \in U64 \ {0}
        /\ r = reserve[t] /\ S = lp_supply /\ out = Removal(t, lp)
  BY Amounts64
<1>2. out = RemovalAmount(lp, r, S) /\ out # None /\ lp <= S
  BY <1>1 DEF Removal
<1>3. out \in U64 /\ out <= r
  BY <1>1, <1>2, RemovalIsFair
<1>4. QED
  BY <1>1, <1>3

LEMMA RemoveKeepsHInv ==
  ASSUME IInv, HInv, NEW u \in Users, NEW lp \in Amounts,
         NEW min_a \in Minimums, NEW min_b \in Minimums,
         RemoveLiquidity(u, lp, min_a, min_b)
  PROVE  HInv'
<1> DEFINE a      == Removal("A", lp)
           b      == Removal("B", lp)
           burned == [balance EXCEPT !["LP"][u] = @ - lp]
           paid_a == Transfer(burned, "A", Vault, u, a)
           paid   == Transfer(paid_a, "B", Vault, u, b)
<1>1. CASE ~Passes(RemoveChecks(u, lp, min_a, min_b))
  BY <1>1 DEF RemoveLiquidity, Reject, Accept, HInv, poolVars, tokenVars, Parses
<1>2. CASE Passes(RemoveChecks(u, lp, min_a, min_b))
  <2>1. /\ lp # 0 /\ a # None /\ b # None /\ CanBurn("LP", u, lp)
        /\ CanTransfer("A", Vault, u, a) /\ CanTransfer("B", Vault, u, b)
        /\ ~(lp > lp_supply)
    BY <1>2, RemoveAccepted
  <2>2. /\ balance' = paid
        /\ supply' = [supply EXCEPT !["LP"] = @ - lp]
        /\ UNCHANGED <<data_len, is_initialized>>
    BY <1>2 DEF RemoveLiquidity, Reject
  <2>3. /\ "A" \in Mints /\ "B" \in Mints /\ "LP" \in Mints
        /\ u \in Accounts /\ Vault \in Accounts /\ u # Vault
        /\ lp \in U64 /\ lp \in Nat
    BY Amounts64, DexPoolAssumption
  <2>4. a \in Nat /\ b \in Nat
    <3>1. "A" \in Tokens /\ "B" \in Tokens /\ lp_supply \in Nat
      BY Amounts64
    <3> HIDE DEF a, b
    <3>2. lp <= lp_supply /\ a # None /\ b # None /\ lp # 0
      BY <2>1, <2>3, <3>1
    <3>3. a \in U64 /\ b \in U64
      BY <2>3, <3>1, <3>2, RemovalPaid DEF a, b
    <3>4. QED
      BY <3>3, Amounts64
  <2> HIDE DEF a, b
  <2>5. PICK rest, sup :
          /\ rest \in [Mints -> [Accounts -> U64]] /\ sup \in [Mints -> U64]
          /\ rest = burned /\ sup = supply' /\ Sums(rest, sup)
          /\ rest["A"] = balance["A"] /\ rest["B"] = balance["B"]
    <3> DEFINE d == -lp
    <3>1. /\ d \in Int
          /\ \A k \in Nat : k + d = k - lp
      BY <2>3
    <3> HIDE DEF d
    <3>7. PICK m \in Mints : m = "LP"
      BY <2>3
    <3>8. PICK bal2, sup2 : bal2 = burned /\ sup2 = supply'
      OBVIOUS
    <3>2. /\ balance[m][u] \in Nat /\ supply[m] \in Nat
          /\ balance[m][u] + d \in U64 /\ supply[m] + d \in U64
      BY <2>1, <2>3, <3>1, <3>7, Amounts64, MaxU64Assumption DEF CanBurn, U64
    <3>3. bal2 = [balance EXCEPT ![m][u] = @ + d] /\ sup2 = [supply EXCEPT ![m] = @ + d]
      BY <2>2, <2>3, <3>1, <3>7, <3>8, <3>2, Books64
    <3>4. /\ bal2 \in [Mints -> [Accounts -> U64]] /\ sup2 \in [Mints -> U64]
          /\ Sums(bal2, sup2)
      BY <2>3, <3>1, <3>2, <3>3, Books64, IssueKeepsSums DEF HInv
    <3>5. burned["A"] = balance["A"] /\ burned["B"] = balance["B"]
      BY <2>3, Books64
    <3>6. QED
      BY <3>8, <3>4, <3>5
  <2>6. PICK mid \in [Mints -> [Accounts -> U64]] :
          mid = paid_a /\ Sums(mid, sup) /\ mid["B"] = balance["B"]
    <3>1. a <= rest["A"][Vault] /\ rest["A"][u] + a <= MaxU64
      BY <2>1, <2>3, <2>4, <2>5, Amounts64 DEF CanTransfer
    <3>2. paid_a = Transfer(rest, "A", Vault, u, a)
      BY <2>5
    <3> HIDE DEF paid_a, burned
    <3>3. paid_a \in [Mints -> [Accounts -> U64]] /\ Sums(paid_a, sup)
      BY <2>3, <2>4, <2>5, <3>1, <3>2, TransferKeepsSums
    <3>4. paid_a["B"] = balance["B"]
      BY <2>3, <2>5, <3>2 DEF Transfer
    <3>5. QED
      BY <3>3, <3>4
  <2>7. Sums(paid, sup)
    <3>1. b <= mid["B"][Vault] /\ mid["B"][u] + b <= MaxU64
      BY <2>1, <2>3, <2>4, <2>6, Amounts64 DEF CanTransfer
    <3>2. paid = Transfer(mid, "B", Vault, u, b)
      BY <2>6
    <3> HIDE DEF paid, paid_a
    <3>3. QED
      BY <2>3, <2>4, <2>5, <2>6, <3>1, <3>2, TransferKeepsSums
  <2>8. QED
    BY <2>2, <2>5, <2>7 DEF HInv, Parses
<1>3. QED
  BY <1>1, <1>2

LEMMA SwapKeepsHInv ==
  ASSUME IInv, HInv, NEW u \in Users, NEW n \in Amounts, NEW min \in Minimums,
         NEW tin \in Tokens, Swap(u, n, min, tin)
  PROVE  HInv'
<1> DEFINE tout == Other(tin)
           out  == AmountOut(n, tin)
           once == Transfer(balance, tin, u, Vault, n)
           paid == Transfer(once, tout, Vault, u, out)
<1>1. CASE ~Passes(SwapChecks(u, n, min, tin))
  BY <1>1 DEF Swap, Reject, Accept, HInv, poolVars, tokenVars, Parses
<1>2. CASE Passes(SwapChecks(u, n, min, tin))
  <2>1. /\ is_initialized /\ out # None
        /\ CanTransfer(tin, u, Vault, n) /\ CanTransfer(tout, Vault, u, out)
    BY <1>2, SwapAccepted
  <2>2. /\ balance' = paid /\ supply' = supply
        /\ UNCHANGED <<data_len, is_initialized>>
    BY <1>2 DEF Swap, Reject
  <2>3. tout \in Tokens /\ tout # tin
    BY DEF Other, Tokens
  <2>4. /\ tin \in Mints /\ tout \in Mints
        /\ u \in Accounts /\ Vault \in Accounts /\ u # Vault
        /\ n \in U64 /\ n \in Nat
    BY <2>3, Amounts64, DexPoolAssumption
  <2>5. out \in Nat
    <3>1. /\ reserve[tin] \in U64 /\ reserve[tout] \in U64
          /\ fee_numerator \in U64 /\ fee_denominator \in U64
          /\ fee_numerator < fee_denominator
      BY <2>1, <2>3, Amounts64 DEF IInv, SetUp
    <3>2. out \in U64
      BY <2>1, <2>4, <3>1, SwapIsFair DEF AmountOut
    <3>3. QED
      BY <3>2, Amounts64
  <2> HIDE DEF tout, out
  <2>6. PICK mid \in [Mints -> [Accounts -> U64]] :
          mid = once /\ Sums(mid, supply) /\ mid[tout] = balance[tout]
    <3>1. n <= balance[tin][u] /\ balance[tin][Vault] + n <= MaxU64
      BY <2>1, <2>4, Amounts64 DEF CanTransfer
    <3>2. once \in [Mints -> [Accounts -> U64]] /\ Sums(once, supply)
      BY <2>4, <3>1, Books64, TransferKeepsSums DEF HInv
    <3>3. once[tout] = balance[tout]
      BY <2>3, <2>4, Books64 DEF Transfer
    <3>4. QED
      BY <3>2, <3>3
  <2>7. Sums(paid, supply)
    <3>1. out <= mid[tout][Vault] /\ mid[tout][u] + out <= MaxU64
      BY <2>1, <2>4, <2>5, <2>6, Amounts64 DEF CanTransfer
    <3>2. paid = Transfer(mid, tout, Vault, u, out)
      BY <2>6
    <3> HIDE DEF paid, once
    <3>3. QED
      BY <2>4, <2>5, <2>6, <3>1, <3>2, Books64, TransferKeepsSums
  <2>8. QED
    BY <2>2, <2>7 DEF HInv, Parses
<1>3. QED
  BY <1>1, <1>2

LEMMA DirectCallKeepsHInv ==
  ASSUME IInv, HInv, DirectCall
  PROVE  HInv'
<1>1. is_initialized' => Parses'
  BY DEF DirectCall, DirectTransfer, DirectBurn, HInv, poolVars, Parses
<1>2. ASSUME NEW m \in DirectTransfers, NEW from \in Users, NEW to \in Accounts,
             NEW n \in Amounts, DirectTransfer(m, from, to, n)
      PROVE  Sums(balance', supply')
  <2>1. /\ from # to /\ n \in Nat /\ n <= balance[m][from]
        /\ balance[m][to] + n <= MaxU64
        /\ m \in Mints /\ from \in Accounts
        /\ balance' = Transfer(balance, m, from, to, n) /\ supply' = supply
    BY <1>2, DexPoolAssumption, Amounts64 DEF DirectTransfer, CanTransfer
  <2>2. QED
    BY <2>1, Books64, TransferKeepsSums DEF HInv
<1>3. ASSUME NEW m \in DirectBurns, NEW from \in Users, NEW n \in Amounts,
             DirectBurn(m, from, n)
      PROVE  Sums(balance', supply')
  <2>1. /\ n \in Nat /\ n <= balance[m][from] /\ n <= supply[m]
        /\ m \in Mints /\ from \in Accounts
        /\ balance[m][from] \in U64 /\ supply[m] \in U64
        /\ balance' = [balance EXCEPT ![m][from] = @ - n]
        /\ supply' = [supply EXCEPT ![m] = @ - n]
    BY <1>3, DexPoolAssumption, Amounts64 DEF DirectBurn, CanBurn
  <2> DEFINE d == -n
  <2>2. PICK bal2, sup2 : bal2 = balance' /\ sup2 = supply'
    OBVIOUS
  <2>3. d \in Int /\ balance[m][from] + d \in U64 /\ supply[m] + d \in U64
    BY <2>1, MaxU64Assumption DEF U64
  <2>4. bal2 = [balance EXCEPT ![m][from] = @ + d] /\ sup2 = [supply EXCEPT ![m] = @ + d]
    <3>1. balance[m][from] - n = balance[m][from] + d /\ supply[m] - n = supply[m] + d
      BY <2>1, MaxU64Assumption DEF U64
    <3> HIDE DEF d
    <3>2. QED
      BY <2>1, <2>2, <3>1, Books64
  <2> HIDE DEF d
  <2>5. Sums(bal2, sup2)
    BY <2>1, <2>3, <2>4, Books64, IssueKeepsSums DEF HInv
  <2>6. QED
    BY <2>2, <2>5
<1>4. QED
  BY <1>1, <1>2, <1>3 DEF DirectCall, HInv

LEMMA InitializeKeepsHInv ==
  ASSUME IInv, HInv, DocumentedSizes, NEW fee \in Fees, NEW derived \in BOOLEAN,
         InitializePool(fee[1], fee[2], derived)
  PROVE  HInv'
<1>1. CASE ~Passes(InitChecks(fee[1], fee[2], derived))
  BY <1>1 DEF InitializePool, Reject, Accept, HInv, poolVars, tokenVars, Parses
<1>2. CASE Passes(InitChecks(fee[1], fee[2], derived))
  <2>1. data_len = POOL_SIZE
    BY <1>2, InitAccepted DEF IInv, AmountsOK, DocumentedSizes, POOL_SIZE
  <2>2. UNCHANGED <<data_len, balance, supply>>
    BY <1>2 DEF InitializePool, Reject, tokenVars
  <2>3. QED
    BY <2>1, <2>2 DEF HInv, Parses
<1>3. QED
  BY <1>1, <1>2

LEMMA StepHInv ==
  ASSUME IInv, IInv', HInv, DocumentedSizes, [Next]_vars
  PROVE  HInv'
<1>1. CASE UNCHANGED vars
  BY <1>1 DEF vars, HInv, Parses
<1>2. CASE GetPoolInfo
  BY <1>2 DEF GetPoolInfo, Reject, HInv, Parses, poolVars, tokenVars
<1>3. CASE \/ \E m \in DirectTransfers, from \in Users, to \in Accounts, n \in Amounts :
                DirectTransfer(m, from, to, n)
           \/ \E m \in DirectBurns, from \in Users, n \in Amounts :
                DirectBurn(m, from, n)
  BY <1>3, DirectCallKeepsHInv DEF DirectCall
<1>4. QED
  BY <1>1, <1>2, <1>3, InitializeKeepsHInv, AddKeepsHInv, RemoveKeepsHInv,
     SwapKeepsHInv DEF Next

(* At the start every user has the same, and the vaults nothing.           *)
LEMMA InitHInv == Init => HInv
<1> SUFFICES ASSUME Init PROVE HInv
  OBVIOUS
<1>1. ~is_initialized
  BY DEF Init
<1>2. Sums(balance, supply)
  <2> SUFFICES ASSUME NEW m \in Mints PROVE SumsTo(balance[m], NumUsers, supply[m])
    BY DEF Sums
  <2> DEFINE each == IF m \in Tokens THEN Endowment ELSE 0
  <2>1. each \in Nat
    BY DexPoolAssumption, MaxU64Assumption DEF U64
  <2>2. /\ balance[m] = [i \in Accounts |-> IF i \in Users THEN each ELSE 0]
        /\ supply[m] = NumUsers * each
    <3>1. CASE m \in Tokens
      BY <3>1 DEF Init
    <3>2. CASE m \notin Tokens
      BY AccountRange, <3>2 DEF Init
    <3>3. QED
      BY <3>1, <3>2
  <2> HIDE DEF each
  <2>3. QED
    BY <2>1, <2>2, AccountRange, EqualEntries
<1>3. QED
  BY <1>1, <1>2 DEF HInv

(* The balances of every mint add up to its supply in every state, so no   *)
(* transfer, mint or burn the program asks for makes or loses a token.     *)
THEOREM DexPoolConserves ==
  ASSUME DocumentedSizes
  PROVE  Spec => []HInv
<1>1. IInv /\ IInv' /\ HInv /\ [Next]_vars => HInv'
  BY StepHInv
<1>2. QED
  BY InitHInv, <1>1, DexPoolInvariant, PTL DEF Spec

-----------------------------------------------------------------------------
(* No account holds more than exists, nor a user and the vault together.   *)
LEMMA Holdings ==
  ASSUME IInv, HInv, NEW m \in Mints, NEW u \in Users
  PROVE  balance[m][Vault] + balance[m][u] <= supply[m]
<1>1. balance[m] \in [Accounts -> Nat] /\ SumsTo(balance[m], NumUsers, supply[m])
  BY Books64, MaxU64Assumption DEF HInv, Sums, U64
<1>2. Vault \in Accounts /\ u \in Accounts /\ Vault < u
  BY DexPoolAssumption DEF Accounts, Users, Vault
<1>3. QED
  BY <1>1, <1>2, TwoEntries, AccountRange

(* All that a withdrawal asks for, a holder has.                           *)
LEMMA HolderCanRemove ==
  ASSUME IInv, HInv, NEW u \in Users, NEW lp \in 1..balance["LP"][u]
  PROVE  /\ Passes(RemoveChecks(u, lp, 0, 0))
         /\ Removal("A", lp) > 0 \/ Removal("B", lp) > 0
<1> DEFINE a == Removal("A", lp)
           b == Removal("B", lp)
<1>1. /\ balance["LP"][u] \in U64 /\ balance["LP"][u] \in Nat
      /\ balance["LP"][Vault] \in Nat /\ supply["LP"] \in Nat
      /\ lp_supply \in U64 /\ lp_supply \in Nat
      /\ reserve["A"] \in U64 /\ reserve["B"] \in U64
      /\ reserve["A"] \in Nat /\ reserve["B"] \in Nat
      /\ U64 \subseteq Nat
  BY Amounts64
<1>2. balance["LP"][Vault] + balance["LP"][u] <= supply["LP"]
  BY Holdings, Amounts64
<1>3. supply["LP"] <= lp_supply
  BY DEF IInv, SharesBacked
<1>4. /\ lp \in Nat \ {0} /\ lp <= balance["LP"][u] /\ lp <= supply["LP"]
      /\ lp <= lp_supply
  BY <1>1, <1>2, <1>3
<1>5. lp \in U64 /\ lp_supply \in U64 \ {0} /\ lp # 0
  BY <1>1, <1>4, MaxU64Assumption DEF U64
<1>6. is_initialized /\ Parses
  BY <1>5 DEF IInv, SetUp, HInv
<1>7. /\ a \in U64 /\ a <= reserve["A"]
      /\ lp_supply <= reserve["A"] => lp <= a
  BY <1>1, <1>4, <1>5, RemovalDefined DEF Removal
<1>8. /\ b \in U64 /\ b <= reserve["B"]
      /\ lp_supply <= reserve["B"] => lp <= b
  BY <1>1, <1>4, <1>5, RemovalDefined DEF Removal
<1> HIDE DEF a, b
<1>9. a \in Nat /\ b \in Nat /\ a # None /\ b # None
  BY <1>7, <1>8, <1>1 DEF None
<1>10. a > 0 \/ b > 0
  <2>1. lp_supply * lp_supply <= reserve["A"] * reserve["B"]
    BY DEF IInv, Fair!IInv, Fair!SharesBoundedByReserves, Fair!Product
  <2>2. lp_supply <= reserve["A"] \/ lp_supply <= reserve["B"]
    <3>1. /\ lp_supply \in Nat /\ reserve["A"] \in Nat /\ reserve["B"] \in Nat
      BY <1>1
    <3>2. QED
      BY <2>1, <3>1, Z3
  <2>3. QED
    BY <1>4, <1>7, <1>8, <1>9, <2>2
<1>11. CanBurn("LP", u, lp)
  BY <1>1, <1>4 DEF CanBurn
<1>12. CanTransfer("A", Vault, u, a) /\ CanTransfer("B", Vault, u, b)
  <2>1. /\ reserve["A"] <= balance["A"][Vault] /\ reserve["B"] <= balance["B"][Vault]
    BY Amounts64 DEF IInv, ReservesBacked
  <2>2. /\ balance["A"][Vault] + balance["A"][u] <= supply["A"]
        /\ balance["B"][Vault] + balance["B"][u] <= supply["B"]
    BY Holdings, Amounts64
  <2>3. /\ supply["A"] \in 0..MaxU64 /\ supply["B"] \in 0..MaxU64
        /\ balance["A"][Vault] \in Nat /\ balance["B"][Vault] \in Nat
        /\ balance["A"][u] \in Nat /\ balance["B"][u] \in Nat
    BY Amounts64 DEF U64
  <2>4. QED
    BY <1>1, <1>7, <1>8, <1>9, <2>1, <2>2, <2>3, MaxU64Assumption DEF CanTransfer
<1> DEFINE checks == RemoveChecks(u, lp, 0, 0)
<1>13. /\ ~(lp = 0) /\ Parses /\ is_initialized /\ None \notin {a, b}
       /\ ~(a < 0 \/ b < 0) /\ ~(a > reserve["A"] \/ b > reserve["B"] \/ lp > lp_supply)
  BY <1>1, <1>4, <1>6, <1>7, <1>8, <1>9
<1>14. DOMAIN checks = 1..9 /\ \A i \in 1..9 : checks[i] = "Ok"
  BY <1>11, <1>12, <1>13 DEF RemoveChecks, Check, a, b
<1>15. Passes(checks)
  <2> HIDE DEF checks
  <2>1. QED
    BY <1>14 DEF Passes, Failed
<1>16. QED
  BY <1>10, <1>15 DEF a, b

(* Whoever holds shares can withdraw any part of them at any time: none of *)
(* RemoveLiquidity's checks, and no call it makes, stands in the way.      *)
THEOREM DexPoolRedeemable ==
  ASSUME DocumentedSizes
  PROVE  Spec => []Redeemable
<1>1. IInv /\ HInv => Redeemable
  BY HolderCanRemove DEF Redeemable
<1>2. QED
  BY <1>1, DexPoolInvariant, DexPoolConserves, PTL

-----------------------------------------------------------------------------
(* An instruction that fails only its last check passed the others; that   *)
(* they bound what the last one tests is what has to be shown.             *)
LEMMA AddNotLate ==
  ASSUME IInv, NEW u \in Users, NEW a \in Amounts, NEW b \in Amounts, NEW min
  PROVE  ~OnlyLastFails(AddChecks(u, a, b, min))
<1> DEFINE checks == AddChecks(u, a, b, min)
           lp     == LpTokens(a, b)
<1> SUFFICES ASSUME OnlyLastFails(checks) PROVE FALSE
  OBVIOUS
<1>1. DOMAIN checks = 1..10 /\ Len(checks) = 10
  BY DEF AddChecks
<1>2. Failed(checks) = {10}
  BY <1>1 DEF OnlyLastFails
<1>3. checks[10] # "Ok" /\ \A i \in 1..9 : checks[i] = "Ok"
  <2> HIDE DEF checks
  <2>1. QED
    BY <1>1, <1>2 DEF Failed
<1>4. /\ lp # None
      /\ CanTransfer("A", u, Vault, a) /\ CanTransfer("B", u, Vault, b)
      /\ \/ reserve["A"] + a > MaxU64 \/ reserve["B"] + b > MaxU64
         \/ lp_supply + lp > MaxU64
  BY <1>3 DEF AddChecks, Check
<1>5. /\ lp \in U64
      /\ lp_supply # 0 => /\ lp * reserve["A"] <= a * lp_supply
                          /\ lp * reserve["B"] <= b * lp_supply
  BY <1>4, SharesAreFair
<1> HIDE DEF lp, checks
<1>6. /\ a \in Nat /\ b \in Nat /\ lp \in Nat /\ lp <= MaxU64 /\ lp_supply \in Nat
      /\ reserve["A"] \in Nat /\ reserve["B"] \in Nat
      /\ balance["A"][Vault] \in Nat /\ balance["B"][Vault] \in Nat
      /\ MaxU64 \in Nat
  BY <1>5, Amounts64, DexPoolAssumption, MaxU64Assumption DEF U64
<1>7. reserve["A"] + a <= MaxU64 /\ reserve["B"] + b <= MaxU64
  <2>1. /\ reserve["A"] <= balance["A"][Vault] /\ reserve["B"] <= balance["B"][Vault]
    BY Amounts64 DEF IInv, ReservesBacked
  <2>2. /\ balance["A"][Vault] + a <= MaxU64 /\ balance["B"][Vault] + b <= MaxU64
    BY <1>4 DEF CanTransfer
  <2>3. QED
    BY <1>6, <2>1, <2>2
<1>8. lp_supply + lp <= MaxU64
  <2>1. CASE lp_supply = 0
    BY <1>6, <2>1
  <2>2. CASE lp_supply # 0
    <3> DEFINE c == reserve["A"] + a
               d == reserve["B"] + b
               q == lp_supply + lp
               k == reserve["A"] * reserve["B"]
    <3>1. c \in Nat /\ d \in Nat /\ q \in Nat /\ k \in Nat /\ lp_supply \in Nat \ {0}
      BY <1>6, <2>2
    <3>2. c * lp_supply >= reserve["A"] * q
      BY <1>5, <1>6, <2>2, Z3
    <3>3. d * lp_supply >= reserve["B"] * q
      BY <1>5, <1>6, <2>2, Z3
    <3> HIDE DEF c, d, q
    <3>4. (c * d) * (lp_supply * lp_supply) >= k * (q * q)
      BY <1>6, <3>1, <3>2, <3>3, MaxU64Assumption, Fair!KeptShares
    <3>5. lp_supply * lp_supply <= k
      BY DEF IInv, Fair!IInv, Fair!SharesBoundedByReserves, Fair!Product
    <3> HIDE DEF k
    <3>6. c * d \in Nat
      BY <3>1
    <3>7. q * q <= c * d
      <4>1. PICK j \in Nat : j = c * d
        BY <3>6
      <4>2. q * q <= j
        BY <3>1, <3>4, <3>5, <4>1, MaxU64Assumption, Fair!KeptBound
      <4>3. QED
        BY <4>1, <4>2
    <3>8. c * d <= MaxU64 * MaxU64
      <4>1. c <= MaxU64 /\ d <= MaxU64
        BY <1>7 DEF c, d
      <4>2. QED
        BY <1>6, <3>1, <4>1, ProductMono
    <3>9. q * q <= MaxU64 * MaxU64
      BY <1>6, <3>1, <3>6, <3>7, <3>8
    <3>10. q <= MaxU64
      BY <1>6, <3>1, <3>9, SquareCancel
    <3>11. QED
      BY <3>10 DEF q
  <2>3. QED
    BY <2>1, <2>2
<1>9. QED
  BY <1>4, <1>6, <1>7, <1>8

LEMMA RemoveNotLate ==
  ASSUME IInv, NEW u \in Users, NEW lp \in Amounts, NEW min_a, NEW min_b
  PROVE  ~OnlyLastFails(RemoveChecks(u, lp, min_a, min_b))
<1> DEFINE checks == RemoveChecks(u, lp, min_a, min_b)
           a      == Removal("A", lp)
           b      == Removal("B", lp)
<1> SUFFICES ASSUME OnlyLastFails(checks) PROVE FALSE
  OBVIOUS
<1>1. DOMAIN checks = 1..9 /\ Len(checks) = 9
  BY DEF RemoveChecks
<1>2. Failed(checks) = {9}
  BY <1>1 DEF OnlyLastFails
<1>3. checks[9] # "Ok" /\ \A i \in 1..8 : checks[i] = "Ok"
  <2> HIDE DEF checks
  <2>1. QED
    BY <1>1, <1>2 DEF Failed
<1>4. /\ lp # 0 /\ a # None /\ b # None /\ CanBurn("LP", u, lp)
      /\ a > reserve["A"] \/ b > reserve["B"] \/ lp > lp_supply
  BY <1>3 DEF RemoveChecks, Check
<1>5. /\ lp \in U64 /\ lp \in Nat /\ lp_supply \in Nat /\ supply["LP"] \in Nat
      /\ reserve["A"] \in Nat /\ reserve["B"] \in Nat
      /\ "A" \in Tokens /\ "B" \in Tokens /\ U64 \subseteq Nat
  BY Amounts64, DexPoolAssumption
<1> HIDE DEF a, b, checks
<1>6. lp <= lp_supply
  BY <1>4, <1>5 DEF CanBurn, IInv, SharesBacked
<1>7. a \in U64 /\ a <= reserve["A"]
  BY <1>4, <1>5, <1>6, RemovalPaid DEF a
<1>8. b \in U64 /\ b <= reserve["B"]
  BY <1>4, <1>5, <1>6, RemovalPaid DEF b
<1>9. QED
  BY <1>4, <1>5, <1>6, <1>7, <1>8

LEMMA SwapNotLate ==
  ASSUME IInv, NEW u \in Users, NEW n \in Amounts, NEW tin \in Tokens, NEW min
  PROVE  ~OnlyLastFails(SwapChecks(u, n, min, tin))
<1> DEFINE checks == SwapChecks(u, n, min, tin)
           tout   == Other(tin)
           out    == AmountOut(n, tin)
<1> SUFFICES ASSUME OnlyLastFails(checks) PROVE FALSE
  OBVIOUS
<1>1. DOMAIN checks = 1..10 /\ Len(checks) = 10
  BY DEF SwapChecks
<1>2. Failed(checks) = {10}
  BY <1>1 DEF OnlyLastFails
<1>3. checks[10] # "Ok" /\ \A i \in 1..9 : checks[i] = "Ok"
  <2> HIDE DEF checks
  <2>1. QED
    BY <1>1, <1>2 DEF Failed
<1>4. /\ is_initialized /\ out # None /\ CanTransfer(tin, u, Vault, n)
      /\ reserve[tin] + n > MaxU64 \/ out > reserve[tout]
  BY <1>3 DEF SwapChecks, Check
<1>5. tout \in Tokens
  BY DEF Other, Tokens
<1>6. /\ n \in U64 /\ reserve[tin] \in U64 /\ reserve[tout] \in U64
      /\ fee_numerator \in U64 /\ fee_denominator \in U64
      /\ fee_numerator < fee_denominator
  BY <1>4, <1>5, DexPoolAssumption, Amounts64 DEF IInv, SetUp
<1>7. out \in U64 /\ out < reserve[tout]
  BY <1>4, <1>6, SwapIsFair DEF AmountOut
<1> HIDE DEF checks, out, tout
<1>8. /\ n \in Nat /\ reserve[tin] \in Nat /\ reserve[tout] \in Nat /\ out \in Nat
      /\ balance[tin][Vault] \in Nat /\ MaxU64 \in Nat
  BY <1>6, <1>7, Amounts64, MaxU64Assumption
<1>9. reserve[tin] <= balance[tin][Vault] /\ balance[tin][Vault] + n <= MaxU64
  BY <1>4 DEF IInv, ReservesBacked, CanTransfer
<1>10. QED
  BY <1>4, <1>7, <1>8, <1>9

(* The checks after the transfers never fail by themselves: whatever they  *)
(* would refuse, the token program or the formulas refused before.         *)
THEOREM DexPoolNoLateOverflow ==
  ASSUME DocumentedSizes
  PROVE  Spec => []NoLateOverflow
<1>1. IInv => NoLateOverflow
  BY AddNotLate, RemoveNotLate, SwapNotLate DEF NoLateOverflow
<1>2. QED
  BY <1>1, DexPoolInvariant, PTL

-----------------------------------------------------------------------------
(* The figures reported about a pool, for every scale.                     *)

LEMMA InfoNaturals ==
  ASSUME IInv
  PROVE  /\ reserve["A"] \in Nat /\ reserve["B"] \in Nat /\ lp_supply \in Nat
         /\ \A t \in Tokens : reserve[t] \in Nat
         /\ Scale \in Nat \ {0} /\ MaxU64 \in Nat
BY Amounts64, ScaleAssumption, MaxU64Assumption DEF U64

(* The arithmetic of a figure P, the ratio rb / ra times S rounded down:   *)
(* what pays for n at that ratio, rounded down too, is below n times it.   *)
LEMMA AboveNoPrice ==
  ASSUME NEW ra \in Nat \ {0}, NEW rb \in Nat, NEW S \in Nat \ {0}, NEW P \in Nat,
         rb * S < ra * (P + 1), NEW n \in Nat \ {0}, NEW out \in Nat, ra * out <= n * rb
  PROVE  out * S < n * (P + 1)
<1>1. (ra * out) * S <= (n * rb) * S
  BY ProductMono
<1>2. n * (rb * S) < n * (ra * (P + 1))
  <2>1. rb * S \in Nat /\ ra * (P + 1) \in Nat
    OBVIOUS
  <2>2. QED
    BY <2>1, Z3
<1>3. /\ (ra * out) * S = ra * (out * S) /\ (n * rb) * S = n * (rb * S)
      /\ n * (ra * (P + 1)) = ra * (n * (P + 1))
  BY Z3
<1>4. out * S \in Nat /\ n * (P + 1) \in Nat
  OBVIOUS
<1>5. ra * (out * S) < ra * (n * (P + 1))
  <2>1. /\ ra * (out * S) \in Nat /\ n * (rb * S) \in Nat /\ ra * (n * (P + 1)) \in Nat
    BY <1>4
  <2>2. QED
    BY <1>1, <1>2, <1>3, <2>1
<1>6. QED
  BY <1>4, <1>5, Z3

(* A figure per LP token is the reserve divided among them, rounded down,  *)
(* or less if the multiplication overflowed.                               *)
LEMMA PerLpBounds ==
  ASSUME IInv, lp_supply > 0, NEW t \in Tokens,
         NEW per_lp \in {LoggedPerLp(t), PrintedPerLp(t)}
  PROVE  /\ per_lp \in Nat /\ lp_supply * per_lp <= reserve[t] * Scale
         /\ Fits(t) => reserve[t] * Scale < lp_supply * (per_lp + 1)
<1> DEFINE r == reserve[t]
<1>1. r \in Nat /\ lp_supply \in Nat \ {0} /\ Scale \in Nat \ {0} /\ MaxU64 \in Nat
  BY InfoNaturals
<1>2. r * Scale \in Nat
  BY <1>1
<1>3. CASE per_lp = LoggedPerLp(t)
  <2>1. CASE r * Scale <= MaxU64
    <3>1. per_lp = (r * Scale) \div lp_supply
      <4>1. (r * Scale) \div lp_supply \in Nat /\ r * Scale # -1
        BY <1>1, <1>2, DivBounds
      <4>2. QED
        BY <1>1, <1>3, <2>1, <4>1
           DEF LoggedPerLp, UnwrapOr0, Quotient, CheckedMul, ToU64, None
    <3>2. QED
      BY <1>1, <1>2, <3>1, DivBounds DEF Fits
  <2>2. CASE ~(r * Scale <= MaxU64)
    <3>1. per_lp = 0
      BY <1>1, <1>3, <2>2 DEF LoggedPerLp, UnwrapOr0, Quotient, CheckedMul, ToU64
    <3>2. QED
      BY <1>1, <1>2, <2>2, <3>1 DEF Fits
  <2>3. QED
    BY <2>1, <2>2
<1>4. CASE per_lp = PrintedPerLp(t)
  <2> DEFINE m == SaturatingMul(r, Scale)
  <2>1. m \in Nat /\ m <= r * Scale /\ (Fits(t) => m = r * Scale)
    BY <1>1, <1>2 DEF SaturatingMul, Smaller, Fits
  <2>2. per_lp = m \div lp_supply
    BY <1>1, <1>4 DEF PrintedPerLp
  <2> HIDE DEF m
  <2>3. per_lp \in Nat /\ lp_supply * per_lp <= m /\ m < lp_supply * (per_lp + 1)
    BY <1>1, <2>1, <2>2, DivBounds
  <2>4. QED
    BY <1>1, <1>2, <2>1, <2>3
<1>5. QED
  BY <1>3, <1>4

(* A figure per LP token is what a withdrawal pays for each, rounded down: *)
(* never more, and no further below it than its last place unless the      *)
(* multiplication overflowed.                                              *)
THEOREM ReportsBoundRemoval ==
  ASSUME DocumentedSizes
  PROVE  Spec => []PerLpBoundsRemoval
<1>1. ASSUME IInv, lp_supply > 0, NEW t \in Tokens, NEW n \in 1..lp_supply,
             NEW per_lp \in {LoggedPerLp(t), PrintedPerLp(t)}
      PROVE  /\ Removal(t, n) >= (n * per_lp) \div Scale
             /\ Fits(t) => Removal(t, n) * Scale < n * (per_lp + 1)
  <2> DEFINE r == reserve[t]
             x == (n * per_lp) \div Scale
  <2>1. /\ r \in Nat /\ r \in U64 /\ lp_supply \in Nat \ {0} /\ lp_supply \in U64 \ {0}
        /\ Scale \in Nat \ {0} /\ n \in Nat \ {0} /\ n <= lp_supply /\ n \in U64
    BY <1>1, InfoNaturals, Amounts64 DEF U64
  <2>2. /\ per_lp \in Nat /\ lp_supply * per_lp <= r * Scale
        /\ Fits(t) => r * Scale < lp_supply * (per_lp + 1)
    BY <1>1, PerLpBounds
  <2>3. n * per_lp \in Nat /\ x \in Nat /\ Scale * x <= n * per_lp
    <3>1. n * per_lp \in Nat
      BY <2>1, <2>2
    <3>2. QED
      BY <2>1, <3>1, DivBounds
  <2> HIDE DEF x, r
  <2>4. lp_supply * x <= n * r
    <3>1. lp_supply * (Scale * x) <= lp_supply * (n * per_lp)
      BY <2>1, <2>3, ProductMono
    <3>2. n * (lp_supply * per_lp) <= n * (r * Scale)
      BY <2>1, <2>2, ProductMono
    <3>3. /\ lp_supply * (Scale * x) = Scale * (lp_supply * x)
          /\ lp_supply * (n * per_lp) = n * (lp_supply * per_lp)
          /\ n * (r * Scale) = Scale * (n * r)
      BY <2>1, <2>2, <2>3, Z3
    <3>4. lp_supply * x \in Nat /\ n * r \in Nat
      BY <2>1, <2>3
    <3>5. Scale * (lp_supply * x) <= Scale * (n * r)
      <4>1. /\ Scale * (lp_supply * x) \in Nat /\ n * (lp_supply * per_lp) \in Nat
            /\ Scale * (n * r) \in Nat
        BY <2>1, <2>2, <3>4
      <4>2. QED
        BY <3>1, <3>2, <3>3, <4>1
    <3>6. QED
      BY <2>1, <3>4, <3>5, ProductCancel
  <2>5. x <= (n * r) \div lp_supply
    <3>1. n * r \in Nat
      BY <2>1
    <3>2. QED
      BY <2>1, <2>3, <2>4, <3>1, DivLowerBound
  <2>6. Removal(t, n) = (n * r) \div lp_supply
    <3>1. RemovalAmount(n, r, lp_supply) \in U64
      BY <2>1, RemovalDefined
    <3>2. RemovalAmount(n, r, lp_supply) = ToU64((n * r) \div lp_supply)
      BY <2>1 DEF RemovalAmount, CheckedDiv
    <3>3. QED
      BY <3>1, <3>2, MaxU64Assumption DEF ToU64, U64, None, Removal, r
  <2>7. (n * r) \div lp_supply \in Nat /\ lp_supply * Removal(t, n) <= n * r
    <3>1. n * r \in Nat
      BY <2>1
    <3>2. QED
      BY <2>1, <2>6, <3>1, DivBounds
  <2>8. Fits(t) => Removal(t, n) * Scale < n * (per_lp + 1)
    BY <2>1, <2>2, <2>6, <2>7, AboveNoPrice
  <2>9. QED
    BY <2>3, <2>5, <2>6, <2>7, <2>8 DEF x
<1>2. IInv => PerLpBoundsRemoval
  BY <1>1 DEF PerLpBoundsRemoval
<1>3. QED
  BY <1>2, DexPoolInvariant, PTL

-----------------------------------------------------------------------------
(* A swap pays at most the amount in times the ratio of the reserves.      *)
LEMMA SwapBelowRatio ==
  ASSUME IInv, NEW n \in Amounts, NEW tin \in Tokens,
         reserve["A"] # 0, AmountOut(n, tin) # None
  PROVE  LET out == AmountOut(n, tin)
         IN  out \in Nat /\ reserve[tin] * out <= n * reserve[Other(tin)]
<1>1. PICK rin, rout, out :
        /\ rin \in U64 /\ rout \in U64
        /\ rin = reserve[tin] /\ rout = reserve[Other(tin)] /\ out = AmountOut(n, tin)
  BY Amounts64 DEF Other, Tokens
<1>2. n \in U64 /\ fee_numerator \in U64 /\ fee_denominator \in U64
  BY Amounts64, DexPoolAssumption
<1>3. fee_numerator < fee_denominator
  <2>1. reserve # [t \in Tokens |-> 0]
    BY DEF Tokens
  <2>2. QED
    BY <2>1 DEF IInv, AmountsOK, SetUp
<1>4. out = SwapOutput(n, rin, rout, fee_numerator, fee_denominator) /\ out # None
  BY <1>1 DEF AmountOut
<1>5. /\ out \in U64 /\ out < rout
      /\ rin * rout <= (rin + n) * (rout - out)
  BY <1>1, <1>2, <1>3, <1>4, SwapIsFair
<1>6. rin \in Nat /\ rout \in Nat /\ out \in Nat /\ n \in Nat
  BY <1>1, <1>2, <1>5, Amounts64
<1>7. (rin + n) * (rout - out) = rin * rout + n * rout - rin * out - n * out
  BY <1>6, Z3
<1>8. rin * rout \in Nat /\ n * rout \in Nat /\ rin * out \in Nat /\ n * out \in Nat
  BY <1>6
<1>9. rin * out <= n * rout
  BY <1>5, <1>7, <1>8
<1>10. QED
  BY <1>1, <1>6, <1>9

(* And what costs at least that ratio is not above it.                     *)
LEMMA BelowPrice ==
  ASSUME NEW ra \in Nat, NEW rb \in Nat \ {0}, NEW S \in Nat, NEW P \in Nat,
         ra * P <= rb * S, NEW n \in Nat, NEW out \in Nat, rb * out <= n * ra
  PROVE  out * P <= n * S
<1>1. (rb * out) * P <= (n * ra) * P
  BY ProductMono
<1>2. n * (ra * P) <= n * (rb * S)
  BY ProductMono
<1>3. /\ (rb * out) * P = rb * (out * P) /\ (n * ra) * P = n * (ra * P)
      /\ n * (rb * S) = rb * (n * S)
  BY Z3
<1>4. out * P \in Nat /\ n * S \in Nat
  OBVIOUS
<1>5. rb * (out * P) <= rb * (n * S)
  <2>1. /\ rb * (out * P) \in Nat /\ n * (ra * P) \in Nat /\ rb * (n * S) \in Nat
    BY <1>4
  <2>2. QED
    BY <1>1, <1>2, <1>3, <2>1
<1>6. QED
  BY <1>4, <1>5, ProductCancel

(* A price, logged or printed, is the ratio of the reserves rounded down,  *)
(* or less if the multiplication saturated.                                *)
LEMMA PriceBounds ==
  ASSUME IInv, reserve["A"] > 0, NEW P \in {LoggedPrice, PrintedPrice} \ {Overflow}
  PROVE  /\ P \in Nat /\ reserve["A"] * P <= reserve["B"] * Scale
         /\ Fits("B") => reserve["B"] * Scale < reserve["A"] * (P + 1)
<1> DEFINE ra == reserve["A"]
           rb == reserve["B"]
           m  == SaturatingMul(rb, Scale)
<1>1. /\ ra \in Nat \ {0} /\ rb \in Nat /\ Scale \in Nat \ {0} /\ MaxU64 \in Nat
      /\ rb * Scale \in Nat
  BY InfoNaturals
<1>2. m \in Nat /\ m <= rb * Scale /\ (Fits("B") => m = rb * Scale)
  BY <1>1 DEF SaturatingMul, Smaller, Fits
<1>3. P = m \div ra
  <2>1. CASE P = LoggedPrice
    <3>1. ToU64(rb * Scale) # None
      BY <1>1, <2>1 DEF LoggedPrice, Quotient, CheckedMul, Overflow
    <3>2. rb * Scale <= MaxU64 /\ ToU64(rb * Scale) = rb * Scale
      BY <3>1 DEF ToU64
    <3>3. m = rb * Scale
      BY <1>1, <3>2 DEF SaturatingMul, Smaller
    <3>4. QED
      BY <1>1, <2>1, <3>1, <3>2, <3>3 DEF LoggedPrice, Quotient, CheckedMul
  <2>2. CASE P = PrintedPrice
    BY <1>1, <2>2 DEF PrintedPrice
  <2>3. QED
    BY <2>1, <2>2
<1> HIDE DEF m
<1>4. P \in Nat /\ ra * P <= m /\ m < ra * (P + 1)
  BY <1>1, <1>2, <1>3, DivBounds
<1>5. QED
  BY <1>1, <1>2, <1>4

(* No swap, either way, does better than the price that is reported, as    *)
(* long as the price did not saturate; one that pays in B never does.      *)
THEOREM PriceIsABound ==
  ASSUME DocumentedSizes
  PROVE  Spec => []PriceBoundsSwaps
<1>1. ASSUME IInv, reserve["A"] > 0, NEW n \in Amounts \ {0},
             NEW P \in {LoggedPrice, PrintedPrice} \ {Overflow}
      PROVE  /\ Fits("B") => AmountOut(n, "A") * Scale < n * (P + 1)
             /\ AmountOut(n, "B") * P <= n * Scale
  <2> DEFINE ra == reserve["A"]
             rb == reserve["B"]
  <2>1. /\ ra \in Nat /\ rb \in Nat /\ Scale \in Nat \ {0} /\ n \in Nat \ {0}
        /\ "A" \in Tokens /\ "B" \in Tokens
    BY <1>1, InfoNaturals, Amounts64, DexPoolAssumption
  <2>2. ra # 0 /\ rb # 0
    BY <1>1, Amounts64
  <2>3. /\ P \in Nat /\ ra * P <= rb * Scale
        /\ Fits("B") => rb * Scale < ra * (P + 1)
    BY <1>1, PriceBounds
  <2>4. ASSUME Fits("B") PROVE AmountOut(n, "A") * Scale < n * (P + 1)
    <3>1. CASE AmountOut(n, "A") = None
      <4>1. n * (P + 1) \in Nat
        BY <2>1, <2>3
      <4>2. QED
        BY <2>1, <3>1, <4>1 DEF None
    <3>2. CASE AmountOut(n, "A") # None
      <4>1. /\ AmountOut(n, "A") \in Nat
            /\ reserve["A"] * AmountOut(n, "A") <= n * reserve[Other("A")]
        BY <1>1, <2>1, <2>2, <3>2, SwapBelowRatio
      <4>2. Other("A") = "B"
        BY DEF Other
      <4>3. QED
        BY <2>1, <2>2, <2>3, <2>4, <4>1, <4>2, AboveNoPrice
    <3>3. QED
      BY <3>1, <3>2
  <2>5. AmountOut(n, "B") * P <= n * Scale
    <3>1. CASE AmountOut(n, "B") = None
      <4>1. n * Scale \in Nat
        BY <2>1
      <4>2. QED
        BY <2>3, <3>1, <4>1 DEF None
    <3>2. CASE AmountOut(n, "B") # None
      <4>1. /\ AmountOut(n, "B") \in Nat
            /\ reserve["B"] * AmountOut(n, "B") <= n * reserve[Other("B")]
        BY <1>1, <2>1, <2>2, <3>2, SwapBelowRatio
      <4>2. Other("B") = "A"
        BY DEF Other
      <4>3. QED
        BY <2>1, <2>2, <2>3, <4>1, <4>2, BelowPrice
    <3>3. QED
      BY <3>1, <3>2
  <2>6. QED
    BY <2>4, <2>5
<1>2. IInv => PriceBoundsSwaps
  BY <1>1 DEF PriceBoundsSwaps
<1>3. QED
  BY <1>2, DexPoolInvariant, PTL

-----------------------------------------------------------------------------
(* What a step of the pool keeps of the value of a share.                  *)
LEMMA StepValue ==
  ASSUME IInv, IInv', DocumentedSizes, [Next]_vars, lp_supply > 0, lp_supply' > 0
  PROVE  (reserve'["A"] * reserve'["B"]) * (lp_supply * lp_supply)
           >= (reserve["A"] * reserve["B"]) * (lp_supply' * lp_supply')
<1>1. [Fair!Next]_(Fair!vars)
  BY NextKeepsInv DEF KeepsInv
<1>2. CASE UNCHANGED Fair!vars
  <2>1. reserve' = reserve /\ lp_supply' = lp_supply
    BY <1>2 DEF Fair!vars
  <2>2. (reserve["A"] * reserve["B"]) * (lp_supply * lp_supply) \in Nat
    BY InfoNaturals
  <2>3. QED
    BY <2>1, <2>2
<1>3. CASE Fair!Next
  <2>1. Fair!ShareValueStep
    BY <1>3, MaxU64Assumption, Fair!StepKeepsValue DEF IInv, Fair!IInv
  <2>2. QED
    BY <2>1 DEF Fair!ShareValueStep, Fair!Product
<1>4. QED
  BY <1>1, <1>2, <1>3

(* The figures per LP token, rounded up after the step and down before it, *)
(* show no loss that did not happen.                                       *)
LEMMA RoundedValue ==
  ASSUME NEW a \in Nat, NEW b \in Nat, NEW s \in Nat \ {0},
         NEW c \in Nat, NEW d \in Nat, NEW q \in Nat \ {0},
         NEW S \in Nat \ {0},
         (c * d) * (s * s) >= (a * b) * (q * q),
         NEW la \in Nat, NEW lb \in Nat, NEW lc \in Nat, NEW ld \in Nat,
         s * la <= a * S, s * lb <= b * S,
         c * S < q * (lc + 1), d * S < q * (ld + 1)
  PROVE  (lc + 1) * (ld + 1) > la * lb
<1>1. (s * la) * (s * lb) <= (a * S) * (b * S)
  BY ProductMono
<1>2. (c * S) * (d * S) < (q * (lc + 1)) * (q * (ld + 1))
  <2>1. PICK x \in Nat, y \in Nat, v \in Nat, w \in Nat :
          x = c * S /\ y = d * S /\ v = q * (lc + 1) /\ w = q * (ld + 1)
    OBVIOUS
  <2>2. x < v /\ y < w
    BY <2>1
  <2>3. x * y < v * w
    BY <2>2, Z3
  <2>4. QED
    BY <2>1, <2>3
<1> DEFINE k  == a * b
           k2 == c * d
           ss == s * s
           qq == q * q
           SS == S * S
           ll == la * lb
           mm == (lc + 1) * (ld + 1)
<1>3. /\ (s * la) * (s * lb) = ss * ll /\ (a * S) * (b * S) = SS * k
      /\ (c * S) * (d * S) = SS * k2 /\ (q * (lc + 1)) * (q * (ld + 1)) = qq * mm
  BY Z3
<1>4. /\ k \in Nat /\ k2 \in Nat /\ ll \in Nat /\ mm \in Nat
      /\ ss \in Nat \ {0} /\ qq \in Nat \ {0} /\ SS \in Nat \ {0}
  BY Z3
<1>5. ss * ll <= SS * k /\ SS * k2 < qq * mm /\ k2 * ss >= k * qq
  BY <1>1, <1>2, <1>3
<1> HIDE DEF k, k2, ss, qq, SS, ll, mm
<1>6. (ss * ll) * qq <= (SS * k) * qq
  BY <1>4, <1>5, ProductMono
<1>7. SS * (k * qq) <= SS * (k2 * ss)
  BY <1>4, <1>5, ProductMono
<1>8. (SS * k2) * ss < (qq * mm) * ss
  <2>1. SS * k2 \in Nat /\ qq * mm \in Nat
    BY <1>4
  <2>2. QED
    BY <1>4, <1>5, <2>1, Z3
<1>9. (ss * qq) * ll < (ss * qq) * mm
  <2>1. /\ (ss * ll) * qq = (ss * qq) * ll /\ (SS * k) * qq = SS * (k * qq)
        /\ SS * (k2 * ss) = (SS * k2) * ss /\ (qq * mm) * ss = (ss * qq) * mm
    BY <1>4, Z3
  <2>2. /\ (ss * qq) * ll \in Nat /\ SS * (k * qq) \in Nat /\ (SS * k2) * ss \in Nat
        /\ (ss * qq) * mm \in Nat
    BY <1>4
  <2>3. QED
    BY <1>6, <1>7, <1>8, <2>1, <2>2
<1>10. ll < mm
  <2>1. ss * qq \in Nat
    BY <1>4
  <2>2. QED
    BY <1>4, <1>9, <2>1, Z3
<1>11. QED
  BY <1>4, <1>10 DEF ll, mm

(* A reader of the logs sees no share lose value.                          *)
THEOREM ReportsShowNoLoss ==
  ASSUME DocumentedSizes
  PROVE  Spec => ReportedValueNeverFalls
<1>1. ASSUME IInv, IInv', [Next]_vars PROVE ReportedValueStep
  <2> DEFINE a == reserve["A"]
             b == reserve["B"]
             s == lp_supply
             c == reserve'["A"]
             d == reserve'["B"]
             q == lp_supply'
  <2>1. /\ a \in Nat /\ b \in Nat /\ s \in Nat /\ c \in Nat /\ d \in Nat /\ q \in Nat
        /\ Scale \in Nat \ {0} /\ MaxU64 \in Nat /\ "A" \in Tokens /\ "B" \in Tokens
        /\ reserve'["A"] \in Nat /\ reserve'["B"] \in Nat
    BY <1>1, InfoNaturals, MaxU64Assumption DEF IInv, AmountsOK, U64, Tokens
  <2>2. ASSUME s > 0, q > 0 PROVE (c * d) * (s * s) >= (a * b) * (q * q)
    BY <1>1, <2>2, StepValue
  <2>3. ASSUME s > 0, q > 0, \A t \in Tokens : reserve'[t] * Scale <= MaxU64
        PROVE  (LoggedPerLp("A")' + 1) * (LoggedPerLp("B")' + 1)
                 > LoggedPerLp("A") * LoggedPerLp("B")
    <3>1. /\ LoggedPerLp("A") \in Nat /\ s * LoggedPerLp("A") <= a * Scale
          /\ LoggedPerLp("B") \in Nat /\ s * LoggedPerLp("B") <= b * Scale
      BY <1>1, <2>1, <2>3, PerLpBounds
    <3>2. /\ LoggedPerLp("A")' = (c * Scale) \div q
          /\ LoggedPerLp("B")' = (d * Scale) \div q
      <4>1. c * Scale <= MaxU64 /\ d * Scale <= MaxU64
        BY <2>1, <2>3
      <4>2. /\ c * Scale \in Nat /\ d * Scale \in Nat
            /\ (c * Scale) \div q \in Nat /\ (d * Scale) \div q \in Nat
        BY <2>1, <2>3, DivBounds
      <4>3. c * Scale # None /\ d * Scale # None
        BY <4>2 DEF None
      <4>4. (c * Scale) \div q # None /\ (d * Scale) \div q # None
        BY <4>2 DEF None
      <4>5. q # 0
        BY <2>3
      <4>6. QED
        BY <4>1, <4>3, <4>4, <4>5 DEF LoggedPerLp, UnwrapOr0, Quotient, CheckedMul, ToU64
    <3>3. /\ LoggedPerLp("A")' \in Nat /\ c * Scale < q * (LoggedPerLp("A")' + 1)
          /\ LoggedPerLp("B")' \in Nat /\ d * Scale < q * (LoggedPerLp("B")' + 1)
      <4>1. q \in Nat \ {0} /\ c * Scale \in Nat /\ d * Scale \in Nat
        BY <2>1, <2>3
      <4>2. QED
        BY <3>2, <4>1, DivBounds
    <3>4. PICK la \in Nat, lb \in Nat, lc \in Nat, ld \in Nat :
            /\ la = LoggedPerLp("A") /\ lb = LoggedPerLp("B")
            /\ lc = LoggedPerLp("A")' /\ ld = LoggedPerLp("B")'
      BY <3>1, <3>3
    <3>5. /\ s * la <= a * Scale /\ s * lb <= b * Scale
          /\ c * Scale < q * (lc + 1) /\ d * Scale < q * (ld + 1)
          /\ s \in Nat \ {0} /\ q \in Nat \ {0}
      BY <2>1, <2>3, <3>1, <3>3, <3>4
    <3>6. (lc + 1) * (ld + 1) > la * lb
      <4>1. (c * d) * (s * s) >= (a * b) * (q * q)
        BY <2>2, <2>3
      <4> HIDE DEF a, b, c, d, s, q
      <4>2. QED
        BY <2>1, <3>5, <4>1, RoundedValue
    <3>7. QED
      BY <3>4, <3>6
  <2>4. ASSUME s > 0, q = s, LoggedK' # Overflow PROVE LoggedK' >= LoggedK
    <3>1. c * d \in Nat /\ a * b \in Nat
      BY <2>1
    <3>2. LoggedK' = c * d
      BY <2>4, <3>1 DEF LoggedK, CheckedMul, ToU64, Overflow
    <3>3. LoggedK = a * b \/ LoggedK = None
      BY DEF LoggedK, CheckedMul, ToU64
    <3>4. a * b <= c * d
      <4>1. (c * d) * (s * s) >= (a * b) * (s * s)
        BY <2>2, <2>4
      <4>2. PICK k \in Nat, j \in Nat, z \in Nat \ {0} : k = a * b /\ j = c * d /\ z = s * s
        <5>1. s * s \in Nat \ {0}
          BY <2>1, <2>4, Z3
        <5>2. QED
          BY <3>1, <5>1
      <4>3. z * k <= z * j
        BY <4>1, <4>2
      <4>4. QED
        BY <4>2, <4>3, ProductCancel
    <3>5. QED
      BY <3>1, <3>2, <3>3, <3>4 DEF None
  <2>5. QED
    BY <2>3, <2>4 DEF ReportedValueStep, Fits
<1>2. QED
  BY <1>1, DexPoolInvariant, PTL DEF Spec, ReportedValueNeverFalls
=============================================================================
