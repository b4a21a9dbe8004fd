-------------------------- MODULE AnchorDexProofs --------------------------
(***************************************************************************)
(* The Anchor program keeps the promise of FairPool too, whatever its      *)
(* mints withhold from transfers, and its books count no token that was    *)
(* not sent to the vault and no share that was not minted: for every       *)
(* width, number of users, endowment, fee, transfer fee and amount.  The   *)
(* argument is that of DexPoolProofs.                                      *)
(***************************************************************************)
EXTENDS AnchorDex, AmmMathProofs

(* The theorems of FairPool, for the reserves and shares of this pool.     *)
Fair == INSTANCE FairPoolProofs

(* Only a pool that exists has reserves, shares and a fee to speak of.     *)
SetUp ==
  /\ created => fee_numerator < fee_denominator
  /\ ~created => reserve = [t \in Tokens |-> 0] /\ lp_supply = 0

(* All that accounts hold, for an upper bound of it.                       *)
Covers(row, bound) ==
  \E total \in Int : SumsTo(row, NumUsers, total) /\ total <= bound

(* What is withheld on the way to the vault is in no account.              *)
OnHand(m) == supply[m] - (IF m \in Tokens THEN withheld[m] ELSE 0)

Conserved == \A m \in Mints : Covers(balance[m], OnHand(m))

AmountsOK ==
  /\ created \in BOOLEAN
  /\ reserve \in [Tokens -> U64]
  /\ lp_supply \in U64 /\ fee_numerator \in U64 /\ fee_denominator \in U64
  /\ transfer_fee \in TransferFees
  /\ balance \in [Mints -> [Accounts -> U64]]
  /\ supply \in [Mints -> U64]
  /\ withheld \in [Tokens -> Nat]
  /\ burned_directly \in Nat

IInv ==
  /\ AmountsOK
  /\ SetUp
  /\ ShortfallIsWithheld
  /\ MissingSharesAreBurned
  /\ Conserved
  /\ Fair!IInv

-----------------------------------------------------------------------------
(* An instruction that is accepted failed none of its checks.              *)
LEMMA AddAccepted ==
  ASSUME NEW u, NEW a, NEW b, NEW min, Passes(AddChecks(u, a, b, min))
  PROVE  LET lp == LpTokens(a, b)
         IN  /\ a # 0 /\ b # 0 /\ created
             /\ lp # None /\ lp # 0
             /\ CanTransfer("A", u, Vault, a)
             /\ CanTransfer("B", u, Vault, b)
             /\ CanMint("LP", u, lp)
             /\ ~(reserve["A"] + a > MaxU64)
             /\ ~(reserve["B"] + b > MaxU64)
             /\ ~(lp_supply + lp > MaxU64)
<1> DEFINE checks == AddChecks(u, a, b, min)
<1>1. DOMAIN checks = 1..9
  BY DEF AddChecks
<1>2. \A i \in 1..9 : checks[i] = "Ok"
  BY <1>1 DEF Passes, Failed
<1>3. QED
  BY <1>2 DEF AddChecks, Check, Exists

LEMMA RemoveAccepted ==
  ASSUME NEW u, NEW lp, NEW min_a, NEW min_b,
         Passes(RemoveChecks(u, lp, min_a, min_b))
  PROVE  LET amount_a == Removal("A", lp)
             amount_b == Removal("B", lp)
         IN  /\ lp # 0 /\ created
             /\ amount_a # None /\ amount_b # None
             /\ CanBurn("LP", u, lp)
             /\ CanTransfer("A", Vault, u, amount_a)
             /\ CanTransfer("B", Vault, u, amount_b)
             /\ ~(amount_a > reserve["A"])
             /\ ~(amount_b > reserve["B"])
             /\ ~(lp > lp_supply)
<1> DEFINE checks == RemoveChecks(u, lp, min_a, min_b)
<1>1. DOMAIN checks = 1..8
  BY DEF RemoveChecks
<1>2. \A i \in 1..8 : checks[i] = "Ok"
  BY <1>1 DEF Passes, Failed
<1>3. QED
  BY <1>2 DEF RemoveChecks, Check, Exists

LEMMA SwapAccepted ==
  ASSUME NEW u, NEW n, NEW min, NEW tin, Passes(SwapChecks(u, n, min, tin))
  PROVE  LET out == AmountOut(n, tin)
         IN  /\ n # 0 /\ created
             /\ reserve["A"] # 0 /\ reserve["B"] # 0
             /\ out # None /\ out # 0
             /\ CanTransfer(tin, u, Vault, n)
             /\ CanTransfer(Other(tin), Vault, u, out)
             /\ ~(reserve[tin] + n > MaxU64)
             /\ ~(out > reserve[Other(tin)])
<1> DEFINE checks == SwapChecks(u, n, min, tin)
<1>1. DOMAIN checks = 1..9
  BY DEF SwapChecks
<1>2. \A i \in 1..9 : checks[i] = "Ok"
  BY <1>1 DEF Passes, Failed
<1>3. QED
  BY <1>2 DEF SwapChecks, Check, Exists

LEMMA InitAccepted ==
  ASSUME NEW numerator, NEW denominator, Passes(InitChecks(numerator, denominator))
  PROVE  ~created /\ ~(numerator >= denominator)
<1> DEFINE checks == InitChecks(numerator, denominator)
<1>1. DOMAIN checks = 1..2
  BY DEF InitChecks
<1>2. \A i \in 1..2 : checks[i] = "Ok"
  BY <1>1 DEF Passes, Failed
<1>3. QED
  BY <1>2 DEF InitChecks, Check

-----------------------------------------------------------------------------
(* A transfer fee is part of what is sent, and the rest arrives.           *)
LEMMA RoundedRate ==
  ASSUME NEW whole \in Nat \ {0}, NEW n \in Nat, NEW rate \in 0..whole
  PROVE  (n * rate + whole - 1) \div whole \in 0..n
<1>1. PICK p \in Nat : p = n * rate /\ p <= n * whole
  <2>1. n * rate \in Nat /\ n * rate <= n * whole
    BY ProductMono
  <2>2. QED
    BY <2>1
<1>2. PICK sum \in Nat : sum = n * rate + whole - 1 /\ sum < whole * (n + 1)
  <2>1. whole * (n + 1) = n * whole + whole /\ n * whole \in Nat
    OBVIOUS
  <2>2. p + whole - 1 \in Nat /\ p + whole - 1 < whole * (n + 1)
    BY <1>1, <2>1
  <2>3. QED
    BY <1>1, <2>2
<1>3. sum \div whole \in Nat /\ sum \div whole < n + 1
  BY <1>2, DivBounds, DivUpperBound
<1>4. QED
  BY <1>2, <1>3

LEMMA FeeIsPart ==
  ASSUME transfer_fee \in TransferFees, NEW m, NEW n \in Nat
  PROVE  /\ Fee(m, n) \in Nat /\ Arriving(m, n) \in Nat
         /\ Fee(m, n) + Arriving(m, n) = n
<1>1. CASE m \notin Tokens
  BY <1>1 DEF Fee, Arriving
<1>2. CASE m \in Tokens
  <2>1. transfer_fee[m] \in 0..BasisPoints
    BY <1>2, AnchorDexAssumption
  <2>2. BasisPoints \in Nat \ {0}
    BY DEF BasisPoints
  <2>3. (n * transfer_fee[m] + BasisPoints - 1) \div BasisPoints \in 0..n
    BY <2>1, <2>2, RoundedRate
  <2>4. Fee(m, n) \in 0..n
    BY <1>2, <2>3 DEF Fee
  <2>5. QED
    BY <2>4 DEF Arriving
<1>3. QED
  BY <1>1, <1>2

LEMMA AccountRange ==
  /\ NumUsers \in Nat \ {0}
  /\ Accounts = 0..NumUsers /\ Users = 1..NumUsers
BY AnchorDexAssumption DEF Accounts, Users, Vault

(* Creating or destroying tokens of one account; sending from one account  *)
(* to another.                                                             *)
LEMMA IssuedCovers ==
  ASSUME NEW row \in [Accounts -> Nat], NEW bound \in Int, Covers(row, bound),
         NEW a \in Accounts, NEW d \in Int
  PROVE  Covers([row EXCEPT ![a] = @ + d], bound + d)
<1>1. PICK total \in Int : SumsTo(row, NumUsers, total) /\ total <= bound
  BY DEF Covers
<1>2. SumsTo([row EXCEPT ![a] = @ + d], NumUsers, total + d)
  BY <1>1, ChangeOne, AccountRange
<1>3. total + d \in Int /\ total + d <= bound + d
  BY <1>1
<1>4. QED
  BY <1>2, <1>3 DEF Covers

Sent(row, from, to, n, arriving) == [row EXCEPT ![from] = @ - n, ![to] = @ + arriving]

LEMMA SentCovers ==
  ASSUME NEW row \in [Accounts -> Nat], NEW bound \in Int, Covers(row, bound),
         NEW from \in Accounts, NEW to \in Accounts, from # to,
         NEW n \in Nat, NEW arriving \in Nat, n <= row[from],
         NEW after \in Int, bound - n + arriving <= after
  PROVE  Covers(Sent(row, from, to, n, arriving), after)
<1> DEFINE d    == -n
           once == [row EXCEPT ![from] = @ + d]
<1>1. d \in Int /\ once \in [Accounts -> Nat] /\ bound + d \in Int
      /\ bound + d + arriving <= after
  OBVIOUS
<1>2. Covers(once, bound + d)
  <2> HIDE DEF d
  <2>1. QED
    BY <1>1, IssuedCovers
<1>3. Covers([once EXCEPT ![to] = @ + arriving], bound + d + arriving)
  <2>1. arriving \in Int
    OBVIOUS
  <2> HIDE DEF once, d
  <2>2. QED
    BY <1>1, <1>2, <2>1, IssuedCovers
<1>4. Sent(row, from, to, n, arriving) = [once EXCEPT ![to] = @ + arriving]
  BY DEF Sent
<1> HIDE DEF once, d
<1>5. QED
  BY <1>1, <1>3, <1>4 DEF Covers

(* Moving tokens between two accounts keeps every balance a u64 and every  *)
(* other balance as it was; the sender loses all, the receiver gets what   *)
(* is not withheld.                                                        *)
LEMMA TransferOK ==
  ASSUME NEW bal \in [Mints -> [Accounts -> U64]],
         NEW m \in Mints, NEW from \in Accounts, NEW to \in Accounts,
         NEW n \in Nat, from # to, n <= bal[m][from], Arriving(m, n) \in Nat,
         bal[m][to] + Arriving(m, n) <= MaxU64
  PROVE  LET moved == Transfer(bal, m, from, to, n)
         IN  /\ moved \in [Mints -> [Accounts -> U64]]
             /\ moved[m][from] = bal[m][from] - n
             /\ moved[m][to] = bal[m][to] + Arriving(m, n)
             /\ \A k \in Mints : k # m => moved[k] = bal[k]
             /\ \A a \in Accounts \ {from, to} : moved[m][a] = bal[m][a]
<1>1. bal[m] \in [Accounts -> U64] /\ bal[m][from] \in Nat /\ bal[m][to] \in Nat
  BY MaxU64Assumption DEF U64
<1> DEFINE row == [bal[m] EXCEPT ![from] = @ - n, ![to] = @ + Arriving(m, n)]
<1>2. row \in [Accounts -> U64]
  BY <1>1, MaxU64Assumption DEF U64
<1>3. /\ row[from] = bal[m][from] - n /\ row[to] = bal[m][to] + Arriving(m, n)
      /\ \A a \in Accounts \ {from, to} : row[a] = bal[m][a]
  BY <1>1
<1>4. Transfer(bal, m, from, to, n) = [bal EXCEPT ![m] = row]
  BY <1>1 DEF Transfer
<1> HIDE DEF row
<1>5. QED
  BY <1>2, <1>3, <1>4

(* Two transfers, of different tokens.                                     *)
LEMMA TransfersOK ==
  ASSUME NEW bal \in [Mints -> [Accounts -> U64]],
         NEW m \in Mints, NEW from \in Accounts, NEW to \in Accounts,
         NEW n \in Nat, from # to, n <= bal[m][from], Arriving(m, n) \in Nat,
         bal[m][to] + Arriving(m, n) <= MaxU64,
         NEW k \in Mints, NEW src \in Accounts, NEW dst \in Accounts, k # m,
         NEW o \in Nat, src # dst, o <= bal[k][src], Arriving(k, o) \in Nat,
         bal[k][dst] + Arriving(k, o) <= MaxU64
  PROVE  LET moved == Transfer(Transfer(bal, m, from, to, n), k, src, dst, o)
         IN  /\ moved \in [Mints -> [Accounts -> U64]]
             /\ moved[m][from] = bal[m][from] - n /\ moved[m][to] = bal[m][to] + Arriving(m, n)
             /\ moved[k][src] = bal[k][src] - o /\ moved[k][dst] = bal[k][dst] + Arriving(k, o)
             /\ \A l \in Mints \ {m, k} : moved[l] = bal[l]
<1>1. PICK once \in [Mints -> [Accounts -> U64]] :
        /\ once = Transfer(bal, m, from, to, n)
        /\ once[m][from] = bal[m][from] - n /\ once[m][to] = bal[m][to] + Arriving(m, n)
        /\ \A l \in Mints : l # m => once[l] = bal[l]
  BY TransferOK
<1>2. PICK twice \in [Mints -> [Accounts -> U64]] :
        /\ twice = Transfer(once, k, src, dst, o)
        /\ twice[k][src] = once[k][src] - o /\ twice[k][dst] = once[k][dst] + Arriving(k, o)
        /\ \A l \in Mints : l # k => twice[l] = once[l]
  BY <1>1, TransferOK
<1>3. QED
  BY <1>1, <1>2

-----------------------------------------------------------------------------
(* What every step must do, given the invariant.                           *)
KeepsInv ==
  /\ AmountsOK' /\ SetUp' /\ ShortfallIsWithheld' /\ MissingSharesAreBurned'
  /\ [Fair!Next]_(Fair!vars)

(* The invariant, said of each amount by itself.                           *)
LEMMA Amounts64 ==
  ASSUME IInv
  PROVE  /\ \A t \in Tokens : reserve[t] \in U64
         /\ \A t \in Tokens : withheld[t] \in Nat
         /\ burned_directly \in Nat
         /\ lp_supply \in U64 /\ fee_numerator \in U64 /\ fee_denominator \in U64
         /\ \A m \in Mints, a \in Accounts : balance[m][a] \in U64
         /\ \A m \in Mints : supply[m] \in U64
         /\ \A t \in Tokens : reserve[t] = 0 <=> lp_supply = 0
         /\ "A" \in Tokens /\ "B" \in Tokens /\ Tokens \subseteq Mints /\ "LP" \in Mints
         /\ \A u \in Users : u \in Accounts /\ u # Vault
         /\ Vault \in Accounts
         /\ U64 \subseteq Nat
<1>1. /\ reserve \in [Tokens -> U64] /\ withheld \in [Tokens -> Nat]
      /\ burned_directly \in Nat
      /\ lp_supply \in U64 /\ fee_numerator \in U64 /\ fee_denominator \in U64
      /\ balance \in [Mints -> [Accounts -> U64]] /\ supply \in [Mints -> U64]
  BY DEF IInv, AmountsOK
<1>2. \A t \in Tokens : reserve[t] = 0 <=> lp_supply = 0
  BY DEF IInv, Fair!IInv, Fair!EmptyTogether, Fair!Tokens, Tokens
<1>3. /\ "A" \in Tokens /\ "B" \in Tokens /\ Tokens \subseteq Mints /\ "LP" \in Mints
      /\ \A u \in Users : u \in Accounts /\ u # Vault
      /\ Vault \in Accounts
      /\ U64 \subseteq Nat
  BY MaxU64Assumption, AnchorDexAssumption
     DEF Tokens, Mints, Accounts, Users, Vault, U64
<1>4. QED
  BY <1>1, <1>2, <1>3

(* A rejected instruction.                                                 *)
LEMMA RejectedKeepsInv ==
  ASSUME IInv, UNCHANGED <<poolVars, tokenVars>>
  PROVE  KeepsInv
BY DEF IInv, KeepsInv, AmountsOK, SetUp, ShortfallIsWithheld, MissingSharesAreBurned,
       poolVars, tokenVars, Fair!vars

LEMMA InitializeKeepsInv ==
  ASSUME IInv, NEW fee \in Fees, InitializePool(fee[1], fee[2])
  PROVE  KeepsInv
<1> DEFINE checks == InitChecks(fee[1], fee[2])
<1>1. CASE ~Passes(checks)
  BY <1>1, RejectedKeepsInv DEF InitializePool, Reject, Accept
<1>2. CASE Passes(checks)
  <2>1. /\ fee[1] \in U64 /\ fee[2] \in U64 /\ fee[1] < fee[2]
        /\ ~created
    BY <1>2, InitAccepted, AnchorDexAssumption, MaxU64Assumption DEF U64
  <2>2. reserve = [t \in Tokens |-> 0] /\ lp_supply = 0
    BY <2>1 DEF IInv, SetUp
  <2>3. /\ created' = TRUE /\ reserve' = reserve /\ lp_supply' = lp_supply
        /\ fee_numerator' = fee[1] /\ fee_denominator' = fee[2]
        /\ UNCHANGED tokenVars
    BY <1>2, <2>2 DEF InitializePool, Reject
  <2>4. QED
    BY <2>1, <2>3 DEF IInv, KeepsInv, AmountsOK, SetUp, ShortfallIsWithheld,
                      MissingSharesAreBurned, tokenVars, Fair!vars
<1>3. QED
  BY <1>1, <1>2

(* The shares a deposit creates are worth no more than the deposit.        *)
LEMMA SharesAreFair ==
  ASSUME IInv, NEW a \in Amounts, NEW b \in Amounts, LpTokens(a, b) # None
  PROVE  LET lp == LpTokens(a, b)
         IN  /\ lp \in U64
             /\ lp_supply = 0 => lp * lp <= a * b
             /\ lp_supply # 0 => /\ lp * reserve["A"] <= a * lp_supply
                                 /\ lp * reserve["B"] <= b * lp_supply
<1>1. a \in U64 /\ b \in U64
  BY AnchorDexAssumption
<1>2. CASE lp_supply = 0
  BY <1>1, <1>2, Amounts64, FirstLpTokens DEF LpTokens
<1>3. CASE lp_supply # 0
  <2>1. /\ reserve["A"] \in U64 \ {0} /\ reserve["B"] \in U64 \ {0}
        /\ lp_supply \in U64 \ {0}
    BY <1>3, Amounts64
  <2>2. QED
    BY <1>1, <1>3, <2>1, LaterLpTokens DEF LpTokens
<1>4. QED
  BY <1>2, <1>3

LEMMA AddKeepsInv ==
  ASSUME IInv, NEW u \in Users, NEW a \in Amounts, NEW b \in Amounts,
         NEW min \in Minimums, AddLiquidity(u, a, b, min)
  PROVE  KeepsInv
<1> DEFINE checks == AddChecks(u, a, b, min)
           lp     == LpTokens(a, b)
           paid   == Transfer(Transfer(balance, "A", u, Vault, a), "B", u, Vault, b)
<1>1. CASE ~Passes(checks)
  BY <1>1, RejectedKeepsInv DEF AddLiquidity, Reject, Accept
<1>2. CASE Passes(checks)
  <2>1. /\ a # 0 /\ b # 0 /\ created /\ lp # None /\ lp # 0
        /\ CanTransfer("A", u, Vault, a) /\ CanTransfer("B", u, Vault, b)
        /\ CanMint("LP", u, lp)
        /\ ~(reserve["A"] + a > MaxU64) /\ ~(reserve["B"] + b > MaxU64)
        /\ ~(lp_supply + lp > MaxU64)
    BY <1>2, AddAccepted
  <2>2. /\ balance' = [paid EXCEPT !["LP"][u] = @ + lp]
        /\ supply'  = [supply EXCEPT !["LP"] = @ + lp]
        /\ reserve' = [reserve EXCEPT !["A"] = @ + a, !["B"] = @ + b]
        /\ lp_supply' = lp_supply + lp
        /\ withheld' = [withheld EXCEPT !["A"] = @ + Fee("A", a), !["B"] = @ + Fee("B", b)]
        /\ UNCHANGED <<created, fee_numerator, fee_denominator, transfer_fee,
                       burned_directly>>
    BY <1>2 DEF AddLiquidity, Reject
  <2>3. a \in U64 /\ b \in U64
    BY AnchorDexAssumption
  <2>4. /\ lp \in U64
        /\ lp_supply = 0 => lp * lp <= a * b
        /\ lp_supply # 0 => /\ lp * reserve["A"] <= a * lp_supply
                            /\ lp * reserve["B"] <= b * lp_supply
    BY <2>1, SharesAreFair
  <2> HIDE DEF lp, checks
  <2>5. /\ a \in Nat \ {0} /\ b \in Nat \ {0} /\ lp \in Nat \ {0}
        /\ reserve["A"] \in Nat /\ reserve["B"] \in Nat /\ lp_supply \in Nat
    BY <2>1, <2>3, <2>4, Amounts64
  <2>6. /\ reserve' \in [Tokens -> U64] /\ lp_supply' \in U64
        /\ reserve'["A"] = reserve["A"] + a /\ reserve'["B"] = reserve["B"] + b
        /\ reserve' \in [Tokens -> 1..MaxU64] /\ lp_supply' \in 1..MaxU64
    <3>1. reserve \in [Tokens -> U64] /\ reserve["A"] + a \in 1..MaxU64
          /\ reserve["B"] + b \in 1..MaxU64 /\ lp_supply + lp \in 1..MaxU64
      BY <2>1, <2>5, MaxU64Assumption DEF IInv, AmountsOK
    <3>2. reserve'["A"] = reserve["A"] + a /\ reserve'["B"] = reserve["B"] + b
      BY <2>2, <3>1 DEF Tokens
    <3>3. reserve' \in [Tokens -> 1..MaxU64]
      BY <2>2, <3>1 DEF Tokens
    <3>4. 1..MaxU64 \subseteq U64
      BY MaxU64Assumption DEF U64
    <3>5. QED
      BY <2>2, <3>1, <3>2, <3>3, <3>4
  <2>7. /\ balance \in [Mints -> [Accounts -> U64]]
        /\ "A" \in Mints /\ "B" \in Mints /\ "LP" \in Mints
        /\ u \in Accounts /\ Vault \in Accounts /\ u # Vault
    BY Amounts64 DEF IInv, AmountsOK
  <2>8. /\ a \in Nat /\ a <= balance["A"][u] /\ Arriving("A", a) \in Nat
        /\ balance["A"][Vault] + Arriving("A", a) <= MaxU64
        /\ b \in Nat /\ b <= balance["B"][u] /\ Arriving("B", b) \in Nat
        /\ balance["B"][Vault] + Arriving("B", b) <= MaxU64
    BY <2>1, <2>5, <2>7, Amounts64, FeeIsPart DEF CanTransfer, IInv, AmountsOK
  <2>9. /\ paid \in [Mints -> [Accounts -> U64]]
        /\ paid["A"][Vault] = balance["A"][Vault] + Arriving("A", a)
        /\ paid["B"][Vault] = balance["B"][Vault] + Arriving("B", b)
        /\ paid["LP"] = balance["LP"]
    <3>1. /\ paid \in [Mints -> [Accounts -> U64]]
          /\ paid["A"][u] = balance["A"][u] - a
          /\ paid["A"][Vault] = balance["A"][Vault] + Arriving("A", a)
          /\ paid["B"][u] = balance["B"][u] - b
          /\ paid["B"][Vault] = balance["B"][Vault] + Arriving("B", b)
          /\ \A l \in Mints \ {"A", "B"} : paid[l] = balance[l]
      <4>1. PICK once \in [Mints -> [Accounts -> U64]] :
              /\ once = Transfer(balance, "A", u, Vault, a)
              /\ once["A"][u] = balance["A"][u] - a
              /\ once["A"][Vault] = balance["A"][Vault] + Arriving("A", a)
              /\ \A l \in Mints : l # "A" => once[l] = balance[l]
        BY <2>7, <2>8, TransferOK, SMTT(30)
      <4>2. once["B"] = balance["B"] /\ paid = Transfer(once, "B", u, Vault, b)
        BY <2>7, <4>1
      <4>3. /\ once \in [Mints -> [Accounts -> U64]] /\ "B" \in Mints
            /\ u \in Accounts /\ Vault \in Accounts /\ u # Vault
            /\ b \in Nat /\ b <= once["B"][u] /\ Arriving("B", b) \in Nat
            /\ once["B"][Vault] + Arriving("B", b) <= MaxU64
        BY <2>7, <2>8, <4>1, <4>2
      <4>4. LET twice == Transfer(once, "B", u, Vault, b)
            IN  /\ twice \in [Mints -> [Accounts -> U64]]
                /\ twice["B"][u] = once["B"][u] - b
                /\ twice["B"][Vault] = once["B"][Vault] + Arriving("B", b)
                /\ \A l \in Mints : l # "B" => twice[l] = once[l]
        <5> HIDE DEF paid
        <5>1. QED
          BY <4>3, TransferOK, SMTT(30)
      <4>5. QED
        BY <2>7, <4>1, <4>2, <4>4
    <3>2. QED
      BY <2>7, <3>1
  <2> HIDE DEF paid
  <2>10. balance["LP"][u] + lp \in U64 /\ supply["LP"] + lp \in U64
    BY <2>1, <2>5, <2>7, Amounts64, MaxU64Assumption DEF CanMint, U64
  <2>11. /\ balance' \in [Mints -> [Accounts -> U64]]
         /\ balance'["A"] = paid["A"] /\ balance'["B"] = paid["B"]
    BY <2>2, <2>7, <2>9, <2>10
  <2>12. supply' \in [Mints -> U64] /\ supply'["LP"] = supply["LP"] + lp
    BY <2>2, <2>10 DEF IInv, AmountsOK, Mints, Tokens
  <2>13. /\ withheld' \in [Tokens -> Nat]
         /\ withheld'["A"] = withheld["A"] + Fee("A", a)
         /\ withheld'["B"] = withheld["B"] + Fee("B", b)
         /\ Fee("A", a) \in Nat /\ Fee("A", a) + Arriving("A", a) = a
         /\ Fee("B", b) \in Nat /\ Fee("B", b) + Arriving("B", b) = b
    <3>1. /\ Fee("A", a) \in Nat /\ Fee("A", a) + Arriving("A", a) = a
          /\ Fee("B", b) \in Nat /\ Fee("B", b) + Arriving("B", b) = b
      BY <2>5, FeeIsPart DEF IInv, AmountsOK
    <3>2. withheld \in [Tokens -> Nat]
      BY DEF IInv, AmountsOK
    <3>3. QED
      BY <2>2, <3>1, <3>2 DEF Tokens
  <2>14. AmountsOK' /\ SetUp'
    BY <2>1, <2>2, <2>6, <2>11, <2>12, <2>13 DEF IInv, AmountsOK, SetUp
  <2>15. ShortfallIsWithheld' /\ MissingSharesAreBurned'
    <3>1. /\ reserve["A"] <= balance["A"][Vault] + withheld["A"]
          /\ reserve["B"] <= balance["B"][Vault] + withheld["B"]
          /\ balance["A"][Vault] \in Nat /\ balance["B"][Vault] \in Nat
          /\ withheld["A"] \in Nat /\ withheld["B"] \in Nat
      BY <2>7, Amounts64 DEF IInv, ShortfallIsWithheld, Tokens
    <3>2. /\ reserve'["A"] <= balance'["A"][Vault] + withheld'["A"]
          /\ reserve'["B"] <= balance'["B"][Vault] + withheld'["B"]
      BY <2>5, <2>6, <2>8, <2>9, <2>11, <2>13, <3>1
    <3>3. lp_supply' = supply'["LP"] + burned_directly'
      BY <2>2, <2>5, <2>12, Amounts64 DEF IInv, MissingSharesAreBurned
    <3>4. QED
      BY <3>2, <3>3 DEF ShortfallIsWithheld, MissingSharesAreBurned, Tokens
  <2>16. Fair!Next
    <3>1. CASE lp_supply = 0
      <4>1. reserve["A"] = 0 /\ reserve["B"] = 0
        BY <3>1, Amounts64
      <4>2. reserve'["A"] = a /\ reserve'["B"] = b /\ lp_supply' = lp
        <5>1. reserve'["A"] = a /\ reserve'["B"] = b
          BY <2>5, <2>6, <4>1
        <5>2. lp_supply' = lp
          BY <2>2, <2>5, <3>1
        <5>3. QED
          BY <5>1, <5>2
      <4>3. Fair!FirstDeposit
        BY <2>4, <2>6, <3>1, <4>2
           DEF Fair!FirstDeposit, Fair!Tokens, Fair!Positive, Fair!Product, Tokens
      <4>4. QED
        BY <4>3 DEF Fair!Next
    <3>2. CASE lp_supply # 0
      <4>1. /\ reserve'["A"] * lp_supply >= reserve["A"] * lp_supply'
            /\ reserve'["B"] * lp_supply >= reserve["B"] * lp_supply'
        <5>1. (reserve["A"] + a) * lp_supply >= reserve["A"] * (lp_supply + lp)
          BY <2>4, <2>5, <3>2, Z3
        <5>2. (reserve["B"] + b) * lp_supply >= reserve["B"] * (lp_supply + lp)
          BY <2>4, <2>5, <3>2, Z3
        <5>3. QED
          BY <2>2, <2>6, <5>1, <5>2
      <4>2. Fair!KeepsEachShare
        BY <4>1 DEF Fair!KeepsEachShare, Fair!Tokens
      <4>3. /\ lp_supply > 0 /\ lp_supply' > lp_supply
            /\ \A t \in Fair!Tokens : reserve'[t] > reserve[t]
        BY <2>2, <2>5, <2>6, <3>2 DEF Fair!Tokens
      <4>4. Fair!Deposit
        BY <2>6, <4>2, <4>3 DEF Fair!Deposit, Fair!Tokens, Fair!Positive, Tokens
      <4>5. QED
        BY <4>4 DEF Fair!Next
    <3>3. QED
      BY <3>1, <3>2
  <2>17. QED
    BY <2>14, <2>15, <2>16 DEF KeepsInv
<1>3. QED
  BY <1>1, <1>2

LEMMA RemoveKeepsInv ==
  ASSUME IInv, NEW u \in Users, NEW lp \in Amounts,
         NEW min_a \in Minimums, NEW min_b \in Minimums,
         RemoveLiquidity(u, lp, min_a, min_b)
  PROVE  KeepsInv
<1> DEFINE checks == RemoveChecks(u, lp, min_a, min_b)
           a      == Removal("A", lp)
           b      == Removal("B", lp)
           burned == [balance EXCEPT !["LP"][u] = @ - lp]
           paid   == Transfer(Transfer(burned, "A", Vault, u, a), "B", Vault, u, b)
<1>1. CASE ~Passes(checks)
  BY <1>1, RejectedKeepsInv DEF RemoveLiquidity, Reject, Accept
<1>2. CASE Passes(checks)
  <2>1. /\ lp # 0 /\ created /\ a # None /\ b # None
        /\ CanBurn("LP", u, lp)
        /\ CanTransfer("A", Vault, u, a) /\ CanTransfer("B", Vault, u, b)
        /\ ~(lp > lp_supply)
    BY <1>2, RemoveAccepted
  <2>2. /\ balance' = paid
        /\ supply'  = [supply EXCEPT !["LP"] = @ - lp]
        /\ reserve' = [reserve EXCEPT !["A"] = @ - a, !["B"] = @ - b]
        /\ lp_supply' = lp_supply - lp
        /\ UNCHANGED <<created, fee_numerator, fee_denominator, transfer_fee, withheld,
                       burned_directly>>
    BY <1>2 DEF RemoveLiquidity, Reject, LpSupplyAfterRemove
  <2>3. lp \in U64 /\ lp \in Nat \ {0} /\ lp_supply \in U64 \ {0} /\ lp <= lp_supply
    BY <2>1, AnchorDexAssumption, Amounts64 DEF Removal, RemovalAmount
  <2>4. reserve["A"] \in U64 /\ reserve["B"] \in U64
        /\ reserve["A"] \in Nat \ {0} /\ reserve["B"] \in Nat \ {0}
        /\ lp_supply \in Nat \ {0}
    BY <2>3, Amounts64
  <2>5. /\ a \in U64 /\ a <= reserve["A"] /\ a * lp_supply <= lp * reserve["A"]
        /\ lp = lp_supply => a = reserve["A"]
        /\ lp < lp_supply => a < reserve["A"]
    BY <2>1, <2>3, <2>4, RemovalIsFair DEF Removal
  <2>6. /\ b \in U64 /\ b <= reserve["B"] /\ b * lp_supply <= lp * reserve["B"]
        /\ lp = lp_supply => b = reserve["B"]
        /\ lp < lp_supply => b < reserve["B"]
    BY <2>1, <2>3, <2>4, RemovalIsFair DEF Removal
  <2> HIDE DEF a, b, checks
  <2>7. a \in Nat /\ b \in Nat
    BY <2>5, <2>6, Amounts64
  <2>8. /\ balance \in [Mints -> [Accounts -> U64]]
        /\ "A" \in Mints /\ "B" \in Mints /\ "LP" \in Mints
        /\ u \in Accounts /\ Vault \in Accounts /\ u # Vault
    BY Amounts64 DEF IInv, AmountsOK
  <2>9. PICK rest \in [Mints -> [Accounts -> U64]] :
          rest = burned /\ rest["A"] = balance["A"] /\ rest["B"] = balance["B"]
    <3>1. balance["LP"][u] - lp \in U64
      BY <2>1, <2>3, <2>8, Amounts64, MaxU64Assumption DEF CanBurn, U64
    <3>2. /\ burned \in [Mints -> [Accounts -> U64]]
          /\ burned["A"] = balance["A"] /\ burned["B"] = balance["B"]
      BY <2>8, <3>1
    <3>3. QED
      BY <3>2
  <2>10. /\ paid \in [Mints -> [Accounts -> U64]]
         /\ paid["A"][Vault] = balance["A"][Vault] - a
         /\ paid["B"][Vault] = balance["B"][Vault] - b
    <3>1. /\ rest \in [Mints -> [Accounts -> U64]]
          /\ a <= rest["A"][Vault] /\ rest["A"][u] + Arriving("A", a) <= MaxU64
          /\ b <= rest["B"][Vault] /\ rest["B"][u] + Arriving("B", b) <= MaxU64
          /\ Arriving("A", a) \in Nat /\ Arriving("B", b) \in Nat
      BY <2>1, <2>7, <2>8, <2>9, Amounts64, FeeIsPart DEF CanTransfer, IInv, AmountsOK
    <3>2. paid = Transfer(Transfer(rest, "A", Vault, u, a), "B", Vault, u, b)
      BY <2>9
    <3> HIDE DEF paid
    <3>3. PICK m \in Mints, k \in Mints : m = "A" /\ k = "B" /\ m # k
      BY <2>8
    <3>4. /\ a <= rest[m][Vault] /\ rest[m][u] + Arriving(m, a) <= MaxU64
          /\ b <= rest[k][Vault] /\ rest[k][u] + Arriving(k, b) <= MaxU64
          /\ Arriving(m, a) \in Nat /\ Arriving(k, b) \in Nat
          /\ paid = Transfer(Transfer(rest, m, Vault, u, a), k, Vault, u, b)
      BY <3>1, <3>2, <3>3
    <3>5. /\ paid \in [Mints -> [Accounts -> U64]]
          /\ paid[m][Vault] = rest[m][Vault] - a
          /\ paid[m][u] = rest[m][u] + Arriving(m, a)
          /\ paid[k][Vault] = rest[k][Vault] - b
          /\ paid[k][u] = rest[k][u] + Arriving(k, b)
          /\ \A l \in Mints \ {m, k} : paid[l] = rest[l]
      BY <2>7, <2>8, <3>1, <3>3, <3>4, TransfersOK, SMTT(60)
    <3>6. QED
      BY <2>9, <3>3, <3>5
  <2> HIDE DEF paid
  <2>11. supply' \in [Mints -> U64] /\ supply'["LP"] = supply["LP"] - lp
    <3>1. supply["LP"] - lp \in U64
      BY <2>1, <2>3, <2>8, Amounts64, MaxU64Assumption DEF CanBurn, U64
    <3>2. QED
      BY <2>2, <2>8, <3>1 DEF IInv, AmountsOK
  <2>12. /\ reserve' \in [Tokens -> U64] /\ lp_supply' \in U64
         /\ reserve'["A"] = reserve["A"] - a /\ reserve'["B"] = reserve["B"] - b
    <3>1. /\ reserve["A"] - a \in U64 /\ reserve["B"] - b \in U64
          /\ lp_supply - lp \in U64 /\ reserve \in [Tokens -> U64]
      BY <2>3, <2>4, <2>5, <2>6, <2>7, MaxU64Assumption DEF IInv, AmountsOK, U64
    <3>2. QED
      BY <2>2, <3>1 DEF Tokens
  <2>13. AmountsOK' /\ SetUp'
    BY <2>1, <2>2, <2>10, <2>11, <2>12 DEF IInv, AmountsOK, SetUp
  <2>14. ShortfallIsWithheld'
    <3>1. /\ reserve["A"] <= balance["A"][Vault] + withheld["A"]
          /\ reserve["B"] <= balance["B"][Vault] + withheld["B"]
          /\ balance["A"][Vault] \in Nat /\ balance["B"][Vault] \in Nat
          /\ withheld["A"] \in Nat /\ withheld["B"] \in Nat
      BY <2>8, Amounts64 DEF IInv, ShortfallIsWithheld, Tokens
    <3>2. /\ reserve'["A"] <= balance'["A"][Vault] + withheld'["A"]
          /\ reserve'["B"] <= balance'["B"][Vault] + withheld'["B"]
      BY <2>2, <2>4, <2>7, <2>10, <2>12, <3>1
    <3>3. QED
      BY <3>2 DEF ShortfallIsWithheld, Tokens
  <2>15. MissingSharesAreBurned'
    <3>1. /\ lp_supply = supply["LP"] + burned_directly
          /\ lp_supply \in Nat /\ supply["LP"] \in Nat /\ burned_directly \in Nat
      BY <2>8, Amounts64 DEF IInv, MissingSharesAreBurned
    <3>2. lp_supply' = supply'["LP"] + burned_directly'
      BY <2>2, <2>3, <2>11, <3>1
    <3>3. QED
      BY <3>2 DEF MissingSharesAreBurned
  <2>16. Fair!Next
    <3>1. CASE lp = lp_supply
      <4>1. reserve'["A"] = 0 /\ reserve'["B"] = 0 /\ lp_supply' = 0
        BY <2>2, <2>4, <2>5, <2>6, <2>12, <3>1
      <4>2. reserve' = [t \in Tokens |-> 0]
        BY <2>12, <4>1 DEF Tokens
      <4>3. Fair!WithdrawAll
        BY <2>4, <4>1, <4>2 DEF Fair!WithdrawAll, Fair!Tokens, Tokens
      <4>4. QED
        BY <4>3 DEF Fair!Next
    <3>2. CASE lp # lp_supply
      <4>1. /\ reserve'["A"] * lp_supply >= reserve["A"] * lp_supply'
            /\ reserve'["B"] * lp_supply >= reserve["B"] * lp_supply'
        <5>1. (reserve["A"] - a) * lp_supply >= reserve["A"] * (lp_supply - lp)
          BY <2>3, <2>4, <2>5, <2>7, Z3
        <5>2. (reserve["B"] - b) * lp_supply >= reserve["B"] * (lp_supply - lp)
          BY <2>3, <2>4, <2>6, <2>7, Z3
        <5>3. QED
          BY <2>2, <2>12, <5>1, <5>2
      <4>2. Fair!KeepsEachShare
        BY <4>1 DEF Fair!KeepsEachShare, Fair!Tokens
      <4>3. /\ reserve'["A"] \in 1..MaxU64 /\ reserve'["B"] \in 1..MaxU64
            /\ lp_supply' \in 1..MaxU64 /\ lp_supply' < lp_supply
            /\ reserve'["A"] <= reserve["A"] /\ reserve'["B"] <= reserve["B"]
        BY <2>2, <2>3, <2>4, <2>5, <2>6, <2>7, <2>12, <3>2, MaxU64Assumption DEF U64
      <4>4. reserve' \in [Tokens -> 1..MaxU64]
        BY <2>12, <4>3 DEF Tokens
      <4>5. Fair!Withdraw
        BY <4>2, <4>3, <4>4 DEF Fair!Withdraw, Fair!Tokens, Fair!Positive, Tokens
      <4>6. QED
        BY <4>5 DEF Fair!Next
    <3>3. QED
      BY <3>1, <3>2
  <2>17. QED
    BY <2>13, <2>14, <2>15, <2>16 DEF KeepsInv
<1>3. QED
  BY <1>1, <1>2

LEMMA SwapKeepsInv ==
  ASSUME IInv, NEW u \in Users, NEW n \in Amounts, NEW min \in Minimums,
         NEW tin \in Tokens, Swap(u, n, min, tin)
  PROVE  KeepsInv
<1> DEFINE checks == SwapChecks(u, n, min, tin)
           tout   == Other(tin)
           out    == AmountOut(n, tin)
           paid   == Transfer(Transfer(balance, tin, u, Vault, n), tout, Vault, u, out)
<1>1. CASE ~Passes(checks)
  BY <1>1, RejectedKeepsInv DEF Swap, Reject, Accept
<1>2. CASE Passes(checks)
  <2>1. /\ n # 0 /\ created /\ reserve["A"] # 0 /\ reserve["B"] # 0
        /\ out # None /\ out # 0
        /\ CanTransfer(tin, u, Vault, n) /\ CanTransfer(tout, Vault, u, out)
        /\ ~(reserve[tin] + n > MaxU64)
    BY <1>2, SwapAccepted
  <2>2. /\ balance' = paid
        /\ reserve' = [reserve EXCEPT ![tin] = @ + n, ![tout] = @ - out]
        /\ withheld' = [withheld EXCEPT ![tin] = @ + Fee(tin, n)]
        /\ UNCHANGED <<created, lp_supply, fee_numerator, fee_denominator,
                       transfer_fee, supply, burned_directly>>
    BY <1>2 DEF Swap, Reject, ReserveAfterSwap
  <2>3. /\ tout \in Tokens /\ tout # tin
        /\ tin = "A" => tout = "B"
        /\ tin = "B" => tout = "A"
        /\ \A t \in Tokens : t = tin \/ t = tout
    BY DEF Other, Tokens
  <2>4. /\ n \in U64 /\ reserve[tin] \in U64 /\ reserve[tout] \in U64
        /\ fee_numerator \in U64 /\ fee_denominator \in U64
        /\ fee_numerator < fee_denominator
    BY <2>1, <2>3, AnchorDexAssumption, Amounts64 DEF IInv, SetUp
  <2>5. /\ out \in U64 /\ out < reserve[tout]
        /\ reserve[tin] * reserve[tout] <= (reserve[tin] + n) * (reserve[tout] - out)
    BY <2>1, <2>4, SwapIsFair DEF AmountOut
  <2> HIDE DEF tout, out, checks
  <2>6. /\ n \in Nat \ {0} /\ out \in Nat \ {0}
        /\ reserve[tin] \in Nat /\ reserve[tout] \in Nat
    BY <2>1, <2>4, <2>5, Amounts64
  <2>7. /\ balance \in [Mints -> [Accounts -> U64]]
        /\ tin \in Mints /\ tout \in Mints
        /\ u \in Accounts /\ Vault \in Accounts /\ u # Vault
    BY <2>3, Amounts64 DEF IInv, AmountsOK
  <2>8. /\ paid \in [Mints -> [Accounts -> U64]]
        /\ paid[tin][Vault] = balance[tin][Vault] + Arriving(tin, n)
        /\ paid[tout][Vault] = balance[tout][Vault] - out
    <3>1. /\ n <= balance[tin][u] /\ balance[tin][Vault] + Arriving(tin, n) <= MaxU64
          /\ out <= balance[tout][Vault]
          /\ balance[tout][u] + Arriving(tout, out) <= MaxU64
          /\ Arriving(tin, n) \in Nat /\ Arriving(tout, out) \in Nat
      BY <2>1, <2>6, <2>7, Amounts64, FeeIsPart DEF CanTransfer, IInv, AmountsOK
    <3>2. /\ paid \in [Mints -> [Accounts -> U64]]
          /\ paid[tin][u] = balance[tin][u] - n
          /\ paid[tin][Vault] = balance[tin][Vault] + Arriving(tin, n)
          /\ paid[tout][Vault] = balance[tout][Vault] - out
          /\ paid[tout][u] = balance[tout][u] + Arriving(tout, out)
          /\ \A l \in Mints \ {tin, tout} : paid[l] = balance[l]
      BY <2>3, <2>6, <2>7, <3>1, TransfersOK, SMTT(60)
    <3>3. QED
      BY <3>2
  <2> HIDE DEF paid
  <2>9. /\ reserve'[tin] = reserve[tin] + n /\ reserve'[tout] = reserve[tout] - out
        /\ reserve' \in [Tokens -> 1..MaxU64] /\ reserve' \in [Tokens -> U64]
    <3>1. /\ reserve[tin] + n \in 1..MaxU64 /\ reserve[tout] - out \in 1..MaxU64
          /\ reserve \in [Tokens -> U64]
      BY <2>1, <2>4, <2>5, <2>6, MaxU64Assumption DEF IInv, AmountsOK, U64
    <3>2. /\ reserve'[tin] = reserve[tin] + n /\ reserve'[tout] = reserve[tout] - out
          /\ DOMAIN reserve' = Tokens /\ reserve' = [t \in Tokens |-> reserve'[t]]
      BY <2>2, <2>3, <2>6, <3>1
    <3>3. \A t \in Tokens : reserve'[t] \in 1..MaxU64 /\ reserve'[t] \in U64
      BY <2>3, <3>1, <3>2, MaxU64Assumption DEF U64
    <3>4. QED
      BY <3>2, <3>3
  <2>10. /\ withheld' \in [Tokens -> Nat]
         /\ withheld'[tin] = withheld[tin] + Fee(tin, n)
         /\ withheld'[tout] = withheld[tout]
         /\ Fee(tin, n) \in Nat /\ Arriving(tin, n) \in Nat
         /\ Fee(tin, n) + Arriving(tin, n) = n
    <3>1. /\ Fee(tin, n) \in Nat /\ Arriving(tin, n) \in Nat
          /\ Fee(tin, n) + Arriving(tin, n) = n
      BY <2>6, FeeIsPart DEF IInv, AmountsOK
    <3>2. withheld \in [Tokens -> Nat]
      BY DEF IInv, AmountsOK
    <3>3. QED
      BY <2>2, <2>3, <3>1, <3>2
  <2>11. AmountsOK' /\ SetUp'
    BY <2>1, <2>2, <2>8, <2>9, <2>10 DEF IInv, AmountsOK, SetUp
  <2>12. ShortfallIsWithheld' /\ MissingSharesAreBurned'
    <3>1. /\ reserve[tin] <= balance[tin][Vault] + withheld[tin]
          /\ reserve[tout] <= balance[tout][Vault] + withheld[tout]
          /\ balance[tin][Vault] \in Nat /\ balance[tout][Vault] \in Nat
          /\ withheld[tin] \in Nat /\ withheld[tout] \in Nat
      BY <2>3, <2>7, Amounts64 DEF IInv, ShortfallIsWithheld
    <3>2. /\ reserve'[tin] <= balance'[tin][Vault] + withheld'[tin]
          /\ reserve'[tout] <= balance'[tout][Vault] + withheld'[tout]
      BY <2>2, <2>6, <2>8, <2>9, <2>10, <3>1
    <3>3. ShortfallIsWithheld'
      BY <2>3, <3>2 DEF ShortfallIsWithheld
    <3>4. MissingSharesAreBurned'
      BY <2>2 DEF IInv, MissingSharesAreBurned
    <3>5. QED
      BY <3>3, <3>4
  <2>13. Fair!Product(reserve) <= Fair!Product(reserve')
    <3>1. reserve[tin] * reserve[tout] <= reserve'[tin] * reserve'[tout]
      BY <2>5, <2>9
    <3>2. CASE tin = "A"
      BY <2>3, <3>1, <3>2 DEF Fair!Product
    <3>3. CASE tin = "B"
      <4>1. /\ reserve["B"] * reserve["A"] = reserve["A"] * reserve["B"]
            /\ reserve'["B"] * reserve'["A"] = reserve'["A"] * reserve'["B"]
        BY <2>3, <2>6, <2>9, <3>3
      <4>2. QED
        BY <2>3, <3>1, <3>3, <4>1 DEF Fair!Product
    <3>4. QED
      BY <3>2, <3>3 DEF Tokens
  <2>14. Fair!Next
    <3>1. lp_supply > 0 /\ UNCHANGED lp_supply
      BY <2>1, <2>2, Amounts64
    <3>2. \E t, s \in Fair!Tokens : reserve'[t] > reserve[t] /\ reserve'[s] < reserve[s]
      BY <2>3, <2>6, <2>9 DEF Fair!Tokens, Tokens
    <3>3. Fair!Product(reserve') >= Fair!Product(reserve)
      <4>1. /\ reserve["A"] \in Nat /\ reserve["B"] \in Nat
            /\ reserve'["A"] \in Nat /\ reserve'["B"] \in Nat
        BY <2>9, Amounts64, MaxU64Assumption DEF U64, Tokens
      <4>2. QED
        BY <2>13, <4>1 DEF Fair!Product
    <3>4. Fair!Trade
      BY <2>9, <3>1, <3>2, <3>3 DEF Fair!Trade, Fair!Tokens, Fair!Positive, Tokens
    <3>5. QED
      BY <3>4 DEF Fair!Next
  <2>15. QED
    BY <2>11, <2>12, <2>14 DEF KeepsInv
<1>3. QED
  BY <1>1, <1>2

LEMMA DirectTransferKeepsInv ==
  ASSUME IInv, NEW m \in DirectTransfers, NEW from \in Users, NEW to \in Accounts,
         NEW n \in Amounts, DirectTransfer(m, from, to, n)
  PROVE  KeepsInv
<1>1. /\ from # to /\ n \in Nat /\ n <= balance[m][from]
      /\ Arriving(m, n) \in Nat /\ balance[m][to] + Arriving(m, n) <= MaxU64
      /\ m \in Mints /\ from \in Accounts /\ from # Vault
      /\ balance \in [Mints -> [Accounts -> U64]]
      /\ balance' = Transfer(balance, m, from, to, n)
      /\ to = Vault => m \in Tokens
      /\ withheld' = IF to = Vault THEN [withheld EXCEPT ![m] = @ + Fee(m, n)] ELSE withheld
      /\ UNCHANGED <<poolVars, transfer_fee, supply, burned_directly>>
  <2>1. n \in Nat /\ from \in Accounts /\ from # Vault /\ m \in Mints
    BY AnchorDexAssumption, Amounts64
  <2>2. Arriving(m, n) \in Nat
    BY <2>1, FeeIsPart DEF IInv, AmountsOK
  <2>3. QED
    BY <2>1, <2>2 DEF DirectTransfer, CanTransfer, IInv, AmountsOK
<1>2. /\ balance' \in [Mints -> [Accounts -> U64]]
      /\ balance'[m][to] = balance[m][to] + Arriving(m, n)
      /\ \A k \in Mints : k # m => balance'[k] = balance[k]
      /\ \A a \in Accounts \ {from, to} : balance'[m][a] = balance[m][a]
  BY <1>1, TransferOK
<1>3. /\ withheld \in [Tokens -> Nat]
      /\ Fee(m, n) \in Nat
      /\ withheld' \in [Tokens -> Nat]
      /\ \A t \in Tokens : withheld[t] <= withheld'[t]
  <2>1. withheld \in [Tokens -> Nat] /\ Fee(m, n) \in Nat
    BY <1>1, FeeIsPart DEF IInv, AmountsOK
  <2>2. CASE to # Vault
    BY <1>1, <2>1, <2>2
  <2>3. CASE to = Vault
    BY <1>1, <2>1, <2>3
  <2>4. QED
    BY <2>1, <2>2, <2>3
<1>4. \A t \in Tokens : balance[t][Vault] <= balance'[t][Vault]
  <2> SUFFICES ASSUME NEW t \in Tokens
               PROVE  balance[t][Vault] <= balance'[t][Vault]
    OBVIOUS
  <2>1. t \in Mints /\ Vault \in Accounts /\ balance[t][Vault] \in Nat
    BY Amounts64
  <2>2. CASE t # m
    BY <1>2, <2>1, <2>2
  <2>3. CASE t = m /\ to = Vault
    BY <1>1, <1>2, <2>1, <2>3
  <2>4. CASE t = m /\ to # Vault
    BY <1>1, <1>2, <2>1, <2>4
  <2>5. QED
    BY <2>2, <2>3, <2>4
<1>5. ShortfallIsWithheld'
  <2>1. \A t \in Tokens : /\ reserve[t] \in Nat /\ balance[t][Vault] \in Nat
                          /\ balance'[t][Vault] \in Nat
                          /\ withheld[t] \in Nat /\ withheld'[t] \in Nat
    BY <1>2, <1>3, Amounts64
  <2>2. QED
    BY <1>1, <1>3, <1>4, <2>1 DEF IInv, ShortfallIsWithheld, poolVars
<1>6. QED
  BY <1>1, <1>2, <1>3, <1>5
     DEF IInv, KeepsInv, AmountsOK, SetUp, MissingSharesAreBurned, poolVars, Fair!vars

LEMMA DirectBurnKeepsInv ==
  ASSUME IInv, NEW m \in DirectBurns, NEW from \in Users, NEW n \in Amounts,
         DirectBurn(m, from, n)
  PROVE  KeepsInv
<1>1. /\ n \in Nat /\ n <= balance[m][from] /\ n <= supply[m]
      /\ m \in Mints /\ from \in Accounts /\ from # Vault
      /\ balance \in [Mints -> [Accounts -> U64]] /\ supply \in [Mints -> U64]
      /\ balance' = [balance EXCEPT ![m][from] = @ - n]
      /\ supply' = [supply EXCEPT ![m] = @ - n]
      /\ burned_directly' = IF m = "LP" THEN burned_directly + n ELSE burned_directly
      /\ UNCHANGED <<poolVars, transfer_fee, withheld>>
  BY AnchorDexAssumption, Amounts64 DEF DirectBurn, CanBurn, IInv, AmountsOK
<1>2. balance[m][from] - n \in U64 /\ supply[m] - n \in U64
  BY <1>1, Amounts64, MaxU64Assumption DEF U64
<1>3. balance' \in [Mints -> [Accounts -> U64]] /\ supply' \in [Mints -> U64]
  BY <1>1, <1>2
<1>4. \A t \in Tokens : balance'[t][Vault] = balance[t][Vault]
  BY <1>1, Amounts64
<1>5. ShortfallIsWithheld'
  BY <1>1, <1>4 DEF IInv, ShortfallIsWithheld, poolVars
<1>6. MissingSharesAreBurned' /\ burned_directly' \in Nat
  <2>1. /\ lp_supply = supply["LP"] + burned_directly /\ lp_supply' = lp_supply
        /\ supply["LP"] \in Nat /\ burned_directly \in Nat
    BY <1>1, Amounts64 DEF IInv, MissingSharesAreBurned, poolVars
  <2>2. CASE m = "LP"
    <3>1. supply'["LP"] = supply["LP"] - n /\ burned_directly' = burned_directly + n
      BY <1>1, <2>2
    <3>2. QED
      BY <1>1, <2>1, <3>1 DEF MissingSharesAreBurned
  <2>3. CASE m # "LP"
    <3>1. supply'["LP"] = supply["LP"] /\ burned_directly' = burned_directly
      BY <1>1, <2>3
    <3>2. QED
      BY <2>1, <3>1 DEF MissingSharesAreBurned
  <2>4. QED
    BY <2>2, <2>3
<1>7. QED
  BY <1>1, <1>3, <1>5, <1>6
     DEF IInv, KeepsInv, AmountsOK, SetUp, poolVars, Fair!vars

-----------------------------------------------------------------------------
LEMMA NextKeepsInv ==
  ASSUME IInv, [Next]_vars
  PROVE  KeepsInv
<1>1. CASE UNCHANGED vars
  BY <1>1, RejectedKeepsInv DEF vars, poolVars, tokenVars
<1>2. ASSUME NEW fee \in Fees, InitializePool(fee[1], fee[2])
      PROVE  KeepsInv
  BY <1>2, InitializeKeepsInv
<1>3. ASSUME NEW u \in Users, NEW a \in Amounts, NEW b \in Amounts,
             NEW min \in Minimums, AddLiquidity(u, a, b, min)
      PROVE  KeepsInv
  BY <1>3, AddKeepsInv
<1>4. ASSUME NEW u \in Users, NEW lp \in Amounts, NEW min_a \in Minimums,
             NEW min_b \in Minimums, RemoveLiquidity(u, lp, min_a, min_b)
      PROVE  KeepsInv
  BY <1>4, RemoveKeepsInv
<1>5. ASSUME NEW u \in Users, NEW n \in Amounts, NEW min \in Minimums,
             NEW t \in Tokens, Swap(u, n, min, t)
      PROVE  KeepsInv
  BY <1>5, SwapKeepsInv
<1>6. CASE GetPoolInfo
  BY <1>6, RejectedKeepsInv DEF GetPoolInfo, Reject
<1>7. ASSUME NEW m \in DirectTransfers, NEW from \in Users, NEW to \in Accounts,
             NEW n \in Amounts, DirectTransfer(m, from, to, n)
      PROVE  KeepsInv
  BY <1>7, DirectTransferKeepsInv
<1>8. ASSUME NEW m \in DirectBurns, NEW from \in Users, NEW n \in Amounts,
             DirectBurn(m, from, n)
      PROVE  KeepsInv
  BY <1>8, DirectBurnKeepsInv
<1>9. QED
  BY <1>1, <1>2, <1>3, <1>4, <1>5, <1>6, <1>7, <1>8 DEF Next

-----------------------------------------------------------------------------
(* No step puts more into the accounts than it takes out of them, mints or *)
(* withholds.                                                              *)
LEMMA TransferRows ==
  ASSUME NEW bal, bal = [k \in Mints |-> bal[k]],
         NEW m \in Mints, NEW from, NEW to, NEW n,
         NEW moved, moved = Transfer(bal, m, from, to, n)
  PROVE  /\ moved = [k \in Mints |-> moved[k]]
         /\ moved[m] = Sent(bal[m], from, to, n, Arriving(m, n))
         /\ \A k \in Mints \ {m} : moved[k] = bal[k]
BY DEF Transfer, Sent

(* The books of one mint, as numbers.                                      *)
LEMMA Rows ==
  ASSUME IInv, NEW m \in Mints
  PROVE  /\ balance[m] \in [Accounts -> Nat]
         /\ OnHand(m) \in Int /\ supply[m] \in Nat
         /\ Covers(balance[m], OnHand(m))
         /\ m \in Tokens => withheld[m] \in Nat /\ OnHand(m) = supply[m] - withheld[m]
         /\ m \notin Tokens => OnHand(m) = supply[m]
<1>1. balance \in [Mints -> [Accounts -> Nat]]
  BY MaxU64Assumption DEF IInv, AmountsOK, U64
<1>2. supply[m] \in Nat /\ (m \in Tokens => withheld[m] \in Nat)
  BY Amounts64
<1>3. Covers(balance[m], OnHand(m))
  BY DEF IInv, Conserved
<1>4. QED
  BY <1>1, <1>2, <1>3 DEF OnHand

(* Tokens that go to the vault, less what is withheld; that leave it.      *)
LEMMA PaidIn ==
  ASSUME IInv, NEW m \in Tokens, NEW u \in Users, NEW n \in Nat, n <= balance[m][u],
         balance'[m] = Sent(balance[m], u, Vault, n, Arriving(m, n)),
         supply'[m] = supply[m], withheld'[m] = withheld[m] + Fee(m, n)
  PROVE  Covers(balance'[m], OnHand(m)')
<1>1. /\ m \in Mints /\ u \in Accounts /\ Vault \in Accounts /\ u # Vault
  BY Amounts64
<1>2. /\ Fee(m, n) \in Nat /\ Arriving(m, n) \in Nat /\ Fee(m, n) + Arriving(m, n) = n
  BY FeeIsPart DEF IInv, AmountsOK
<1>3. /\ OnHand(m) \in Int /\ supply[m] \in Nat /\ withheld[m] \in Nat
      /\ OnHand(m) = supply[m] - withheld[m]
      /\ balance[m] \in [Accounts -> Nat] /\ Covers(balance[m], OnHand(m))
  BY <1>1, Rows
<1>4. OnHand(m)' = supply[m] - (withheld[m] + Fee(m, n))
  BY DEF OnHand
<1>5. OnHand(m)' \in Int /\ OnHand(m) - n + Arriving(m, n) <= OnHand(m)'
  BY <1>2, <1>3, <1>4
<1>6. Covers(Sent(balance[m], u, Vault, n, Arriving(m, n)), OnHand(m)')
  BY <1>1, <1>2, <1>3, <1>5, SentCovers
<1>7. QED
  BY <1>6

LEMMA PaidOut ==
  ASSUME IInv, NEW m \in Tokens, NEW u \in Users, NEW n \in Nat, n <= balance[m][Vault],
         balance'[m] = Sent(balance[m], Vault, u, n, Arriving(m, n)),
         supply'[m] = supply[m], withheld'[m] = withheld[m]
  PROVE  Covers(balance'[m], OnHand(m)')
<1>1. /\ m \in Mints /\ u \in Accounts /\ Vault \in Accounts /\ u # Vault
  BY Amounts64
<1>2. /\ Fee(m, n) \in Nat /\ Arriving(m, n) \in Nat /\ Fee(m, n) + Arriving(m, n) = n
  BY FeeIsPart DEF IInv, AmountsOK
<1>3. /\ OnHand(m) \in Int
      /\ balance[m] \in [Accounts -> Nat] /\ Covers(balance[m], OnHand(m))
  BY <1>1, Rows
<1>4. OnHand(m)' = OnHand(m)
  BY DEF OnHand
<1>5. OnHand(m)' \in Int /\ OnHand(m) - n + Arriving(m, n) <= OnHand(m)'
  BY <1>2, <1>3, <1>4
<1>6. Covers(Sent(balance[m], Vault, u, n, Arriving(m, n)), OnHand(m)')
  BY <1>1, <1>2, <1>3, <1>5, SentCovers
<1>7. QED
  BY <1>6

(* Shares that are minted or burned.                                       *)
LEMMA SharesIssued ==
  ASSUME IInv, NEW u \in Users, NEW d \in Int,
         balance'["LP"] = [balance["LP"] EXCEPT ![u] = @ + d],
         supply'["LP"] = supply["LP"] + d
  PROVE  Covers(balance'["LP"], OnHand("LP")')
<1>1. "LP" \in Mints /\ "LP" \notin Tokens /\ u \in Accounts
  BY Amounts64 DEF Tokens
<1>2. /\ OnHand("LP") = supply["LP"] /\ supply["LP"] \in Int
      /\ balance["LP"] \in [Accounts -> Nat] /\ Covers(balance["LP"], OnHand("LP"))
  BY <1>1, Rows
<1>3. supply["LP"] + d \in Int /\ OnHand("LP")' = supply'["LP"]
  BY <1>1, <1>2 DEF OnHand
<1>4. Covers([balance["LP"] EXCEPT ![u] = @ + d], supply["LP"] + d)
  BY <1>1, <1>2, IssuedCovers
<1>5. QED
  BY <1>3, <1>4

LEMMA RejectedConserves ==
  ASSUME IInv, UNCHANGED tokenVars
  PROVE  Conserved'
BY DEF IInv, Conserved, OnHand, tokenVars

(* The three books of the token program, mint by mint.                     *)
LEMMA BooksByMint ==
  ASSUME IInv
  PROVE  /\ Mints = {"A", "B", "LP"}
         /\ balance = [k \in Mints |-> balance[k]]
         /\ supply = [k \in Mints |-> supply[k]]
         /\ withheld = [t \in Tokens |-> withheld[t]]
         /\ balance["LP"] = [u \in Accounts |-> balance["LP"][u]]
BY DEF IInv, AmountsOK, Tokens, Mints

LEMMA AddConserves ==
  ASSUME IInv, NEW u \in Users, NEW a \in Amounts, NEW b \in Amounts,
         NEW min \in Minimums, AddLiquidity(u, a, b, min)
  PROVE  Conserved'
<1> DEFINE checks == AddChecks(u, a, b, min)
           lp     == LpTokens(a, b)
           paid_a == Transfer(balance, "A", u, Vault, a)
           paid   == Transfer(paid_a, "B", u, Vault, b)
<1>1. CASE ~Passes(checks)
  BY <1>1, RejectedConserves DEF AddLiquidity, Reject, Accept
<1>2. CASE Passes(checks)
  <2>1. lp # None /\ CanTransfer("A", u, Vault, a) /\ CanTransfer("B", u, Vault, b)
    BY <1>2, AddAccepted
  <2>2. /\ balance' = [paid EXCEPT !["LP"][u] = @ + lp]
        /\ supply' = [supply EXCEPT !["LP"] = @ + lp]
        /\ withheld' = [withheld EXCEPT !["A"] = @ + Fee("A", a), !["B"] = @ + Fee("B", b)]
    BY <1>2 DEF AddLiquidity, Reject
  <2>3. /\ "A" \in Tokens /\ "B" \in Tokens /\ a \in Nat /\ b \in Nat
        /\ a <= balance["A"][u] /\ b <= balance["B"][u]
    BY <2>1, Amounts64, AnchorDexAssumption DEF CanTransfer
  <2>4. lp \in Int
    BY <2>1, SharesAreFair, Amounts64
  <2> HIDE DEF lp, checks
  <2>5. /\ paid_a = [k \in Mints |-> paid_a[k]]
        /\ paid_a["A"] = Sent(balance["A"], u, Vault, a, Arriving("A", a))
        /\ paid_a["B"] = balance["B"] /\ paid_a["LP"] = balance["LP"]
    BY BooksByMint, TransferRows
  <2> HIDE DEF paid_a
  <2>6. /\ paid = [k \in Mints |-> paid[k]]
        /\ paid["B"] = Sent(balance["B"], u, Vault, b, Arriving("B", b))
        /\ paid["A"] = paid_a["A"] /\ paid["LP"] = balance["LP"]
    BY <2>5, BooksByMint, TransferRows
  <2> HIDE DEF paid
  <2>7. /\ balance'["A"] = paid["A"] /\ balance'["B"] = paid["B"]
        /\ balance'["LP"] = [balance["LP"] EXCEPT ![u] = @ + lp]
    BY <2>2, <2>6, BooksByMint
  <2>8. /\ supply'["A"] = supply["A"] /\ supply'["B"] = supply["B"]
        /\ supply'["LP"] = supply["LP"] + lp
        /\ withheld'["A"] = withheld["A"] + Fee("A", a)
        /\ withheld'["B"] = withheld["B"] + Fee("B", b)
    BY <2>2, <2>3, BooksByMint DEF Tokens
  <2>9. Covers(balance'["A"], OnHand("A")')
    BY <2>3, <2>5, <2>6, <2>7, <2>8, PaidIn
  <2>10. Covers(balance'["B"], OnHand("B")')
    BY <2>3, <2>6, <2>7, <2>8, PaidIn
  <2>11. Covers(balance'["LP"], OnHand("LP")')
    BY <2>4, <2>7, <2>8, SharesIssued
  <2>12. QED
    BY <2>9, <2>10, <2>11, BooksByMint DEF Conserved
<1>3. QED
  BY <1>1, <1>2

(* What a withdrawal pays out is an amount.                                *)
LEMMA RemovalPaid ==
  ASSUME IInv, NEW t \in Tokens, NEW lp \in U64, ~(lp > lp_supply),
         Removal(t, lp) # None
  PROVE  Removal(t, lp) \in Nat
<1>1. PICK r, S, out :
        /\ r \in U64 /\ S \in U64 \ {0}
        /\ r = reserve[t] /\ S = lp_supply /\ out = Removal(t, lp)
  BY Amounts64 DEF Removal, RemovalAmount
<1>2. out = RemovalAmount(lp, r, S) /\ out # None /\ lp <= S
  BY <1>1, MaxU64Assumption DEF Removal, U64
<1>3. out \in U64
  BY <1>1, <1>2, RemovalIsFair
<1>4. QED
  BY <1>1, <1>3, Amounts64

LEMMA RemoveConserves ==
  ASSUME IInv, NEW u \in Users, NEW lp \in Amounts,
         NEW min_a \in Minimums, NEW min_b \in Minimums,
         RemoveLiquidity(u, lp, min_a, min_b)
  PROVE  Conserved'
<1> DEFINE checks == RemoveChecks(u, lp, min_a, min_b)
           a      == Removal("A", lp)
           b      == Removal("B", lp)
           burned == [balance EXCEPT !["LP"][u] = @ - lp]
           paid_a == Transfer(burned, "A", Vault, u, a)
           paid   == Transfer(paid_a, "B", Vault, u, b)
<1>1. CASE ~Passes(checks)
  BY <1>1, RejectedConserves DEF RemoveLiquidity, Reject, Accept
<1>2. CASE Passes(checks)
  <2>1. /\ a # None /\ b # None /\ ~(lp > lp_supply)
        /\ CanTransfer("A", Vault, u, a) /\ CanTransfer("B", Vault, u, b)
    BY <1>2, RemoveAccepted
  <2>2. /\ balance' = paid
        /\ supply' = [supply EXCEPT !["LP"] = @ - lp]
        /\ withheld' = withheld
    BY <1>2 DEF RemoveLiquidity, Reject
  <2>3. /\ "A" \in Tokens /\ "B" \in Tokens /\ lp \in U64 /\ lp \in Nat
    BY Amounts64, AnchorDexAssumption
  <2>4. a \in Nat /\ b \in Nat
    BY <2>1, <2>3, RemovalPaid
  <2> HIDE DEF a, b, checks
  <2>5. a <= balance["A"][Vault] /\ b <= balance["B"][Vault]
    BY <2>1, <2>3, <2>4, Amounts64 DEF CanTransfer
  <2>6. /\ burned = [k \in Mints |-> burned[k]]
        /\ burned["A"] = balance["A"] /\ burned["B"] = balance["B"]
        /\ burned["LP"] = [balance["LP"] EXCEPT ![u] = @ - lp]
    BY BooksByMint
  <2> HIDE DEF burned
  <2>7. /\ paid_a = [k \in Mints |-> paid_a[k]]
        /\ paid_a["A"] = Sent(balance["A"], Vault, u, a, Arriving("A", a))
        /\ paid_a["B"] = balance["B"] /\ paid_a["LP"] = burned["LP"]
    BY <2>6, BooksByMint, TransferRows
  <2> HIDE DEF paid_a
  <2>8. /\ paid["B"] = Sent(balance["B"], Vault, u, b, Arriving("B", b))
        /\ paid["A"] = paid_a["A"] /\ paid["LP"] = burned["LP"]
    BY <2>7, BooksByMint, TransferRows
  <2> HIDE DEF paid
  <2>9. Covers(balance'["A"], OnHand("A")')
    BY <2>2, <2>3, <2>4, <2>5, <2>7, <2>8, BooksByMint, PaidOut
  <2>10. Covers(balance'["B"], OnHand("B")')
    BY <2>2, <2>3, <2>4, <2>5, <2>8, BooksByMint, PaidOut
  <2>11. Covers(balance'["LP"], OnHand("LP")')
    <3>1. /\ -lp \in Int
          /\ supply["LP"] - lp = supply["LP"] + (-lp)
      <4>1. supply["LP"] \in Nat
        BY BooksByMint, Rows
      <4>2. QED
        BY <2>3, <4>1
    <3>2. [balance["LP"] EXCEPT ![u] = @ - lp] = [balance["LP"] EXCEPT ![u] = @ + (-lp)]
      <4>1. \A v \in Users : balance["LP"][v] - lp = balance["LP"][v] + (-lp)
        BY <2>3, Amounts64
      <4>2. QED
        BY <4>1
    <3>3. supply'["LP"] = supply["LP"] + (-lp)
      BY <2>2, <3>1, BooksByMint
    <3>4. QED
      BY <2>2, <2>6, <2>8, <3>1, <3>2, <3>3, SharesIssued
  <2>12. QED
    BY <2>9, <2>10, <2>11, BooksByMint DEF Conserved
<1>3. QED
  BY <1>1, <1>2

LEMMA SwapConserves ==
  ASSUME IInv, NEW u \in Users, NEW n \in Amounts, NEW min \in Minimums,
         NEW tin \in Tokens, Swap(u, n, min, tin)
  PROVE  Conserved'
<1> DEFINE checks == SwapChecks(u, n, min, tin)
           tout   == Other(tin)
           out    == AmountOut(n, tin)
           once   == Transfer(balance, tin, u, Vault, n)
           paid   == Transfer(once, tout, Vault, u, out)
<1>1. CASE ~Passes(checks)
  BY <1>1, RejectedConserves DEF Swap, Reject, Accept
<1>2. CASE Passes(checks)
  <2>1. /\ created /\ out # None
        /\ CanTransfer(tin, u, Vault, n) /\ CanTransfer(tout, Vault, u, out)
    BY <1>2, SwapAccepted
  <2>2. /\ balance' = paid /\ supply' = supply
        /\ withheld' = [withheld EXCEPT ![tin] = @ + Fee(tin, n)]
    BY <1>2 DEF Swap, Reject
  <2>3. /\ tout \in Tokens /\ tout # tin /\ tin \in Mints /\ tout \in Mints
        /\ \A m \in Mints : m \in {tin, tout, "LP"}
        /\ "LP" \notin {tin, tout} /\ "LP" \in Mints /\ "LP" \notin Tokens
    BY DEF Other, Tokens, Mints
  <2>4. n \in U64 /\ n \in Nat
    BY AnchorDexAssumption, Amounts64
  <2>5. out \in Nat
    <3>1. /\ reserve[tin] \in U64 /\ reserve[tout] \in U64
          /\ fee_numerator \in U64 /\ fee_denominator \in U64
          /\ fee_numerator < fee_denominator
      BY <2>1, <2>3, Amounts64 DEF IInv, SetUp
    <3>2. out \in U64
      BY <2>1, <2>4, <3>1, SwapIsFair DEF AmountOut
    <3>3. QED
      BY <3>2, Amounts64
  <2> HIDE DEF tout, out, checks
  <2>6. n <= balance[tin][u] /\ out <= balance[tout][Vault]
    BY <2>1, <2>3, <2>4, <2>5, Amounts64 DEF CanTransfer
  <2>7. /\ once = [k \in Mints |-> once[k]]
        /\ once[tin] = Sent(balance[tin], u, Vault, n, Arriving(tin, n))
        /\ once[tout] = balance[tout] /\ once["LP"] = balance["LP"]
    BY <2>3, BooksByMint, TransferRows
  <2> HIDE DEF once
  <2>8. /\ paid[tout] = Sent(balance[tout], Vault, u, out, Arriving(tout, out))
        /\ paid[tin] = once[tin] /\ paid["LP"] = balance["LP"]
    BY <2>3, <2>7, TransferRows
  <2> HIDE DEF paid
  <2>9. withheld'[tin] = withheld[tin] + Fee(tin, n) /\ withheld'[tout] = withheld[tout]
    BY <2>2, <2>3, BooksByMint
  <2>10. Covers(balance'[tin], OnHand(tin)')
    BY <2>2, <2>4, <2>6, <2>7, <2>8, <2>9, PaidIn
  <2>11. Covers(balance'[tout], OnHand(tout)')
    BY <2>2, <2>3, <2>5, <2>6, <2>8, <2>9, PaidOut
  <2>12. Covers(balance'["LP"], OnHand("LP")')
    BY <2>2, <2>3, <2>8 DEF IInv, Conserved, OnHand
  <2>13. QED
    BY <2>3, <2>10, <2>11, <2>12 DEF Conserved
<1>3. QED
  BY <1>1, <1>2

LEMMA DirectTransferConserves ==
  ASSUME IInv, NEW m \in DirectTransfers, NEW from \in Users, NEW to \in Accounts,
         NEW n \in Amounts, DirectTransfer(m, from, to, n)
  PROVE  Conserved'
<1>1. /\ m \in Mints /\ n \in Nat /\ from \in Accounts /\ from # to
  BY AnchorDexAssumption, Amounts64 DEF DirectTransfer
<1>2. /\ n <= balance[m][from]
      /\ balance' = Transfer(balance, m, from, to, n) /\ supply' = supply
      /\ to = Vault => /\ m \in Tokens
                       /\ withheld' = [withheld EXCEPT ![m] = @ + Fee(m, n)]
      /\ to # Vault => withheld' = withheld
  BY <1>1, Amounts64 DEF DirectTransfer, CanTransfer
<1>3. /\ balance'[m] = Sent(balance[m], from, to, n, Arriving(m, n))
      /\ \A k \in Mints \ {m} : balance'[k] = balance[k]
  BY <1>1, <1>2, BooksByMint, TransferRows
<1>4. ASSUME NEW k \in Mints, k # m PROVE Covers(balance'[k], OnHand(k)')
  <2>1. OnHand(k)' = OnHand(k)
    BY <1>2, <1>4, BooksByMint DEF OnHand
  <2>2. QED
    BY <1>3, <1>4, <2>1 DEF IInv, Conserved
<1>5. Covers(balance'[m], OnHand(m)')
  <2>1. CASE to = Vault
    <3>1. m \in Tokens /\ withheld'[m] = withheld[m] + Fee(m, n)
      BY <1>2, <2>1, BooksByMint
    <3>2. QED
      BY <1>1, <1>2, <1>3, <2>1, <3>1, PaidIn
  <2>2. CASE to # Vault
    <3>1. /\ Fee(m, n) \in Nat /\ Arriving(m, n) \in Nat /\ Fee(m, n) + Arriving(m, n) = n
      BY <1>1, FeeIsPart DEF IInv, AmountsOK
    <3>2. /\ OnHand(m) \in Int
          /\ balance[m] \in [Accounts -> Nat] /\ Covers(balance[m], OnHand(m))
      BY <1>1, Rows
    <3>3. OnHand(m)' = OnHand(m) /\ OnHand(m) - n + Arriving(m, n) <= OnHand(m)
      BY <1>1, <1>2, <2>2, <3>1, <3>2 DEF OnHand
    <3>4. Covers(Sent(balance[m], from, to, n, Arriving(m, n)), OnHand(m))
      BY <1>1, <1>2, <3>1, <3>2, <3>3, SentCovers
    <3>5. QED
      BY <1>3, <3>3, <3>4
  <2>3. QED
    BY <2>1, <2>2
<1>6. QED
  BY <1>4, <1>5 DEF Conserved

LEMMA DirectBurnConserves ==
  ASSUME IInv, NEW m \in DirectBurns, NEW from \in Users, NEW n \in Amounts,
         DirectBurn(m, from, n)
  PROVE  Conserved'
<1> DEFINE d == -n
<1>1. /\ m \in Mints /\ n \in Nat /\ from \in Accounts /\ d \in Int
  BY AnchorDexAssumption, Amounts64
<1>2. /\ balance' = [balance EXCEPT ![m][from] = @ - n]
      /\ supply' = [supply EXCEPT ![m] = @ - n] /\ withheld' = withheld
  BY DEF DirectBurn
<1>3. ASSUME NEW k \in Mints, k # m PROVE Covers(balance'[k], OnHand(k)')
  <2>1. OnHand(k)' = OnHand(k) /\ balance'[k] = balance[k]
    BY <1>2, <1>3, BooksByMint DEF OnHand
  <2>2. QED
    BY <2>1 DEF IInv, Conserved
<1>4. Covers(balance'[m], OnHand(m)')
  <2>1. /\ balance[m] \in [Accounts -> Nat] /\ supply[m] \in Nat
        /\ OnHand(m) \in Int /\ Covers(balance[m], OnHand(m))
        /\ m \in Tokens => withheld[m] \in Nat
    BY <1>1, Rows
  <2>2. balance'[m] = [balance[m] EXCEPT ![from] = @ - n] /\ supply'[m] = supply[m] - n
    BY <1>1, <1>2, BooksByMint
  <2>3. [balance[m] EXCEPT ![from] = @ - n] = [balance[m] EXCEPT ![from] = @ + d]
    <3>1. balance[m][from] - n = balance[m][from] + d
      BY <1>1, <2>1
    <3>2. QED
      BY <3>1
  <2>4. OnHand(m)' = OnHand(m) + d
    BY <1>1, <1>2, <2>1, <2>2 DEF OnHand
  <2> HIDE DEF d
  <2>5. Covers([balance[m] EXCEPT ![from] = @ + d], OnHand(m) + d)
    BY <1>1, <2>1, IssuedCovers
  <2>6. QED
    BY <2>2, <2>3, <2>4, <2>5
<1>5. QED
  BY <1>3, <1>4 DEF Conserved

LEMMA NextConserves ==
  ASSUME IInv, [Next]_vars
  PROVE  Conserved'
<1>1. CASE UNCHANGED vars
  BY <1>1, RejectedConserves DEF vars, tokenVars
<1>2. CASE GetPoolInfo
  BY <1>2, RejectedConserves DEF GetPoolInfo, Reject
<1>3. CASE \E fee \in Fees : InitializePool(fee[1], fee[2])
  BY <1>3, RejectedConserves DEF InitializePool, Reject
<1>4. QED
  BY <1>1, <1>2, <1>3, AddConserves, RemoveConserves, SwapConserves,
     DirectTransferConserves, DirectBurnConserves DEF Next

LEMMA InitIInv == Init => IInv
<1> SUFFICES ASSUME Init PROVE IInv
  OBVIOUS
<1>1. NumUsers * Endowment \in U64 /\ Endowment \in U64 /\ 0 \in U64
  BY AnchorDexAssumption, MaxU64Assumption DEF U64
<1>2. AmountsOK
  BY <1>1 DEF Init, AmountsOK
<1>3. SetUp
  BY DEF Init, SetUp
<1>4. ShortfallIsWithheld /\ MissingSharesAreBurned
  BY DEF Init, ShortfallIsWithheld, MissingSharesAreBurned, Mints, Tokens, Accounts, Users, Vault
<1>5. Fair!IInv
  BY MaxU64Assumption, Fair!InitIInv DEF Init, Fair!Init, Tokens, Fair!Tokens
<1>6. Conserved
  <2> SUFFICES ASSUME NEW m \in Mints PROVE Covers(balance[m], OnHand(m))
    BY DEF Conserved
  <2> DEFINE each == IF m \in Tokens THEN Endowment ELSE 0
  <2>1. each \in Nat
    BY AnchorDexAssumption, MaxU64Assumption DEF U64
  <2>2. /\ balance[m] = [i \in Accounts |-> IF i \in Users THEN each ELSE 0]
        /\ OnHand(m) = NumUsers * each
    <3>1. CASE m \in Tokens
      BY <1>1, <3>1, MaxU64Assumption DEF Init, OnHand, U64
    <3>2. CASE m \notin Tokens
      BY AccountRange, <3>2 DEF Init, OnHand
    <3>3. QED
      BY <3>1, <3>2
  <2> HIDE DEF each
  <2>3. NumUsers * each \in Int
    BY <2>1, AccountRange
  <2>4. SumsTo(balance[m], NumUsers, NumUsers * each)
    BY <2>1, <2>2, AccountRange, EqualEntries
  <2>5. QED
    BY <2>2, <2>3, <2>4 DEF Covers
<1>7. QED
  BY <1>2, <1>3, <1>4, <1>5, <1>6 DEF IInv

LEMMA StepIInv ==
  ASSUME IInv, [Next]_vars
  PROVE  IInv'
<1>1. KeepsInv /\ Conserved'
  BY NextKeepsInv, NextConserves
<1>2. Fair!IInv'
  BY <1>1, MaxU64Assumption, Fair!StepIInv DEF IInv, KeepsInv
<1>3. QED
  BY <1>1, <1>2 DEF IInv, KeepsInv

(* The inductive invariant of the Anchor program.                          *)
THEOREM AnchorDexInvariant == Spec => []IInv
BY InitIInv, StepIInv, PTL DEF Spec

(* The books count no token that was not sent to the vault: what is not    *)
(* there was withheld from transfers to it.                                *)
THEOREM AnchorDexShortfall == Spec => []ShortfallIsWithheld
<1>1. IInv => ShortfallIsWithheld
  BY DEF IInv
<1>2. QED
  BY <1>1, AnchorDexInvariant, PTL

(* The shares counted are those that exist and those that their holders    *)
(* burned without the program, whatever the mints of the two tokens        *)
(* withhold and whoever passes shares on.                                  *)
THEOREM AnchorDexShares == Spec => []MissingSharesAreBurned
<1>1. IInv => MissingSharesAreBurned
  BY DEF IInv
<1>2. QED
  BY <1>1, AnchorDexInvariant, PTL

(* The books of the Anchor program are those of a fair pool.  There is no  *)
(* hypothesis on the account: its size is not the caller's choice.         *)
THEOREM AnchorDexImplementsFairPool == Spec => ImplementsFairPool
<1>1. Init => Abstract!Init
  BY DEF Init, Abstract!Init, Tokens, Abstract!Tokens
<1>2. [Fair!Next]_(Fair!vars) => [Abstract!Next]_(Abstract!vars)
  BY DEF Fair!Next, Fair!vars, Fair!FirstDeposit, Fair!Deposit, Fair!Withdraw,
         Fair!WithdrawAll, Fair!Trade, Fair!KeepsEachShare, Fair!Product,
         Fair!Tokens, Fair!Positive,
         Abstract!Next, Abstract!vars, Abstract!FirstDeposit, Abstract!Deposit,
         Abstract!Withdraw, Abstract!WithdrawAll, Abstract!Trade,
         Abstract!KeepsEachShare, Abstract!Product, Abstract!Tokens, Abstract!Positive
<1>3. IInv /\ [Next]_vars => [Abstract!Next]_(Abstract!vars)
  BY <1>2, NextKeepsInv DEF KeepsInv
<1>4. QED
  BY <1>1, <1>3, AnchorDexInvariant, PTL DEF Spec, ImplementsFairPool, Abstract!Spec

-----------------------------------------------------------------------------
(* No account holds more than is on hand, nor a user and the vault         *)
(* together; and no more is withheld than exists.                          *)
LEMMA Holdings ==
  ASSUME IInv, NEW m \in Mints, NEW u \in Users
  PROVE  /\ balance[m][Vault] + balance[m][u] <= supply[m]
         /\ m \in Tokens => withheld[m] <= supply[m]
<1>1. /\ balance[m] \in [Accounts -> Nat] /\ supply[m] \in Nat
      /\ Covers(balance[m], OnHand(m))
      /\ m \in Tokens => withheld[m] \in Nat /\ OnHand(m) = supply[m] - withheld[m]
      /\ m \notin Tokens => OnHand(m) = supply[m]
  BY Rows
<1>2. PICK total \in Int : SumsTo(balance[m], NumUsers, total) /\ total <= OnHand(m)
  BY <1>1 DEF Covers
<1>3. Vault \in Accounts /\ u \in Accounts /\ Vault < u
  BY AnchorDexAssumption DEF Accounts, Users, Vault
<1>4. balance[m][Vault] + balance[m][u] <= total /\ total \in Nat
  BY <1>1, <1>2, <1>3, TwoEntries, AccountRange
<1>5. balance[m][Vault] \in Nat /\ balance[m][u] \in Nat
  BY <1>1, <1>3
<1>6. QED
  BY <1>1, <1>2, <1>4, <1>5

(* All that a withdrawal asks for, a holder has, but for what a vault      *)
(* lacks because fees were withheld from what was sent to it.              *)
LEMMA HolderCanRemove ==
  ASSUME IInv, NEW u \in Users, NEW lp \in 1..balance["LP"][u]
  PROVE  /\ Removal("A", lp) > 0 \/ Removal("B", lp) > 0
         /\ Failed(RemoveChecks(u, lp, 0, 0))
              \subseteq {OutOfVault[t] : t \in {s \in Tokens : withheld[s] > 0}}
<1> DEFINE a == Removal("A", lp)
           b == Removal("B", lp)
<1>1. /\ balance["LP"][u] \in U64 /\ balance["LP"][u] \in Nat
      /\ balance["LP"][Vault] \in Nat /\ supply["LP"] \in Nat
      /\ lp_supply \in U64 /\ lp_supply \in Nat
      /\ reserve["A"] \in U64 /\ reserve["B"] \in U64
      /\ reserve["A"] \in Nat /\ reserve["B"] \in Nat
      /\ U64 \subseteq Nat
  BY Amounts64
<1>2. balance["LP"][Vault] + balance["LP"][u] <= supply["LP"]
  BY Holdings, Amounts64
<1>3. supply["LP"] <= lp_supply
  BY <1>1, Amounts64 DEF IInv, MissingSharesAreBurned
<1>4. /\ lp \in Nat \ {0} /\ lp <= balance["LP"][u] /\ lp <= supply["LP"]
      /\ lp <= lp_supply
  BY <1>1, <1>2, <1>3
<1>5. lp \in U64 /\ lp_supply \in U64 \ {0} /\ lp # 0
  BY <1>1, <1>4, MaxU64Assumption DEF U64
<1>6. created
  BY <1>5 DEF IInv, SetUp
<1>7. /\ a \in U64 /\ a <= reserve["A"]
      /\ lp_supply <= reserve["A"] => lp <= a
  BY <1>1, <1>4, <1>5, RemovalDefined DEF Removal
<1>8. /\ b \in U64 /\ b <= reserve["B"]
      /\ lp_supply <= reserve["B"] => lp <= b
  BY <1>1, <1>4, <1>5, RemovalDefined DEF Removal
<1> HIDE DEF a, b
<1>9. a \in Nat /\ b \in Nat /\ a # None /\ b # None
  BY <1>7, <1>8, <1>1 DEF None
<1>10. a > 0 \/ b > 0
  <2>1. lp_supply * lp_supply <= reserve["A"] * reserve["B"]
    BY DEF IInv, Fair!IInv, Fair!SharesBoundedByReserves, Fair!Product
  <2>2. lp_supply <= reserve["A"] \/ lp_supply <= reserve["B"]
    <3>1. /\ lp_supply \in Nat /\ reserve["A"] \in Nat /\ reserve["B"] \in Nat
      BY <1>1
    <3>2. QED
      BY <2>1, <3>1, Z3
  <2>3. QED
    BY <1>4, <1>7, <1>8, <1>9, <2>2
<1>11. CanBurn("LP", u, lp)
  BY <1>1, <1>4 DEF CanBurn
<1>12. ASSUME NEW t \in Tokens, NEW n \in Nat, n <= reserve[t], ~(withheld[t] > 0)
       PROVE  CanTransfer(t, Vault, u, n)
  <2>1. /\ withheld[t] \in Nat /\ balance[t][Vault] \in Nat /\ balance[t][u] \in Nat
        /\ reserve[t] \in Nat /\ supply[t] \in 0..MaxU64 /\ t \in Mints
    BY Amounts64 DEF U64
  <2>2. reserve[t] <= balance[t][Vault] + withheld[t]
    BY DEF IInv, ShortfallIsWithheld
  <2>3. balance[t][Vault] + balance[t][u] <= supply[t]
    BY <2>1, Holdings
  <2>4. Fee(t, n) \in Nat /\ Arriving(t, n) \in Nat /\ Fee(t, n) + Arriving(t, n) = n
    BY FeeIsPart DEF IInv, AmountsOK
  <2>5. QED
    BY <1>12, <2>1, <2>2, <2>3, <2>4, MaxU64Assumption DEF CanTransfer
<1> DEFINE checks == RemoveChecks(u, lp, 0, 0)
<1>13. /\ created /\ ~(lp = 0) /\ None \notin {a, b}
       /\ ~(a < 0 \/ b < 0) /\ ~(a > reserve["A"] \/ b > reserve["B"] \/ lp > lp_supply)
  BY <1>1, <1>4, <1>6, <1>7, <1>8, <1>9
<1>14. /\ DOMAIN checks = 1..8 /\ \A i \in {1, 2, 3, 4, 5, 8} : checks[i] = "Ok"
       /\ checks[6] = Check(~CanTransfer("A", Vault, u, a), "TokenError")
       /\ checks[7] = Check(~CanTransfer("B", Vault, u, b), "TokenError")
  BY <1>11, <1>13 DEF RemoveChecks, Check, Exists, a, b
<1>15. /\ checks[6] # "Ok" => withheld["A"] > 0
       /\ checks[7] # "Ok" => withheld["B"] > 0
  BY <1>7, <1>8, <1>9, <1>12, <1>14 DEF Check, Tokens
<1>16. Failed(checks) \subseteq {OutOfVault[t] : t \in {s \in Tokens : withheld[s] > 0}}
  <2> HIDE DEF checks
  <2> SUFFICES ASSUME NEW i \in Failed(checks)
               PROVE  \E t \in Tokens : withheld[t] > 0 /\ i = OutOfVault[t]
    OBVIOUS
  <2>1. i \in {6, 7} /\ checks[i] # "Ok"
    BY <1>14 DEF Failed
  <2>2. OutOfVault["A"] = 6 /\ OutOfVault["B"] = 7
    BY DEF OutOfVault, Tokens
  <2>3. QED
    BY <1>15, <2>1, <2>2 DEF Tokens
<1>17. QED
  BY <1>10, <1>16 DEF a, b

(* A holder can withdraw any part of his shares at any time, unless fees   *)
(* were withheld from what was sent to a vault; without transfer fees,     *)
(* always.                                                                 *)
THEOREM AnchorDexRedeemable == Spec => []RedeemableUnlessWithheld
<1>1. IInv => RedeemableUnlessWithheld
  BY HolderCanRemove DEF RedeemableUnlessWithheld
<1>2. QED
  BY <1>1, AnchorDexInvariant, PTL

-----------------------------------------------------------------------------
Named == result \in Results \cup {"none"}

(* An instruction returns Ok or the error of its first failing check.      *)
LEMMA ChecksGiveNamed ==
  ASSUME NEW n \in Nat, NEW checks, DOMAIN checks = 1..n,
         \A i \in 1..n : checks[i] \in Results,
         Reject(checks) \/ Accept(checks)
  PROVE  result' \in Results
<1> SUFFICES ASSUME Reject(checks) PROVE result' \in Results
  BY DEF Accept, Results
<1>1. Failed(checks) \subseteq Nat /\ Failed(checks) # {} /\ Failed(checks) \subseteq 1..n
  BY DEF Reject, Passes, Failed
<1>2. \E i \in Failed(checks) : \A j \in Failed(checks) : i <= j
  BY <1>1, LeastNat
<1>3. FirstFailed(checks) \in Failed(checks)
  BY <1>2 DEF FirstFailed
<1>4. QED
  BY <1>1, <1>3 DEF Reject

LEMMA ResultIsNamed ==
  ASSUME Named, [Next]_vars
  PROVE  Named'
<1>1. ASSUME NEW fee, InitializePool(fee[1], fee[2])
      PROVE  result' \in Results
  <2> DEFINE checks == InitChecks(fee[1], fee[2])
  <2>1. DOMAIN checks = 1..2
    BY DEF InitChecks
  <2>2. \A i \in 1..2 : checks[i] \in Results
    BY DEF Check, Results, DexErrors, AnchorErrors, Exists, InitChecks
  <2>3. Reject(checks) \/ Accept(checks)
    BY <1>1 DEF InitializePool
  <2> HIDE DEF checks
  <2>4. QED
    BY <2>1, <2>2, <2>3, ChecksGiveNamed
<1>2. ASSUME NEW u, NEW a, NEW b, NEW min, AddLiquidity(u, a, b, min)
      PROVE  result' \in Results
  <2> DEFINE checks == AddChecks(u, a, b, min)
  <2>1. DOMAIN checks = 1..9
    BY DEF AddChecks
  <2>2. \A i \in 1..9 : checks[i] \in Results
    BY DEF Check, Results, DexErrors, AnchorErrors, Exists, AddChecks
  <2>3. Reject(checks) \/ Accept(checks)
    BY <1>2 DEF AddLiquidity
  <2> HIDE DEF checks
  <2>4. QED
    BY <2>1, <2>2, <2>3, ChecksGiveNamed
<1>3. ASSUME NEW u, NEW lp, NEW min_a, NEW min_b, RemoveLiquidity(u, lp, min_a, min_b)
      PROVE  result' \in Results
  <2> DEFINE checks == RemoveChecks(u, lp, min_a, min_b)
  <2>1. DOMAIN checks = 1..8
    BY DEF RemoveChecks
  <2>2. \A i \in 1..8 : checks[i] \in Results
    BY DEF Check, Results, DexErrors, AnchorErrors, Exists, RemoveChecks
  <2>3. Reject(checks) \/ Accept(checks)
    BY <1>3 DEF RemoveLiquidity
  <2> HIDE DEF checks
  <2>4. QED
    BY <2>1, <2>2, <2>3, ChecksGiveNamed
<1>4. ASSUME NEW u, NEW n, NEW min, NEW t, Swap(u, n, min, t)
      PROVE  result' \in Results
  <2> DEFINE checks == SwapChecks(u, n, min, t)
  <2>1. DOMAIN checks = 1..9
    BY DEF SwapChecks
  <2>2. \A i \in 1..9 : checks[i] \in Results
    BY DEF Check, Results, DexErrors, AnchorErrors, Exists, SwapChecks
  <2>3. Reject(checks) \/ Accept(checks)
    BY <1>4 DEF Swap
  <2> HIDE DEF checks
  <2>4. QED
    BY <2>1, <2>2, <2>3, ChecksGiveNamed
<1>5. CASE GetPoolInfo
  <2> DEFINE checks == <<Exists>>
  <2>1. DOMAIN checks = 1..1
    OBVIOUS
  <2>2. \A i \in 1..1 : checks[i] \in Results
    BY DEF Check, Results, DexErrors, AnchorErrors, Exists
  <2>3. Reject(checks) \/ Accept(checks)
    BY <1>5 DEF GetPoolInfo
  <2> HIDE DEF checks
  <2>4. QED
    BY <2>1, <2>2, <2>3, ChecksGiveNamed DEF Named
<1>6. ASSUME NEW m, NEW from, NEW to, NEW n, DirectTransfer(m, from, to, n)
      PROVE  Named'
  BY <1>6 DEF Named, DirectTransfer
<1>7. ASSUME NEW m, NEW from, NEW n, DirectBurn(m, from, n)
      PROVE  Named'
  BY <1>7 DEF Named, DirectBurn
<1>8. CASE UNCHANGED vars
  BY <1>8 DEF Named, vars
<1>9. Results \subseteq Results \cup {"none"}
  OBVIOUS
<1>10. QED
  BY <1>1, <1>2, <1>3, <1>4, <1>5, <1>6, <1>7, <1>8, <1>9 DEF Named, Next

(* Every amount stays a u64, fees withheld included: they are part of what *)
(* exists.                                                                 *)
THEOREM AnchorDexTypeOK == Spec => []TypeOK
<1>1. Init => Named
  BY DEF Init, Named
<1>2. Named /\ [Next]_vars => Named'
  BY ResultIsNamed
<1>3. IInv => withheld \in [Tokens -> U64]
  <2> SUFFICES ASSUME IInv, NEW t \in Tokens PROVE withheld[t] \in U64
    BY DEF IInv, AmountsOK
  <2>1. 1 \in Users /\ t \in Mints
    BY Amounts64, AccountRange
  <2>2. withheld[t] <= supply[t] /\ withheld[t] \in Nat /\ supply[t] \in 0..MaxU64
    BY <2>1, Holdings, Amounts64 DEF U64
  <2>3. QED
    BY <2>2, MaxU64Assumption DEF U64
<1>4. IInv => burned_directly \in U64
  <2> SUFFICES ASSUME IInv PROVE burned_directly \in U64
    OBVIOUS
  <2>1. /\ lp_supply = supply["LP"] + burned_directly
        /\ lp_supply \in 0..MaxU64 /\ supply["LP"] \in Nat /\ burned_directly \in Nat
    BY Amounts64 DEF IInv, MissingSharesAreBurned, U64
  <2>2. QED
    BY <2>1, MaxU64Assumption DEF U64
<1>5. IInv /\ Named => TypeOK
  BY <1>3, <1>4 DEF IInv, AmountsOK, TypeOK, Named
<1>6. QED
  BY <1>1, <1>2, <1>5, AnchorDexInvariant, PTL DEF Spec
=============================================================================
