---------------------------- MODULE QuotesProofs ----------------------------
(***************************************************************************)
(* What a user sees over several calls, for every width, pool, amount and  *)
(* fee: neither splitting a swap, nor swapping back, nor depositing and    *)
(* withdrawing pays him anything.                                          *)
(***************************************************************************)
EXTENDS Quotes, AmmMathProofs

(* A swap of amount against a pool of rin and rout has the exact answer    *)
(* Weight(amount) * rout / Total(amount, rin).                             *)
Weight(amount)     == amount * (fee[2] - fee[1])
Total(amount, rin) == rin * fee[2] + Weight(amount)

(* What the user has spent, and the reserves he found.                     *)
Spent == CASE pc = "second" -> first
           [] pc = "back"   -> first + second
           [] OTHER         -> 0
FoundIn  == reserve_in - Spent
FoundOut == reserve_out + got

BooksOK ==
  /\ reserve_in \in U64 /\ reserve_out \in U64 /\ lp_supply \in U64
  /\ fee \in Fees /\ first \in Amounts /\ second \in Amounts
  /\ whole \in U64 \cup {None} /\ got \in U64 /\ returned \in U64 \X U64
  /\ pc \in {"whole", "first", "second", "back", "swapped",
             "deposit", "withdraw", "withdrawn"}

Untouched ==
  pc \in {"whole", "first", "deposit"} =>
    /\ PoolInUse \/ PoolEmpty
    /\ got = 0

(* The one who swaps at once is answered from the reserves both found.     *)
WholeInv ==
  pc \in {"first", "second", "back"} /\ whole # None =>
    /\ FoundIn > 0 /\ first + second > 0
    /\ whole = (FoundOut * Weight(first + second))
                 \div Total(first + second, FoundIn)

(* The one who swaps in parts has got no more than one swap of all that he *)
(* has spent so far would pay, and has not lowered the product of the      *)
(* reserves.                                                               *)
PartsInv ==
  pc \in {"second", "back"} =>
    /\ FoundIn > 0 /\ reserve_out > 0 /\ FoundOut <= MaxU64
    /\ got * Total(Spent, FoundIn) <= FoundOut * Weight(Spent)
    /\ FoundIn * FoundOut <= reserve_in * reserve_out

(* The depositor's part of the shares is no larger than his part of either *)
(* reserve.                                                                *)
DepositInv ==
  pc = "withdraw" =>
    /\ lp_supply > 0 /\ got <= lp_supply
    /\ first <= reserve_in /\ second <= reserve_out
    /\ got * (reserve_in - first) <= first * (lp_supply - got)
    /\ got * (reserve_out - second) <= second * (lp_supply - got)

IInv ==
  /\ BooksOK
  /\ Untouched
  /\ WholeInv
  /\ PartsInv
  /\ DepositInv
  /\ pc = "swapped" => reserve_in > 0 /\ reserve_out > 0
  /\ SwapBackNeverProfits
  /\ DepositNeverProfits

-----------------------------------------------------------------------------
(* The numbers a state can hold.                                           *)
LEMMA Numbers ==
  ASSUME BooksOK
  PROVE  /\ reserve_in \in Nat /\ reserve_out \in Nat /\ lp_supply \in Nat
         /\ got \in Nat
         /\ first \in U64 /\ second \in U64 /\ first + second \in U64
         /\ first \in Nat /\ second \in Nat
         /\ fee[1] \in U64 /\ fee[2] \in U64 /\ fee[1] < fee[2]
         /\ fee[1] \in Nat /\ fee[2] \in Nat \ {0}
         /\ fee[2] - fee[1] \in Nat \ {0} /\ fee[2] - fee[1] <= fee[2]
<1>1. /\ Amounts \subseteq U64
      /\ \A m, n \in Amounts : m + n <= MaxU64
      /\ Fees \subseteq {f \in U64 \X U64 : f[1] < f[2]}
  BY QuotesAssumption
<1>2. fee \in U64 \X U64 /\ fee[1] < fee[2]
  BY <1>1 DEF BooksOK
<1>3. QED
  BY <1>1, <1>2, MaxU64Assumption DEF BooksOK, U64

(* What swap_output returns, as one rounded quotient.                      *)
LEMMA SwapAnswer ==
  ASSUME NEW a \in U64, NEW rin \in U64, NEW rout \in U64, BooksOK,
         NEW out, out = SwapOutput(a, rin, rout, fee[1], fee[2]), out # None
  PROVE  /\ a > 0 /\ rin > 0 /\ rout > 0
         /\ rout * Weight(a) \in Nat /\ Total(a, rin) \in Nat \ {0}
         /\ out \in Nat /\ out = (rout * Weight(a)) \div Total(a, rin)
         /\ out * Total(a, rin) <= rout * Weight(a)
<1> DEFINE ff == fee[2] - fee[1]
<1>1. /\ a \in Nat \ {0} /\ rin \in Nat \ {0} /\ rout \in Nat \ {0}
  BY MaxU64Assumption DEF U64, SwapOutput
<1>2. ff \in Nat \ {0} /\ fee[2] \in Nat \ {0}
  BY Numbers
<1>3. out = ToU64((rout * a * ff) \div (rin * fee[2] + a * ff))
  BY <1>1 DEF SwapOutput, CheckedDiv, SwapNumerator, SwapDenominator, FeeFactor
<1>4. Weight(a) = a * ff /\ Total(a, rin) = rin * fee[2] + a * ff
  BY DEF Weight, Total
<1> HIDE DEF ff
<1>5. a * ff \in Nat \ {0} /\ rin * fee[2] \in Nat \ {0}
  BY <1>1, <1>2, Z3
<1>6. rout * a * ff = rout * (a * ff) /\ rout * (a * ff) \in Nat
  BY <1>1, <1>2, <1>5, Z3
<1> DEFINE num == rout * Weight(a)
           den == Total(a, rin)
<1>7. num \in Nat /\ den \in Nat \ {0} /\ out = ToU64(num \div den)
  BY <1>3, <1>4, <1>5, <1>6
<1> HIDE DEF num, den
<1>8. num \div den \in Nat /\ den * (num \div den) <= num
  BY <1>7, DivBounds
<1>9. out = num \div den
  BY <1>7, <1>8, ToU64Some
<1>10. out * den <= num
  BY <1>7, <1>8, <1>9
<1>11. QED
  BY <1>1, <1>7, <1>8, <1>9, <1>10 DEF num, den

(* Two swaps in a row pay no more than one of the same amounts: in terms   *)
(* of what stays in the reserve, P is the weight of the reserve found and  *)
(* x, u those of the amounts; the second swap meets Q, which has grown by  *)
(* the whole first amount, its fee included.                               *)
LEMMA TwoSwaps ==
  ASSUME NEW P \in Nat \ {0}, NEW Q \in Nat, NEW x \in Nat, NEW u \in Nat,
         NEW rout \in Nat, NEW o1 \in Nat, NEW o2 \in Nat,
         o1 <= rout, o2 <= rout - o1, P + x <= Q,
         o1 * (P + x) <= rout * x,
         o2 * (Q + u) <= (rout - o1) * u
  PROVE  (o1 + o2) * (P + (x + u)) <= rout * (x + u)
<1> DEFINE k1 == rout - o1
           k2 == k1 - o2
           A  == P + x
           B  == Q + u
           D  == P + (x + u)
<1>1. k1 \in Nat /\ k2 \in Nat /\ A \in Nat \ {0} /\ B \in Nat /\ D \in Nat
      /\ Q \in Nat \ {0}
  OBVIOUS
<1>2. rout * P <= k1 * A
  <2>1. k1 * A = rout * P + rout * x - o1 * (P + x)
    BY Z3
  <2>2. rout * P \in Nat /\ rout * x \in Nat /\ o1 * (P + x) \in Nat
    OBVIOUS
  <2>3. QED
    BY <2>1, <2>2
<1>3. k1 * Q <= k2 * B
  <2>1. k2 * B = k1 * Q + k1 * u - o2 * (Q + u)
    BY Z3
  <2>2. k1 * Q \in Nat /\ k1 * u \in Nat /\ o2 * (Q + u) \in Nat
    BY <1>1
  <2>3. QED
    BY <2>1, <2>2
<1>4. A * B <= Q * D
  <2>1. Q * D - A * B = u * (Q - A)
    BY Z3
  <2>2. u * (Q - A) \in Nat /\ Q * D \in Nat /\ A * B \in Nat
    BY <1>1
  <2>3. QED
    BY <2>1, <2>2
<1> HIDE DEF k1, k2, A, B, D
<1>5. rout * P <= k2 * D
  <2>1. (rout * P) * Q <= (k1 * A) * Q
    BY <1>1, <1>2, Z3
  <2>2. (k1 * Q) * A <= (k2 * B) * A
    BY <1>1, <1>3, Z3
  <2>3. k2 * (A * B) <= k2 * (Q * D)
    BY <1>1, <1>4, Z3
  <2>4. /\ (k1 * A) * Q = (k1 * Q) * A
        /\ (k2 * B) * A = k2 * (A * B)
        /\ k2 * (Q * D) = Q * (k2 * D)
        /\ (rout * P) * Q = Q * (rout * P)
    BY <1>1, Z3
  <2>5. /\ (rout * P) * Q \in Nat /\ (k1 * A) * Q \in Nat
        /\ (k2 * B) * A \in Nat /\ k2 * (Q * D) \in Nat
        /\ rout * P \in Nat /\ k2 * D \in Nat
    BY <1>1
  <2>6. Q * (rout * P) <= Q * (k2 * D)
    BY <2>1, <2>2, <2>3, <2>4, <2>5
  <2>7. QED
    BY <1>1, <2>5, <2>6, ProductCancel
<1>6. (o1 + o2) * D = rout * D - k2 * D /\ rout * D = rout * P + rout * (x + u)
  BY Z3 DEF k2, k1, D
<1>7. /\ rout * P \in Nat /\ k2 * D \in Nat /\ rout * D \in Nat
      /\ rout * (x + u) \in Nat
  BY <1>1
<1>8. (o1 + o2) * D <= rout * (x + u)
  BY <1>5, <1>6, <1>7
<1>9. QED
  BY <1>8 DEF D

-----------------------------------------------------------------------------
LEMMA InitIInv == Init => IInv
<1> SUFFICES ASSUME Init
             PROVE  IInv
  OBVIOUS
<1>1. BooksOK
  BY QuotesAssumption, MaxU64Assumption DEF Init, BooksOK, U64
<1>2. Untouched
  BY DEF Init, Untouched
<1>3. QED
  BY <1>1, <1>2
     DEF Init, IInv, WholeInv, PartsInv, DepositInv, SwapBackNeverProfits,
         DepositNeverProfits

LEMMA WholeKeepsIInv ==
  ASSUME IInv, SwapWhole
  PROVE  IInv'
<1> USE DEF SwapWhole, pool, IInv
<1>1. BooksOK
  OBVIOUS
<1>2. first + second \in U64
  BY Numbers
<1>3. whole' \in U64 \cup {None}
  BY <1>1, <1>2, Numbers, SwapIsFair DEF Quote, BooksOK
<1>4. BooksOK'
  BY <1>3 DEF BooksOK
<1>5. Untouched'
  BY DEF Untouched, PoolInUse, PoolEmpty
<1>6. WholeInv'
  <2> SUFFICES ASSUME whole' # None
               PROVE  WholeInv'
    BY DEF WholeInv
  <2>1. /\ first + second > 0 /\ reserve_in > 0
        /\ whole' = (reserve_out * Weight(first + second))
                      \div Total(first + second, reserve_in)
    BY <1>1, <1>2, SwapAnswer DEF Quote, BooksOK
  <2>2. FoundIn' = reserve_in /\ FoundOut' = reserve_out
    BY <1>1, Numbers DEF FoundIn, FoundOut, Spent, Untouched
  <2>3. Weight(first + second)' = Weight(first + second)
        /\ Total(first + second, FoundIn)' = Total(first + second, reserve_in)
    BY <2>2 DEF Weight, Total
  <2>4. QED
    BY <2>1, <2>2, <2>3 DEF WholeInv
<1>7. QED
  BY <1>4, <1>5, <1>6
     DEF PartsInv, DepositInv, SwapBackNeverProfits, DepositNeverProfits

(* A part of a swap that is paid leaves the reserves found as they were.   *)
LEMMA PartPaid ==
  ASSUME IInv, NEW amount \in U64,
         NEW out, out = Quote(amount), out # None, reserve_in + amount <= MaxU64,
         reserve_in' = reserve_in + amount, reserve_out' = reserve_out - out,
         got' = got + out, got <= FoundOut,
         UNCHANGED <<lp_supply, fee, first, second, whole, returned>>,
         pc' \in {"second", "back"}, Spent' = Spent + amount, FoundOut \in U64,
         Spent \in Nat
  PROVE  /\ BooksOK' /\ out \in Nat /\ out < reserve_out
         /\ FoundIn' = FoundIn /\ FoundOut' = FoundOut
         /\ reserve_in > 0 /\ amount > 0
         /\ reserve_in * reserve_out <= reserve_in' * reserve_out'
<1>1. BooksOK
  BY DEF IInv
<1>2. /\ out \in U64 /\ out < reserve_out
      /\ reserve_in * reserve_out <= reserve_in' * reserve_out'
  BY <1>1, Numbers, SwapIsFair DEF Quote, BooksOK
<1>3. reserve_in > 0 /\ amount > 0
  BY <1>1, SwapAnswer DEF Quote, BooksOK
<1>4. amount \in Nat /\ out \in Nat /\ reserve_in \in Nat
      /\ reserve_out \in Nat /\ got \in Nat
  BY <1>1, <1>2, Numbers, MaxU64Assumption DEF U64
<1>5. FoundIn' = FoundIn /\ FoundOut' = FoundOut
  BY <1>4 DEF FoundIn, FoundOut
<1>6. BooksOK'
  <2>1. reserve_in' \in U64 /\ reserve_out' \in U64
    BY <1>1, <1>2, <1>4, MaxU64Assumption DEF U64, BooksOK
  <2>2. got' \in U64
    BY <1>2, <1>4, MaxU64Assumption DEF U64, FoundOut
  <2>3. QED
    BY <1>1, <2>1, <2>2 DEF BooksOK
<1>7. QED
  BY <1>2, <1>3, <1>4, <1>5, <1>6

LEMMA WholeKept ==
  ASSUME WholeInv, pc \in {"first", "second"}, pc' \in {"second", "back"},
         FoundIn' = FoundIn, FoundOut' = FoundOut,
         UNCHANGED <<fee, first, second, whole>>
  PROVE  WholeInv'
BY DEF WholeInv, Weight, Total

LEMMA FirstKeepsIInv ==
  ASSUME IInv, SwapFirst
  PROVE  IInv'
<1> DEFINE out == Quote(first)
<1>1. BooksOK /\ pc = "first" /\ pc' = "second"
  BY DEF IInv, SwapFirst, SwapPart
<1>2. got = 0 /\ FoundIn = reserve_in /\ FoundOut = reserve_out /\ Spent = 0
  BY <1>1, Numbers DEF IInv, Untouched, FoundIn, FoundOut, Spent
<1>3. Spent' = first /\ first \in U64 /\ first \in Nat
  BY <1>1, Numbers DEF Spent, SwapFirst, SwapPart
<1>4. /\ out # None /\ reserve_in + first <= MaxU64
      /\ reserve_in' = reserve_in + first /\ reserve_out' = reserve_out - out
      /\ got' = got + out
      /\ UNCHANGED <<lp_supply, fee, first, second, whole, returned>>
  BY DEF SwapFirst, SwapPart
<1>5. reserve_out \in U64 /\ reserve_out \in Nat /\ got <= FoundOut
  BY <1>1, <1>2, Numbers DEF BooksOK
<1>6. out * Total(first, reserve_in) <= reserve_out * Weight(first)
  BY <1>1, <1>3, <1>4, SwapAnswer DEF Quote, BooksOK
<1> HIDE DEF out
<1>7. /\ BooksOK' /\ out \in Nat /\ out < reserve_out
      /\ FoundIn' = FoundIn /\ FoundOut' = FoundOut
      /\ reserve_in > 0 /\ first > 0
      /\ reserve_in * reserve_out <= reserve_in' * reserve_out'
  BY <1>1, <1>2, <1>3, <1>4, <1>5, PartPaid DEF out
<1>8. WholeInv'
  BY <1>1, <1>4, <1>7, WholeKept DEF IInv
<1>9. PartsInv'
  <2>1. reserve_out' > 0 /\ got' = out
    BY <1>2, <1>4, <1>5, <1>7
  <2>2. Total(Spent, FoundIn)' = Total(first, reserve_in)
        /\ Weight(Spent)' = Weight(first)
    BY <1>2, <1>3, <1>4, <1>7 DEF Total, Weight
  <2>3. FoundOut' <= MaxU64 /\ FoundIn' > 0
    BY <1>2, <1>5, <1>7, MaxU64Assumption DEF U64
  <2>4. got' * Total(Spent, FoundIn)' <= FoundOut' * Weight(Spent)'
    BY <1>2, <1>6, <1>7, <2>1, <2>2
  <2>5. FoundIn' * FoundOut' <= reserve_in' * reserve_out'
    BY <1>2, <1>7
  <2>6. QED
    BY <1>5, <1>7, <1>4, <2>1, <2>3, <2>4, <2>5 DEF PartsInv
<1>10. QED
  BY <1>1, <1>7, <1>8, <1>9
     DEF IInv, Untouched, DepositInv, SwapBackNeverProfits, DepositNeverProfits

LEMMA SecondKeepsIInv ==
  ASSUME IInv, SwapSecond
  PROVE  IInv'
<1> DEFINE out == Quote(second)
           P   == FoundIn * fee[2]
           Q   == reserve_in * fee[2]
           x   == Weight(first)
           u   == Weight(second)
<1>1. BooksOK /\ pc = "second" /\ pc' = "back"
  BY DEF IInv, SwapSecond, SwapPart
<1>2. /\ FoundIn > 0 /\ reserve_out > 0
      /\ got * Total(first, FoundIn) <= FoundOut * Weight(first)
      /\ FoundIn * FoundOut <= reserve_in * reserve_out
      /\ FoundIn = reserve_in - first /\ Spent = first
  BY <1>1 DEF IInv, PartsInv, Spent, FoundIn
<1>3. Spent' = first + second /\ second \in U64 /\ second \in Nat /\ first \in Nat
  BY <1>1, Numbers DEF Spent, SwapSecond, SwapPart
<1>4. /\ out # None /\ reserve_in + second <= MaxU64
      /\ reserve_in' = reserve_in + second /\ reserve_out' = reserve_out - out
      /\ got' = got + out
      /\ UNCHANGED <<lp_supply, fee, first, second, whole, returned>>
  BY DEF SwapSecond, SwapPart
<1>5. out * Total(second, reserve_in) <= reserve_out * Weight(second)
  BY <1>1, <1>3, <1>4, SwapAnswer DEF Quote, BooksOK
<1>6. /\ reserve_in \in Nat /\ reserve_out \in Nat /\ got \in Nat
      /\ FoundIn \in Nat \ {0} /\ FoundOut \in Nat /\ got <= FoundOut
  BY <1>1, <1>2, <1>3, Numbers DEF FoundOut
<1>7. x \in Nat /\ u \in Nat /\ Weight(first + second) = x + u
  <2>1. fee[2] - fee[1] \in Nat
    BY <1>1, Numbers
  <2>2. QED
    BY <1>3, <2>1, Z3 DEF Weight
<1>8. P \in Nat \ {0} /\ Q \in Nat /\ P + x <= Q
  <2>1. fee[2] - fee[1] \in Nat /\ fee[2] \in Nat \ {0} /\ fee[2] - fee[1] <= fee[2]
    BY <1>1, Numbers
  <2>2. first * (fee[2] - fee[1]) <= first * fee[2]
    BY <1>3, <2>1, ProductMono
  <2>3. Q = P + first * fee[2]
    BY <1>2, <1>3, <1>6, <2>1, Z3
  <2>4. first * fee[2] \in Nat /\ P \in Nat \ {0} /\ Q \in Nat
    BY <1>3, <1>6, <2>1, Z3
  <2>5. QED
    BY <1>7, <2>2, <2>3, <2>4 DEF Weight
<1>9. /\ Total(first, FoundIn) = P + x
      /\ Total(second, reserve_in) = Q + u
      /\ Total(first + second, FoundIn) = P + (x + u)
  BY <1>7 DEF Total
<1> HIDE DEF out, P, Q, x, u
<1>10. FoundOut \in U64
  BY <1>1, <1>6, MaxU64Assumption DEF IInv, PartsInv, U64
<1>11. /\ BooksOK' /\ out \in Nat /\ out < reserve_out
       /\ FoundIn' = FoundIn /\ FoundOut' = FoundOut
       /\ second > 0
       /\ reserve_in * reserve_out <= reserve_in' * reserve_out'
  BY <1>1, <1>2, <1>3, <1>4, <1>6, <1>10, PartPaid DEF out
<1>12. WholeInv'
  BY <1>1, <1>4, <1>11, WholeKept DEF IInv
<1>13. (got + out) * (P + (x + u)) <= FoundOut * (x + u)
  <2>1. FoundOut - got = reserve_out
    BY <1>6 DEF FoundOut
  <2>2. got * (P + x) <= FoundOut * x /\ out * (Q + u) <= (FoundOut - got) * u
    BY <1>2, <1>5, <1>9, <2>1 DEF x, u
  <2>3. out <= FoundOut - got
    BY <1>6, <1>11, <2>1
  <2>4. QED
    BY <1>6, <1>7, <1>8, <1>11, <2>2, <2>3, TwoSwaps
<1>14. PartsInv'
  <2>1. /\ Total(Spent, FoundIn)' = P + (x + u)
        /\ Weight(Spent)' = x + u
    <3>1. /\ Total(Spent, FoundIn)' = Total(first + second, FoundIn)
          /\ Weight(Spent)' = Weight(first + second)
      BY <1>3, <1>4, <1>11 DEF Total, Weight
    <3>2. QED
      BY <1>7, <1>9, <3>1
  <2>2. got' * Total(Spent, FoundIn)' <= FoundOut' * Weight(Spent)'
    BY <1>4, <1>11, <1>13, <2>1
  <2>3. reserve_out' > 0 /\ FoundIn' > 0 /\ FoundOut' <= MaxU64
    BY <1>2, <1>4, <1>6, <1>10, <1>11, MaxU64Assumption DEF U64
  <2>4. FoundIn' * FoundOut' <= reserve_in' * reserve_out'
    <3>1. /\ FoundIn * FoundOut \in Nat /\ reserve_in * reserve_out \in Nat
          /\ reserve_in' * reserve_out' \in Nat
      BY <1>3, <1>4, <1>6, <1>11
    <3>2. QED
      BY <1>2, <1>11, <3>1
  <2>5. QED
    BY <2>2, <2>3, <2>4 DEF PartsInv
<1>15. QED
  BY <1>1, <1>11, <1>12, <1>14
     DEF IInv, Untouched, DepositInv, SwapBackNeverProfits, DepositNeverProfits

LEMMA BackKeepsIInv ==
  ASSUME IInv, SwapBack
  PROVE  IInv'
<1> DEFINE out == SwapOutput(got, reserve_out, reserve_in, fee[1], fee[2])
<1>1. BooksOK /\ pc = "back" /\ pc' = "swapped"
  BY DEF IInv, SwapBack
<1>2. /\ FoundIn > 0 /\ reserve_out > 0
      /\ FoundIn * FoundOut <= reserve_in * reserve_out
      /\ FoundIn = reserve_in - (first + second) /\ FoundOut = reserve_out + got
  BY <1>1 DEF IInv, PartsInv, Spent, FoundIn, FoundOut
<1>3. /\ out # None /\ reserve_out + got <= MaxU64
      /\ reserve_in' = reserve_in - out /\ reserve_out' = reserve_out + got
      /\ returned' = <<out, 0>>
      /\ UNCHANGED <<lp_supply, fee, first, second, whole, got>>
  BY DEF SwapBack
<1>4. /\ reserve_in \in Nat /\ reserve_out \in Nat /\ got \in Nat
      /\ first \in Nat /\ second \in Nat
      /\ reserve_in \in U64
  BY <1>1, Numbers DEF BooksOK
<1>5. /\ out \in U64 /\ out < reserve_in
      /\ reserve_out * reserve_in <= (reserve_out + got) * (reserve_in - out)
  BY <1>1, <1>3, Numbers, SwapIsFair DEF BooksOK
<1> HIDE DEF out
<1>6. out \in Nat /\ out <= MaxU64
  BY <1>5, MaxU64Assumption DEF U64
<1>7. FoundIn <= reserve_in - out
  <2>1. /\ reserve_out + got \in Nat \ {0} /\ FoundIn \in Nat
        /\ reserve_in - out \in Nat
    BY <1>2, <1>4, <1>5, <1>6
  <2>2. /\ FoundIn * FoundOut = (reserve_out + got) * FoundIn
        /\ reserve_in * reserve_out = reserve_out * reserve_in
    BY <1>2, <1>4, <2>1
  <2>3. (reserve_out + got) * FoundIn <= (reserve_out + got) * (reserve_in - out)
    <3>1. /\ (reserve_out + got) * FoundIn \in Nat /\ reserve_out * reserve_in \in Nat
          /\ (reserve_out + got) * (reserve_in - out) \in Nat
      BY <1>4, <2>1
    <3>2. QED
      BY <1>2, <1>5, <2>2, <3>1
  <2>4. QED
    BY <2>1, <2>3, ProductCancel
<1>8. out <= first + second
  BY <1>2, <1>4, <1>6, <1>7
<1>9. BooksOK'
  <2>1. reserve_in' \in U64 /\ reserve_out' \in U64 /\ returned' \in U64 \X U64
    BY <1>3, <1>4, <1>5, <1>6, MaxU64Assumption DEF U64
  <2>2. QED
    BY <1>1, <1>3, <2>1 DEF BooksOK
<1>10. reserve_in' > 0 /\ reserve_out' > 0
  BY <1>2, <1>3, <1>4, <1>5, <1>6
<1>11. SwapBackNeverProfits'
  BY <1>3, <1>8 DEF SwapBackNeverProfits
<1>12. QED
  BY <1>1, <1>9, <1>10, <1>11
     DEF IInv, Untouched, WholeInv, PartsInv, DepositInv, DepositNeverProfits

LEMMA DepositKeepsIInv ==
  ASSUME IInv, Deposit
  PROVE  IInv'
<1> DEFINE lp == CalculateLpTokens(first, second, reserve_in, reserve_out, lp_supply)
<1>1. BooksOK /\ pc = "deposit" /\ pc' = "withdraw"
  BY DEF IInv, Deposit
<1>2. /\ lp # None /\ lp # 0
      /\ reserve_in' = reserve_in + first /\ reserve_out' = reserve_out + second
      /\ lp_supply' = lp_supply + lp /\ got' = lp
      /\ reserve_in' \in U64 /\ reserve_out' \in U64 /\ lp_supply' \in U64
      /\ UNCHANGED <<fee, first, second, whole, returned>>
  BY DEF Deposit
<1>3. /\ reserve_in \in Nat /\ reserve_out \in Nat /\ lp_supply \in Nat
      /\ first \in Nat /\ second \in Nat /\ first \in U64 /\ second \in U64
      /\ reserve_in \in U64 /\ reserve_out \in U64 /\ lp_supply \in U64
  BY <1>1, Numbers DEF BooksOK
<1>4. /\ lp \in U64
      /\ lp * reserve_in <= first * lp_supply
      /\ lp * reserve_out <= second * lp_supply
  <2>1. CASE PoolEmpty
    <3>1. reserve_in = 0 /\ reserve_out = 0 /\ lp_supply = 0
      BY <2>1 DEF PoolEmpty
    <3>2. lp \in U64
      BY <1>2, <1>3, <3>1, FirstLpTokens
    <3> HIDE DEF lp
    <3>3. lp * 0 = 0 /\ first * 0 = 0 /\ second * 0 = 0
      BY <1>3, <3>2, MaxU64Assumption DEF U64
    <3>4. QED
      BY <3>1, <3>2, <3>3
  <2>2. CASE PoolInUse
    <3>1. reserve_in # 0 /\ reserve_out # 0 /\ lp_supply # 0
      BY <2>2 DEF PoolInUse
    <3>2. QED
      BY <1>2, <1>3, <3>1, LaterLpTokens
  <2>3. QED
    BY <1>1, <2>1, <2>2 DEF IInv, Untouched
<1> HIDE DEF lp
<1>5. lp \in Nat
  BY <1>4, MaxU64Assumption DEF U64
<1>6. BooksOK'
  BY <1>1, <1>2, <1>4 DEF BooksOK
<1>7. DepositInv'
  <2>1. /\ lp_supply' > 0 /\ got' <= lp_supply'
        /\ first <= reserve_in' /\ second <= reserve_out'
    BY <1>2, <1>3, <1>5
  <2>2. /\ reserve_in' - first = reserve_in
        /\ reserve_out' - second = reserve_out
        /\ lp_supply' - got' = lp_supply
    BY <1>2, <1>3, <1>5
  <2>3. QED
    BY <1>2, <1>4, <2>1, <2>2 DEF DepositInv
<1>8. QED
  BY <1>1, <1>6, <1>7
     DEF IInv, Untouched, WholeInv, PartsInv, SwapBackNeverProfits,
         DepositNeverProfits

(* Shares withdrawn pay no more than the part of the reserve they came for.*)
LEMMA WithdrawalFair ==
  ASSUME NEW lp \in U64, NEW r \in U64, NEW S \in U64 \ {0}, lp <= S,
         NEW a \in Nat, a <= r, lp * (r - a) <= a * (S - lp),
         NEW out, out = RemovalAmount(lp, r, S), out # None
  PROVE  out \in U64 /\ out <= r /\ out <= a
<1>1. out \in U64 /\ out <= r /\ out * S <= lp * r
  BY RemovalIsFair
<1>2. out \in Nat /\ lp \in Nat /\ r \in Nat /\ S \in Nat \ {0}
  BY <1>1, MaxU64Assumption DEF U64
<1>3. lp * r = lp * (r - a) + lp * a /\ S * a = a * (S - lp) + lp * a
      /\ S * out = out * S
  BY <1>2, Z3
<1>4. /\ lp * r \in Nat /\ lp * (r - a) \in Nat /\ lp * a \in Nat
      /\ S * a \in Nat /\ a * (S - lp) \in Nat /\ out * S \in Nat
  BY <1>2
<1>5. S * out <= S * a
  BY <1>1, <1>3, <1>4
<1>6. QED
  BY <1>1, <1>2, <1>5, ProductCancel

LEMMA WithdrawKeepsIInv ==
  ASSUME IInv, Withdraw
  PROVE  IInv'
<1> DEFINE paid_in  == RemovalAmount(got, reserve_in, lp_supply)
           paid_out == RemovalAmount(got, reserve_out, lp_supply)
<1>1. BooksOK /\ pc = "withdraw" /\ pc' = "withdrawn" /\ DepositInv
  BY DEF IInv, Withdraw
<1>2. /\ paid_in # None /\ paid_out # None
      /\ reserve_in' = reserve_in - paid_in /\ reserve_out' = reserve_out - paid_out
      /\ lp_supply' = lp_supply - got /\ returned' = <<paid_in, paid_out>>
      /\ UNCHANGED <<fee, first, second, whole, got>>
  BY DEF Withdraw
<1>3. /\ first \in Nat /\ second \in Nat /\ got \in U64
      /\ reserve_in \in U64 /\ reserve_out \in U64 /\ lp_supply \in U64 \ {0}
      /\ got <= lp_supply
  BY <1>1, Numbers DEF BooksOK, DepositInv
<1>4. paid_in \in U64 /\ paid_in <= reserve_in /\ paid_in <= first
  BY <1>1, <1>2, <1>3, WithdrawalFair DEF DepositInv
<1>5. paid_out \in U64 /\ paid_out <= reserve_out /\ paid_out <= second
  BY <1>1, <1>2, <1>3, WithdrawalFair DEF DepositInv
<1> HIDE DEF paid_in, paid_out
<1>6. BooksOK'
  <2>1. reserve_in' \in U64 /\ reserve_out' \in U64 /\ lp_supply' \in U64
    BY <1>2, <1>3, <1>4, <1>5, MaxU64Assumption DEF U64
  <2>2. QED
    BY <1>1, <1>2, <1>4, <1>5, <2>1 DEF BooksOK
<1>7. DepositNeverProfits'
  BY <1>2, <1>4, <1>5 DEF DepositNeverProfits
<1>8. QED
  BY <1>1, <1>6, <1>7
     DEF IInv, Untouched, WholeInv, PartsInv, DepositInv, SwapBackNeverProfits

-----------------------------------------------------------------------------
LEMMA StepIInv == IInv /\ [Next]_vars => IInv'
<1> SUFFICES ASSUME IInv, [Next]_vars
             PROVE  IInv'
  OBVIOUS
<1>1. CASE SwapWhole
  BY <1>1, WholeKeepsIInv
<1>2. CASE SwapFirst
  BY <1>2, FirstKeepsIInv
<1>3. CASE SwapSecond
  BY <1>3, SecondKeepsIInv
<1>4. CASE SwapBack
  BY <1>4, BackKeepsIInv
<1>5. CASE Deposit
  BY <1>5, DepositKeepsIInv
<1>6. CASE Withdraw
  BY <1>6, WithdrawKeepsIInv
<1>7. CASE UNCHANGED vars
  BY <1>7
     DEF vars, IInv, BooksOK, Untouched, PoolInUse, PoolEmpty, WholeInv, PartsInv,
         DepositInv, SwapBackNeverProfits, DepositNeverProfits, FoundIn, FoundOut,
         Spent, Weight, Total
<1>8. QED
  BY <1>1, <1>2, <1>3, <1>4, <1>5, <1>6, <1>7 DEF Next

(* The inductive invariant: amounts are u64, the two swappers are answered *)
(* from the same reserves, and the one who swaps in parts is never ahead.  *)
THEOREM QuotesInvariant == Spec => []IInv
<1>1. QED
  BY InitIInv, StepIInv, PTL DEF Spec

(* Every amount a user meets is a natural, every answer a u64 or None.     *)
THEOREM QuotesTypeOK == Spec => []TypeOK
<1>1. IInv => TypeOK
  <2> SUFFICES ASSUME IInv
               PROVE  TypeOK
    OBVIOUS
  <2>1. BooksOK /\ U64 \subseteq Nat
    BY MaxU64Assumption DEF IInv, U64
  <2>2. QED
    BY <2>1 DEF BooksOK, TypeOK
<1>2. QED
  BY <1>1, QuotesInvariant, PTL

(* Two swaps in a row never pay more than one of the same amount.          *)
THEOREM QuotesSplit == Spec => []SplitNeverPaysMore
<1>1. IInv => SplitNeverPaysMore
  <2> SUFFICES ASSUME IInv, pc = "back", whole # None
               PROVE  got <= whole
    BY DEF SplitNeverPaysMore
  <2> DEFINE num == FoundOut * Weight(first + second)
             den == Total(first + second, FoundIn)
  <2>1. /\ BooksOK
        /\ whole = num \div den
        /\ FoundIn > 0 /\ FoundIn = reserve_in - (first + second)
        /\ got * den <= num
    BY DEF IInv, WholeInv, PartsInv, Spent, FoundIn
  <2>2. /\ got \in Nat /\ reserve_in \in Nat /\ reserve_out \in Nat
        /\ first + second \in Nat /\ fee[2] - fee[1] \in Nat
        /\ fee[2] \in Nat \ {0}
    BY <2>1, Numbers
  <2>3. Weight(first + second) \in Nat /\ FoundIn \in Nat \ {0} /\ FoundOut \in Nat
    BY <2>1, <2>2, Z3 DEF Weight, FoundOut
  <2>4. FoundIn * fee[2] \in Nat \ {0}
    BY <2>2, <2>3, Z3
  <2>5. num \in Nat /\ den \in Nat \ {0}
    BY <2>3, <2>4 DEF Total
  <2> HIDE DEF num, den
  <2>6. den * got <= num
    BY <2>1, <2>2, <2>5
  <2>7. QED
    BY <2>1, <2>2, <2>5, <2>6, DivLowerBound
<1>2. QED
  BY <1>1, QuotesInvariant, PTL

(* Swapping there and back never returns more than was spent.              *)
THEOREM QuotesSwapBack == Spec => []SwapBackNeverProfits
<1>1. IInv => SwapBackNeverProfits
  BY DEF IInv
<1>2. QED
  BY <1>1, QuotesInvariant, PTL

(* No swap, however large, empties a reserve.                              *)
THEOREM QuotesNeverDrained == Spec => []ReservesNeverDrained
<1>1. IInv => ReservesNeverDrained
  <2> SUFFICES ASSUME IInv, pc \in {"second", "back"}
               PROVE  reserve_in > 0 /\ reserve_out > 0
    BY DEF IInv, ReservesNeverDrained
  <2>1. FoundIn > 0 /\ reserve_out > 0 /\ BooksOK
    BY DEF IInv, PartsInv
  <2>2. reserve_in \in Nat /\ first \in Nat /\ second \in Nat
    BY <2>1, Numbers
  <2>3. QED
    BY <2>1, <2>2 DEF FoundIn, Spent
<1>2. QED
  BY <1>1, QuotesInvariant, PTL

(* A deposit withdrawn at once pays no more than was deposited.            *)
THEOREM QuotesDeposit == Spec => []DepositNeverProfits
<1>1. IInv => DepositNeverProfits
  BY DEF IInv
<1>2. QED
  BY <1>1, QuotesInvariant, PTL
=============================================================================
