--------------------------- MODULE AmmMathProofs ---------------------------
(***************************************************************************)
(* Facts about natural numbers that all proofs rest on (rounding division, *)
(* products, least elements, sums), and what the operators of AmmMath      *)
(* promise their callers, for every width MaxU64.                          *)
(***************************************************************************)
EXTENDS AmmMath, WellFoundedInduction, TLAPS

-----------------------------------------------------------------------------
(* Division rounds down: the remainder is smaller than the divisor.        *)
LEMMA DivBounds ==
  ASSUME NEW a \in Nat, NEW b \in Nat \ {0}
  PROVE  /\ a \div b \in Nat
         /\ b * (a \div b) <= a
         /\ a < b * ((a \div b) + 1)
BY Z3

(* A quotient is at least any q whose multiple fits below the dividend.    *)
LEMMA DivLowerBound ==
  ASSUME NEW a \in Nat, NEW b \in Nat \ {0}, NEW q \in Nat, b * q <= a
  PROVE  q <= a \div b
<1>1. b * q < b * ((a \div b) + 1) /\ a \div b \in Nat
  BY DivBounds
<1>2. QED
  BY <1>1, Z3

(* A quotient is below any q whose multiple exceeds the dividend.          *)
LEMMA DivUpperBound ==
  ASSUME NEW a \in Nat, NEW b \in Nat \ {0}, NEW q \in Nat, a < b * q
  PROVE  a \div b < q
<1>1. b * (a \div b) < b * q /\ a \div b \in Nat
  BY DivBounds
<1>2. QED
  BY <1>1, Z3

LEMMA ProductMono ==
  ASSUME NEW a \in Nat, NEW b \in Nat, NEW c \in Nat, NEW d \in Nat,
         a <= c, b <= d
  PROVE  a * b <= c * d
<1>1. a * b <= c * b
  BY Z3
<1>2. c * b <= c * d
  BY Z3
<1>3. QED
  BY <1>1, <1>2, Z3

LEMMA ProductCancel ==
  ASSUME NEW a \in Nat \ {0}, NEW b \in Nat, NEW c \in Nat, a * b <= a * c
  PROVE  b <= c
BY Z3

LEMMA SquareCancel ==
  ASSUME NEW a \in Nat, NEW b \in Nat, a * a <= b * b
  PROVE  a <= b
BY Z3

(* Every nonempty set of naturals has a least element.                     *)
LEMMA LeastNat ==
  ASSUME NEW T, T \subseteq Nat, T # {}
  PROVE  \E t \in T : \A s \in T : t <= s
<1>1. IsWellFoundedOn(OpToRel(<, Nat), Nat)
  BY NatLessThanWellFounded
<1>2. \E t \in T : \A s \in T : ~(<<s, t>> \in OpToRel(<, Nat))
  BY <1>1, WFMin
<1>3. \E t \in T : \A s \in T : ~(s < t)
  BY <1>2 DEF OpToRel
<1>4. QED
  BY <1>3

-----------------------------------------------------------------------------
(* The entries of a row, from 0 to N, add up to total: its partial sums p  *)
(* are the witness, so that no recursive definition is needed.             *)
Partials(p, row, N) ==
  /\ p \in [0..N -> Int]
  /\ p[0] = row[0]
  /\ \A i \in 1..N : p[i] = p[i - 1] + row[i]

SumsTo(row, N, total) == \E p : Partials(p, row, N) /\ p[N] = total

(* Partial sums of naturals never fall.                                    *)
LEMMA PartialsGrow ==
  ASSUME NEW N \in Nat \ {0}, NEW row \in [0..N -> Nat], NEW p, Partials(p, row, N),
         NEW i \in 0..N, NEW j \in 0..N, i <= j
  PROVE  p[i] <= p[j]
<1> DEFINE Fallen == {k \in 0..N : i <= k /\ p[k] < p[i]}
<1>1. CASE Fallen = {}
  <2>1. p[i] \in Int /\ p[j] \in Int /\ ~(p[j] < p[i])
    BY <1>1 DEF Partials
  <2>2. QED
    BY <2>1
<1>2. CASE Fallen # {}
  <2>1. PICK k \in Fallen : \A l \in Fallen : k <= l
    <3>1. Fallen \subseteq Nat
      OBVIOUS
    <3> HIDE DEF Fallen
    <3>2. QED
      BY <1>2, <3>1, LeastNat
  <2>2. k # i /\ i \in Nat /\ k \in Nat /\ i <= k
    BY <2>1 DEF Partials
  <2>3. k \in 1..N /\ k - 1 \in 0..N /\ i <= k - 1
    BY <2>1, <2>2
  <2>4. k - 1 \notin Fallen
    BY <2>1, <2>2
  <2>5. p[k] = p[k - 1] + row[k] /\ row[k] \in Nat /\ p[k - 1] \in Int /\ p[i] \in Int
    BY <2>3 DEF Partials
  <2>6. ~(p[k - 1] < p[i])
    BY <2>3, <2>4
  <2>7. QED
    BY <2>1, <2>5, <2>6
<1>3. QED
  BY <1>1, <1>2

(* No two entries exceed the total.                                        *)
LEMMA TwoEntries ==
  ASSUME NEW N \in Nat \ {0}, NEW row \in [0..N -> Nat], NEW total, SumsTo(row, N, total),
         NEW a \in 0..N, NEW b \in 0..N, a < b
  PROVE  row[a] + row[b] <= total /\ total \in Nat
<1>1. PICK p : Partials(p, row, N) /\ p[N] = total
  BY DEF SumsTo
<1>2. /\ b \in 1..N /\ b - 1 \in 0..N /\ a <= b - 1 /\ N \in 0..N
      /\ b <= N /\ a \in Nat /\ b \in Nat
  OBVIOUS
<1>3. p[a] <= p[b - 1] /\ p[b] <= p[N]
  BY <1>1, <1>2, PartialsGrow
<1>4. p[b] = p[b - 1] + row[b]
  BY <1>1, <1>2 DEF Partials
<1>5. row[a] <= p[a]
  <2>1. CASE a = 0
    BY <1>1, <2>1 DEF Partials
  <2>2. CASE a # 0
    <3>1. a \in 1..N /\ 0 \in 0..N /\ a - 1 \in 0..N /\ 0 <= a - 1
      BY <2>2
    <3>2. p[0] <= p[a - 1]
      BY <1>1, <3>1, PartialsGrow
    <3>3. p[0] = row[0] /\ row[0] \in Nat /\ p[a] = p[a - 1] + row[a] /\ p[a - 1] \in Int
      BY <1>1, <3>1 DEF Partials
    <3>4. QED
      BY <3>2, <3>3
  <2>3. QED
    BY <2>1, <2>2
<1>6. /\ p[a] \in Int /\ p[b] \in Int /\ p[b - 1] \in Int /\ p[N] \in Int
      /\ row[a] \in Nat /\ row[b] \in Nat
  BY <1>1, <1>2 DEF Partials
<1>7. QED
  BY <1>1, <1>3, <1>4, <1>5, <1>6

(* Changing one entry changes the total by as much.                        *)
LEMMA ChangeOne ==
  ASSUME NEW N \in Nat \ {0}, NEW row \in [0..N -> Nat], NEW total \in Int, SumsTo(row, N, total),
         NEW a \in 0..N, NEW d \in Int
  PROVE  SumsTo([row EXCEPT ![a] = @ + d], N, total + d)
<1>1. PICK p : Partials(p, row, N) /\ p[N] = total
  BY DEF SumsTo
<1> DEFINE new == [row EXCEPT ![a] = @ + d]
           q   == [k \in 0..N |-> IF k < a THEN p[k] ELSE p[k] + d]
<1>2. p \in [0..N -> Int]
  BY <1>1 DEF Partials
<1>3. q \in [0..N -> Int]
  BY <1>2
<1>4. q[0] = new[0]
  BY <1>1 DEF Partials
<1>5. ASSUME NEW i \in 1..N
      PROVE  q[i] = q[i - 1] + new[i]
  <2>1. /\ i \in 0..N /\ i - 1 \in 0..N /\ p[i] = p[i - 1] + row[i]
        /\ p[i - 1] \in Int /\ row[i] \in Nat
    BY <1>1 DEF Partials
  <2>2. QED
    BY <2>1
<1>6. q[N] = total + d
  BY <1>1
<1>7. Partials(q, new, N)
  BY <1>3, <1>4, <1>5 DEF Partials
<1>8. QED
  BY <1>6, <1>7 DEF SumsTo

(* The total of N equal entries, beside an empty one.                      *)
LEMMA EqualEntries ==
  ASSUME NEW N \in Nat \ {0}, NEW each \in Nat
  PROVE  SumsTo([i \in 0..N |-> IF i \in 1..N THEN each ELSE 0], N, N * each)
<1> DEFINE row == [i \in 0..N |-> IF i \in 1..N THEN each ELSE 0]
           p   == [i \in 0..N |-> i * each]
<1>1. p \in [0..N -> Int] /\ p[0] = row[0]
  OBVIOUS
<1>2. ASSUME NEW i \in 1..N PROVE p[i] = p[i - 1] + row[i]
  <2>1. p[i] = i * each /\ p[i - 1] = (i - 1) * each /\ row[i] = each
    OBVIOUS
  <2>2. i * each = (i - 1) * each + each
    BY Z3
  <2>3. QED
    BY <2>1, <2>2
<1>3. p[N] = N * each
  OBVIOUS
<1>4. Partials(p, row, N)
  BY <1>1, <1>2 DEF Partials
<1>5. QED
  BY <1>3, <1>4 DEF SumsTo

-----------------------------------------------------------------------------
(* integer_sqrt.                                                           *)

(* Every natural number has an integer square root, and IntegerSqrt is it. *)
LEMMA SqrtIsSqrt ==
  ASSUME NEW n \in Nat
  PROVE  /\ IntegerSqrt(n) \in 0..n
         /\ IsSqrt(IntegerSqrt(n), n)
<1> DEFINE Above == {r \in Nat : n < (r + 1) * (r + 1)}
<1>1. n \in Above
  OBVIOUS
<1>2. PICK r \in Above : \A s \in Above : r <= s
  BY <1>1, LeastNat
<1>3. r \in 0..n
  BY <1>1, <1>2
<1>4. r * r <= n
  <2>1. CASE r = 0
    BY <2>1
  <2>2. CASE r # 0
    <3>1. r - 1 \in Nat /\ r - 1 \notin Above
      BY <1>2, <2>2
    <3>2. ~(n < ((r - 1) + 1) * ((r - 1) + 1))
      BY <3>1
    <3>3. (r - 1) + 1 = r
      BY <1>3
    <3>4. QED
      BY <3>2, <3>3, <1>3
  <2>3. QED
    BY <2>1, <2>2
<1>5. \E s \in 0..n : IsSqrt(s, n)
  BY <1>2, <1>3, <1>4 DEF IsSqrt
<1>6. QED
  BY <1>5 DEF IntegerSqrt

(* There is only one integer square root.                                  *)
LEMMA SqrtUnique ==
  ASSUME NEW n \in Nat, NEW r \in Nat, IsSqrt(r, n)
  PROVE  r = IntegerSqrt(n)
<1> DEFINE s == IntegerSqrt(n)
<1>1. s \in Nat /\ s * s <= n /\ n < (s + 1) * (s + 1)
  BY SqrtIsSqrt DEF IsSqrt
<1>2. r * r <= n /\ n < (r + 1) * (r + 1)
  BY DEF IsSqrt
<1> HIDE DEF s
<1>3. r <= s
  <2>1. r * r < (s + 1) * (s + 1)
    BY <1>1, <1>2
  <2>2. QED
    BY <1>1, <2>1, Z3
<1>4. s <= r
  <2>1. s * s < (r + 1) * (r + 1)
    BY <1>1, <1>2
  <2>2. QED
    BY <1>1, <2>1, Z3
<1>5. QED
  BY <1>1, <1>3, <1>4 DEF s

-----------------------------------------------------------------------------
(* What the pool relies on.                                                *)

LEMMA ToU64Some ==
  ASSUME NEW v \in Nat, ToU64(v) # None
  PROVE  ToU64(v) = v /\ v \in U64
BY MaxU64Assumption DEF ToU64, U64

(* A first deposit creates at most the geometric mean of its amounts.      *)
LEMMA FirstLpTokens ==
  ASSUME NEW a \in U64, NEW b \in U64, NEW ra \in U64, NEW rb \in U64,
         NEW lp, lp = CalculateLpTokens(a, b, ra, rb, 0), lp # None
  PROVE  lp \in U64 /\ lp * lp <= a * b
<1> DEFINE root == IntegerSqrt(a * b)
<1>1. a * b \in Nat
  BY MaxU64Assumption DEF U64
<1>2. root \in Nat /\ root * root <= a * b
  BY <1>1, SqrtIsSqrt DEF IsSqrt
<1>3. lp = ToU64(root)
  BY DEF CalculateLpTokens
<1> HIDE DEF root
<1>4. QED
  BY <1>2, <1>3, ToU64Some

(* A later deposit creates no more shares than either of its amounts is    *)
(* worth at the current reserves.                                          *)
LEMMA LaterLpTokens ==
  ASSUME NEW a \in U64, NEW b \in U64,
         NEW ra \in U64 \ {0}, NEW rb \in U64 \ {0}, NEW S \in U64 \ {0},
         NEW lp, lp = CalculateLpTokens(a, b, ra, rb, S), lp # None
  PROVE  lp \in U64 /\ lp * ra <= a * S /\ lp * rb <= b * S
<1> DEFINE share_a == ProportionalShare(a, ra, S)
           share_b == ProportionalShare(b, rb, S)
<1>1. /\ a \in Nat /\ b \in Nat /\ S \in Nat \ {0}
      /\ ra \in Nat \ {0} /\ rb \in Nat \ {0}
      /\ a * S \in Nat /\ b * S \in Nat
  BY MaxU64Assumption DEF U64
<1>2. share_a \in Nat /\ ra * share_a <= a * S
  BY <1>1, DivBounds DEF ProportionalShare, CheckedDiv
<1>3. share_b \in Nat /\ rb * share_b <= b * S
  BY <1>1, DivBounds DEF ProportionalShare, CheckedDiv
<1>4. lp = ToU64(Smaller(share_a, share_b))
  BY <1>1 DEF CalculateLpTokens
<1> HIDE DEF share_a, share_b
<1>5. /\ Smaller(share_a, share_b) \in Nat
      /\ Smaller(share_a, share_b) <= share_a
      /\ Smaller(share_a, share_b) <= share_b
  BY <1>2, <1>3 DEF Smaller
<1>6. lp \in U64 /\ lp \in Nat /\ lp <= share_a /\ lp <= share_b
  BY <1>4, <1>5, ToU64Some
<1>7. lp * ra <= share_a * ra /\ lp * rb <= share_b * rb
  BY <1>1, <1>2, <1>3, <1>6, ProductMono
<1>8. share_a * ra = ra * share_a /\ share_b * rb = rb * share_b
  BY <1>1, <1>2, <1>3
<1>9. QED
  BY <1>1, <1>2, <1>3, <1>6, <1>7, <1>8

(* A withdrawal pays at most its part of a reserve, and all of it to the   *)
(* last shares.                                                            *)
LEMMA RemovalIsFair ==
  ASSUME NEW lp \in U64, NEW r \in U64, NEW S \in U64 \ {0}, lp <= S,
         NEW out, out = RemovalAmount(lp, r, S), out # None
  PROVE  /\ out \in U64 /\ out <= r
         /\ out * S <= lp * r
         /\ lp = S => out = r
         /\ lp < S /\ r > 0 => out < r
<1> DEFINE quotient == (lp * r) \div S
<1>1. /\ lp \in Nat /\ r \in Nat /\ S \in Nat \ {0} /\ lp * r \in Nat
  BY MaxU64Assumption DEF U64
<1>2. quotient \in Nat /\ S * quotient <= lp * r /\ lp * r < S * (quotient + 1)
  BY <1>1, DivBounds
<1>3. out = ToU64(quotient)
  BY <1>1 DEF RemovalAmount, CheckedDiv
<1> HIDE DEF quotient
<1>4. out = quotient /\ out \in U64
  BY <1>2, <1>3, ToU64Some
<1>5. lp * r <= S * r
  BY <1>1, ProductMono
<1>6. out <= r
  <2>1. S * quotient <= S * r
    BY <1>1, <1>2, <1>5
  <2>2. QED
    BY <1>1, <1>2, <1>4, <2>1, ProductCancel
<1>7. ASSUME lp = S PROVE out = r
  <2>1. r <= quotient
    BY <1>1, <1>2, <1>7, Z3
  <2>2. QED
    BY <1>1, <1>2, <1>4, <1>6, <2>1
<1>8. ASSUME lp < S, r > 0 PROVE out < r
  <2>1. lp * r < S * r
    BY <1>1, <1>8, Z3
  <2>2. S * quotient < S * r
    BY <1>1, <1>2, <2>1
  <2>3. QED
    BY <1>1, <1>2, <1>4, <2>2, Z3
<1>9. out * S = S * quotient
  BY <1>1, <1>2, <1>4
<1>10. QED
  BY <1>2, <1>4, <1>6, <1>7, <1>8, <1>9

(* A withdrawal always computes an amount, and one that is not zero from a *)
(* reserve as large as the number of shares.                               *)
LEMMA RemovalDefined ==
  ASSUME NEW lp \in U64, NEW r \in U64, NEW S \in U64 \ {0}, lp <= S
  PROVE  /\ RemovalAmount(lp, r, S) \in U64
         /\ RemovalAmount(lp, r, S) <= r
         /\ S <= r => lp <= RemovalAmount(lp, r, S)
<1> DEFINE quotient == (lp * r) \div S
<1>1. lp \in Nat /\ r \in Nat /\ S \in Nat \ {0} /\ lp * r \in Nat /\ r <= MaxU64
  BY MaxU64Assumption DEF U64
<1>2. quotient \in Nat /\ S * quotient <= lp * r
  BY <1>1, DivBounds
<1>3. S <= r => lp <= quotient
  <2>1. S <= r => S * lp <= lp * r
    BY <1>1, Z3
  <2>2. QED
    BY <1>1, <2>1, DivLowerBound
<1>4. RemovalAmount(lp, r, S) = ToU64(quotient)
  BY <1>1 DEF RemovalAmount, CheckedDiv
<1> HIDE DEF quotient
<1>5. quotient <= r
  <2>1. lp * r <= S * r
    BY <1>1, ProductMono
  <2>2. S * quotient <= S * r
    BY <1>1, <1>2, <2>1
  <2>3. QED
    BY <1>1, <1>2, <2>2, ProductCancel
<1>6. ToU64(quotient) = quotient /\ quotient \in U64
  BY <1>1, <1>2, <1>5, MaxU64Assumption DEF ToU64, U64
<1>7. QED
  BY <1>3, <1>4, <1>5, <1>6

(* A swap leaves something in the reserve it pays from, and never lowers   *)
(* the product of the reserves.                                            *)
LEMMA SwapIsFair ==
  ASSUME NEW a \in U64, NEW rin \in U64, NEW rout \in U64,
         NEW fn \in U64, NEW fd \in U64, fn < fd,
         NEW out, out = SwapOutput(a, rin, rout, fn, fd), out # None
  PROVE  /\ out \in U64 /\ out < rout
         /\ rin * rout <= (rin + a) * (rout - out)
<1> DEFINE ff  == FeeFactor(fn, fd)
           num == SwapNumerator(a, rout, ff)
           den == SwapDenominator(a, rin, ff, fd)
<1>1. /\ a \in Nat \ {0} /\ rin \in Nat \ {0} /\ rout \in Nat \ {0}
      /\ fd \in Nat \ {0} /\ fn \in Nat
  BY MaxU64Assumption DEF U64, SwapOutput
<1>2. out = ToU64(CheckedDiv(num, den))
  BY <1>1 DEF SwapOutput
<1>3. ff \in Nat \ {0} /\ ff <= fd
  BY <1>1 DEF FeeFactor
<1>4. num = rout * a * ff /\ den = rin * fd + a * ff
  BY DEF SwapNumerator, SwapDenominator
<1> HIDE DEF ff, num, den
<1>5. /\ a * ff \in Nat \ {0} /\ rin * fd \in Nat /\ rin * ff \in Nat
      /\ rin * ff <= rin * fd /\ rin * fd > 0
  BY <1>1, <1>3, Z3
<1>6. num = rout * (a * ff) /\ num \in Nat /\ den \in Nat \ {0}
  BY <1>1, <1>3, <1>4, <1>5, Z3
<1> DEFINE quotient == num \div den
<1>7. quotient \in Nat /\ den * quotient <= num
  BY <1>6, DivBounds
<1>8. out = ToU64(quotient)
  BY <1>2 DEF CheckedDiv
<1> HIDE DEF quotient
<1>9. out = quotient /\ out \in U64 /\ out \in Nat
  BY <1>7, <1>8, ToU64Some
<1>10. num < den * rout
  <2>1. rout * (a * ff) < rout * den
    BY <1>1, <1>4, <1>5, <1>6, Z3
  <2>2. QED
    BY <1>1, <1>6, <2>1
<1>11. out < rout
  <2>1. den * quotient < den * rout
    BY <1>1, <1>6, <1>7, <1>10
  <2>2. QED
    BY <1>1, <1>6, <1>7, <1>9, <2>1, Z3
<1>12. (rin + a) * out <= rout * a
  <2>1. (rin * ff + a * ff) * out <= den * out
    BY <1>4, <1>5, <1>6, <1>9, ProductMono
  <2>2. (rin * ff + a * ff) * out <= rout * (a * ff)
    BY <1>1, <1>3, <1>5, <1>6, <1>7, <1>9, <2>1
  <2>3. (rin * ff + a * ff) * out = ff * ((rin + a) * out)
    BY <1>1, <1>3, <1>9, Z3
  <2>4. rout * (a * ff) = ff * (rout * a)
    BY <1>1, <1>3, Z3
  <2>5. (rin + a) * out \in Nat /\ rout * a \in Nat
    BY <1>1, <1>9
  <2>6. QED
    BY <1>3, <2>2, <2>3, <2>4, <2>5, ProductCancel
<1>13. (rin + a) * (rout - out) = rin * rout + rout * a - (rin + a) * out
  BY <1>1, <1>9, Z3
<1>14. /\ rin * rout \in Nat /\ rout * a \in Nat /\ (rin + a) * out \in Nat
  BY <1>1, <1>9
<1>15. QED
  BY <1>9, <1>11, <1>12, <1>13, <1>14
=============================================================================
