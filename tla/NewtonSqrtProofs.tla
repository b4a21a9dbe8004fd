-------------------------- MODULE NewtonSqrtProofs --------------------------
(***************************************************************************)
(* The Newton loop of integer_sqrt is right for every width: it returns    *)
(* the integer square root, never wraps or divides by zero, and runs its   *)
(* body at most 1 + log2(n) times.                                         *)
(***************************************************************************)
EXTENDS NewtonSqrt, AmmMathProofs

-----------------------------------------------------------------------------
(* One Newton step from m >= root: it cannot fall below the root, it stops *)
(* decreasing exactly at the root, and it halves the distance otherwise.   *)

LEMMA NewtonStaysAbove ==
  ASSUME NEW k \in Nat \ {0}, NEW m \in Nat \ {0}, NEW r \in Nat, IsSqrt(r, k)
  PROVE  r <= (m + k \div m) \div 2
<1> DEFINE q == k \div m
<1>1. q \in Nat /\ k < m * (q + 1)
  BY DivBounds
<1>2. r * r <= k
  BY DEF IsSqrt
<1> HIDE DEF q
<1>3. r * r < m * (q + 1)
  BY <1>1, <1>2
<1>4. 4 * (m * (q + 1)) <= (m + q + 1) * (m + q + 1)
  BY <1>1, Z3
<1>5. (2 * r) * (2 * r) < (m + q + 1) * (m + q + 1)
  BY <1>1, <1>3, <1>4, Z3
<1>6. 2 * r < m + q + 1
  BY <1>1, <1>5, Z3
<1>7. QED
  BY <1>1, <1>6 DEF q

LEMMA NewtonStopsAtRoot ==
  ASSUME NEW k \in Nat \ {0}, NEW m \in Nat \ {0}, NEW r \in Nat,
         IsSqrt(r, k), r <= m, m <= (m + k \div m) \div 2
  PROVE  m = r
<1> DEFINE q == k \div m
<1>1. q \in Nat /\ m * q <= k
  BY DivBounds
<1>2. m <= (m + q) \div 2
  OBVIOUS
<1> HIDE DEF q
<1>3. m <= q
  BY <1>1, <1>2
<1>4. m * m <= m * q
  BY <1>1, <1>3, Z3
<1>5. m * m < (r + 1) * (r + 1)
  BY <1>1, <1>4 DEF IsSqrt
<1>6. m < r + 1
  BY <1>5, Z3
<1>7. QED
  BY <1>6

LEMMA NewtonHalves ==
  ASSUME NEW k \in Nat \ {0}, NEW m \in Nat \ {0}, NEW r \in Nat,
         IsSqrt(r, k), r < m
  PROVE  2 * ((m + k \div m) \div 2 - r) <= m - r
<1> DEFINE q == k \div m
<1>1. q \in Nat
  BY DivBounds
<1>2. k < (r + 1) * (r + 1)
  BY DEF IsSqrt
<1>3. (r + 1) * (r + 1) <= m * (r + 1)
  BY Z3
<1>4. q < r + 1
  BY <1>2, <1>3, DivUpperBound
<1> HIDE DEF q
<1>5. 2 * ((m + q) \div 2 - r) <= m - r
  BY <1>1, <1>4
<1>6. QED
  BY <1>5 DEF q

-----------------------------------------------------------------------------
LEMMA InitIInv == Init => IInv
BY DEF Init, IInv, TypeOK, LoopInv, NewtonStep, DoneInv, LoopIsShort

(* The loop test holds: another iteration.                                 *)
LEMMA IterateIInv ==
  ASSUME IInv, Iterate
  PROVE  IInv'
<1> USE DEF IInv, TypeOK, LoopInv, NewtonStep, Iterate
<1> DEFINE r == Root
<1>1. n \in Nat \ {0} /\ x \in Nat /\ y \in Nat /\ spent \in Nat \ {0}
  BY DEF Argument
<1>2. r \in 0..n /\ IsSqrt(r, n) /\ Root' = r
  BY <1>1, SqrtIsSqrt DEF Root
<1>3. r \in Nat \ {0}
  BY <1>1, <1>2 DEF IsSqrt
<1> HIDE DEF r
<1>4. x >= r /\ x <= n /\ y = (x + n \div x) \div 2 /\ spent * (x - r) <= n
  BY DEF r
<1>5. x \in Nat \ {0} /\ y < x
  BY <1>1, <1>3, <1>4
<1>6. y >= r /\ y \in Nat \ {0}
  BY <1>1, <1>2, <1>3, <1>4, <1>5, NewtonStaysAbove
<1>7. n \div y \in Nat
  BY <1>1, <1>6, DivBounds
<1>8. x > r
  BY <1>1, <1>3, <1>5, <1>6
<1>9. 2 * (y - r) <= x - r
  BY <1>1, <1>2, <1>3, <1>4, <1>5, <1>8, NewtonHalves
<1>10. spent <= n
  BY <1>1, <1>3, <1>4, <1>8, Z3
<1>11. (2 * spent) * (y - r) <= n
  <2>1. spent * (2 * (y - r)) <= spent * (x - r)
    BY <1>1, <1>3, <1>6, <1>8, <1>9, Z3
  <2>2. (2 * spent) * (y - r) = spent * (2 * (y - r))
    BY <1>1, <1>3, Z3
  <2>3. QED
    BY <1>1, <1>3, <1>4, <2>1, <2>2, Z3
<1>12. TypeOK'
  BY <1>1, <1>6, <1>7
<1>13. LoopInv'
  BY <1>1, <1>2, <1>3, <1>4, <1>5, <1>6, <1>11
<1>14. LoopIsShort'
  BY <1>1, <1>10 DEF LoopIsShort
<1>15. QED
  BY <1>12, <1>13, <1>14 DEF DoneInv

(* The loop test fails: x is the root.                                     *)
LEMMA ReturnIInv ==
  ASSUME IInv, Return
  PROVE  IInv'
<1> USE DEF IInv, TypeOK, LoopInv, NewtonStep, Return
<1>1. n \in Nat \ {0} /\ x \in Nat /\ y \in Nat
  BY DEF Argument
<1>2. Root \in 0..n /\ IsSqrt(Root, n) /\ Root' = Root
  BY <1>1, SqrtIsSqrt DEF Root
<1>3. Root # 0
  BY <1>1, <1>2 DEF IsSqrt
<1>4. x = Root
  BY <1>1, <1>2, <1>3, NewtonStopsAtRoot
<1>5. QED
  BY <1>1, <1>2, <1>4 DEF DoneInv, LoopIsShort

LEMMA StepIInv == IInv /\ [Next]_vars => IInv'
<1> SUFFICES ASSUME IInv, [Next]_vars
             PROVE  IInv'
  OBVIOUS
<1> USE DEF IInv, TypeOK
<1>1. CASE ReturnZero
  <2>1. IntegerSqrt(0) = 0
    BY SqrtIsSqrt
  <2>2. QED
    BY <1>1, <2>1 DEF ReturnZero, LoopInv, NewtonStep, DoneInv, LoopIsShort, Root
<1>2. CASE Start
  <2>1. n \in Nat \ {0} /\ n' = n /\ x' = n /\ spent' = 1 /\ pc' = "loop"
    BY <1>2 DEF Start, Argument
  <2>2. Root \in 0..n /\ Root' = Root
    BY <2>1, SqrtIsSqrt DEF Root
  <2>3. n \div n = 1
    <3>1. 1 <= n \div n
      BY <2>1, DivLowerBound
    <3>2. n \div n < 2
      BY <2>1, DivUpperBound
    <3>3. n \div n \in Nat
      BY <2>1, DivBounds
    <3>4. QED
      BY <3>1, <3>2, <3>3
  <2>4. y' = (x' + n' \div x') \div 2 /\ y' \in Nat
    BY <1>2, <2>1, <2>3 DEF Start
  <2>5. TypeOK'
    BY <1>2, <2>1, <2>4 DEF Start
  <2>6. LoopInv'
    BY <2>1, <2>2, <2>4 DEF LoopInv, NewtonStep
  <2>7. QED
    BY <2>1, <2>5, <2>6 DEF DoneInv, LoopIsShort
<1>3. CASE Iterate
  BY <1>3, IterateIInv
<1>4. CASE Return
  BY <1>4, ReturnIInv
<1>5. CASE UNCHANGED vars
  BY <1>5 DEF vars, LoopInv, NewtonStep, DoneInv, LoopIsShort, Root
<1>6. QED
  BY <1>1, <1>2, <1>3, <1>4, <1>5 DEF Next

(* The inductive invariant: types, x at or above the root, and the         *)
(* distance to the root halved by every iteration.                         *)
THEOREM NewtonInvariant == Spec => []IInv
<1>1. QED
  BY InitIInv, StepIInv, PTL DEF Spec

(* The argument stays a product of two amounts, x and y stay naturals.     *)
THEOREM NewtonTypeOK == Spec => []TypeOK
<1>1. IInv => TypeOK
  BY DEF IInv
<1>2. QED
  BY <1>1, NewtonInvariant, PTL

(* The loop returns the integer square root of its argument.               *)
THEOREM NewtonComputesSqrt == Spec => []ReturnsSqrt
<1>1. IInv => ReturnsSqrt
  BY DEF IInv, DoneInv, ReturnsSqrt, Root
<1>2. QED
  BY <1>1, NewtonInvariant, PTL

(* No unchecked addition of the loop wraps and no divisor is zero.         *)
THEOREM NewtonIsSafe == Spec => []LoopIsSafe
<1>1. IInv => LoopIsSafe
  <2> SUFFICES ASSUME IInv
               PROVE  LoopIsSafe
    OBVIOUS
  <2> USE DEF IInv, TypeOK
  <2>1. n \in Nat /\ n <= MaxU64 * MaxU64 /\ MaxU64 \in Nat \ {0}
    BY MaxU64Assumption DEF Argument
  <2>2. n + 1 <= MaxU128
    BY <2>1, Z3 DEF MaxU128
  <2>3. CASE pc = "loop"
    <3>1. n # 0 /\ x >= Root /\ x <= n /\ y = (x + n \div x) \div 2
      BY <2>3 DEF LoopInv, NewtonStep
    <3>2. Root \in 0..n /\ IsSqrt(Root, n) /\ Root # 0
      BY <2>1, <3>1, SqrtIsSqrt DEF IsSqrt, Root
    <3>3. y >= Root /\ y \in Nat \ {0}
      BY <2>1, <3>1, <3>2, NewtonStaysAbove
    <3>4. y <= n
      <4> DEFINE q == n \div x
      <4>1. x \in Nat \ {0}
        BY <3>1, <3>2
      <4>2. q \in Nat /\ q <= n
        BY <2>1, <4>1, DivBounds, Z3
      <4>3. y = (x + q) \div 2
        BY <3>1
      <4> HIDE DEF q
      <4>4. QED
        BY <2>1, <3>1, <4>1, <4>2, <4>3
    <3>5. y + n \div y <= n + 1
      <4>1. n \div y \in Nat /\ y * (n \div y) <= n
        BY <2>1, <3>3, DivBounds
      <4>2. (y - 1) * ((n \div y) - 1) >= 0 \/ n \div y = 0
        BY <3>3, <4>1, Z3
      <4>3. QED
        BY <2>1, <3>3, <3>4, <4>1, <4>2, Z3
    <3>6. MaxU128 \in Nat
      BY <2>1, Z3 DEF MaxU128
    <3>7. QED
      BY <2>1, <2>2, <2>3, <3>3, <3>5, <3>6 DEF LoopIsSafe
  <2>4. QED
    BY <2>1, <2>2, <2>3 DEF LoopIsSafe
<1>2. QED
  BY <1>1, NewtonInvariant, PTL

(* The loop body runs at most 1 + log2(n) times.                           *)
THEOREM NewtonIsShort == Spec => []LoopIsShort
<1>1. IInv => LoopIsShort
  BY DEF IInv
<1>2. QED
  BY <1>1, NewtonInvariant, PTL
=============================================================================
