----------------------------- MODULE NewtonSqrt -----------------------------
(***************************************************************************)
(* integer_sqrt of src/math.rs (lines 99-111), the Newton iteration that   *)
(* sizes the first deposit of a pool, as the loop it is: one step for the  *)
(* code before the loop, one for each test of the loop condition.          *)
(*                                                                         *)
(* The additions x + 1 and x + n / x are plain u128 additions (they are    *)
(* not checked_add), and n / x traps when x is zero, so the loop has three *)
(* things to get right besides its answer: no overflow, no division by     *)
(* zero, and an end, which on chain has to come within the compute budget. *)
(***************************************************************************)
EXTENDS AmmMath

VARIABLES
  n,      \* the argument: the product of two u64 amounts
  x, y,   \* the code's locals
  pc,     \* "start", "loop" or "done"; when done, x is the value returned
  spent   \* history: 2^(number of times the loop body ran)

vars == <<n, x, y, pc, spent>>

Argument == 0..(MaxU64 * MaxU64)

Init ==
  /\ n \in Argument
  /\ x = 0 /\ y = 0
  /\ pc = "start"
  /\ spent = 1

ReturnZero ==
  /\ pc = "start" /\ n = 0
  /\ pc' = "done"
  /\ UNCHANGED <<n, x, y, spent>>

StartFromHalf ==                                                  \* mutant
  /\ pc = "start" /\ n # 0
  /\ x' = n /\ y' = n \div 2 /\ pc' = "loop"
  /\ UNCHANGED <<n, spent>>
Start ==
  /\ pc = "start" /\ n # 0
  /\ x' = n
  /\ y' = (n + 1) \div 2
  /\ pc' = "loop"
  /\ UNCHANGED <<n, spent>>

StepSubtracts(m) == (m - n \div m) \div 2                         \* mutant
StepRoundedUp(m) == (m + n \div m + 1) \div 2                     \* mutant
StepByOne(m)     == IF m * m > n THEN m - 1 ELSE m                \* mutant
NewtonStep(m)    == (m + n \div m) \div 2

Iterate ==
  /\ pc = "loop" /\ y < x
  /\ x' = y
  /\ y' = NewtonStep(y)
  /\ spent' = 2 * spent
  /\ UNCHANGED <<n, pc>>

ReturnOnlyAbove ==                                                \* mutant
  pc = "loop" /\ y > x /\ pc' = "done" /\ UNCHANGED <<n, x, y, spent>>
Return ==
  /\ pc = "loop" /\ ~(y < x)
  /\ pc' = "done"
  /\ UNCHANGED <<n, x, y, spent>>

Next == ReturnZero \/ Start \/ Iterate \/ Return

Spec     == Init /\ [][Next]_vars
FairSpec == Spec /\ WF_vars(Next)   \* a running program takes its next step

-----------------------------------------------------------------------------
TypeOK ==
  /\ n \in Argument
  /\ x \in Nat /\ y \in Nat
  /\ pc \in {"start", "loop", "done"}
  /\ spent \in Nat \ {0}

(* The value returned is the integer square root, not one more or less:    *)
(* Newton's step on integers could stop a step early or cross the root.    *)
ReturnsSqrt == pc = "done" => x = IntegerSqrt(n)

(* The unchecked u128 additions cannot wrap and no division has divisor 0, *)
(* for every product of two u64 values the caller can pass.                *)
LoopIsSafe ==
  /\ pc = "start" => n + 1 <= MaxU128
  /\ pc = "loop"  => y > 0 /\ y + n \div y <= MaxU128

(* The body runs at most 1 + log2(n) times (129 for the widest argument):  *)
(* the distance to the root is at least halved each time.                  *)
LoopIsShort == pc # "start" /\ n # 0 => spent <= 2 * n

(* The loop ends.                                                          *)
Terminates == <>(pc = "done")

-----------------------------------------------------------------------------
(* The inductive invariant: x never falls below the root, y is the Newton  *)
(* step from x, and every iteration has halved the distance to the root.   *)
Root == IntegerSqrt(n)

LoopInv ==
  pc = "loop" =>
    /\ n # 0
    /\ x >= Root /\ x <= n
    /\ y = NewtonStep(x)
    /\ spent * (x - Root) <= n

DoneInv ==
  pc = "done" =>
    /\ x = Root

IInv ==
  /\ TypeOK
  /\ pc = "start" => spent = 1 /\ x = 0
  /\ LoopInv
  /\ DoneInv
  /\ LoopIsShort
=============================================================================
