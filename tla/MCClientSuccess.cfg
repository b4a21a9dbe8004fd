\* What the last line printed promises.  The amounts of the demo, scaled down in proportion.
CONSTANTS
  MaxU64 = 63
  InitialMint = 60
  DepositAmount = 20
  SwapIn = 2
  Burned = 10
  FeeNumerator = 1
  FeeDenominator = 10
SPECIFICATION Spec
INVARIANT SuccessMeansAllDone
CHECK_DEADLOCK FALSE
