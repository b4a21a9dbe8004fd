\* The amounts of the demo, scaled down in proportion.
CONSTANTS
  MaxU64 = 63
  InitialMint = 60
  DepositAmount = 20
  SwapIn = 2
  Burned = 10
  FeeNumerator = 1
  FeeDenominator = 10
SPECIFICATION FairSpec
INVARIANTS TypeOK InOrder ReportsShowOperation
PROPERTY SessionEnds
CHECK_DEADLOCK FALSE
