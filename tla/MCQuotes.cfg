\* A u64 of 5 bits.
CONSTANTS
  MaxU64 = 31
  Reserves <- MCReserves
  Shares <- MCShares
  Amounts <- MCAmounts
  Fees <- MCFees
SPECIFICATION Spec
INVARIANTS TypeOK SplitNeverPaysMore SwapBackNeverProfits ReservesNeverDrained DepositNeverProfits
CHECK_DEADLOCK FALSE
