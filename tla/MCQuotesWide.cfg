\* Reserves and amounts that together just fit in a 5-bit u64.
CONSTANTS
  MaxU64 = 31
  Reserves = {15}
  Shares = {15}
  Amounts = {1, 15}
  Fees <- MCFees
SPECIFICATION Spec
INVARIANT IntermediatesFit
CHECK_DEADLOCK FALSE
