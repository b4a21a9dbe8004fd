\* A mint of token A that charges a transfer fee, and nothing but the program's
\* own instructions.
CONSTANTS
  MaxU64 = 7
  NumUsers = 2
  Endowment = 3
  Fees <- MCNoFee
  TransferFees <- MCOnlyFeeA
  Amounts = {1, 2}
  Minimums = {0, 1}
  DirectTransfers = {}
  DirectBurns = {}
SPECIFICATION Spec
PROPERTY SwapPaysMinimum
