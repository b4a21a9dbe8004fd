\* A pool account one byte larger than POOL_SIZE.
CONSTANTS
  MaxU64 = 15
  NumUsers = 1
  Endowment = 4
  DataLens = {203}
  Fees <- MCFees
  Amounts = {0, 1, 2, 3}
  Minimums = {0, 2}
  DirectTransfers = {}
  DirectBurns = {}
  Scale = 3
SPECIFICATION Spec
PROPERTY InitializedOnce
