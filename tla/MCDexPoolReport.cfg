\* A deposit that is too large for its figures: 6 * Scale does not fit.
CONSTANTS
  MaxU64 = 15
  NumUsers = 1
  Endowment = 6
  DataLens = {202}
  Fees <- MCNoFee
  Amounts = {1, 6}
  Minimums = {0}
  DirectTransfers = {}
  DirectBurns = {}
  Scale = 3
SPECIFICATION Spec
INVARIANT LogShowsRedeemable
