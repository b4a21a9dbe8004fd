\* Users also send token A to the vault and burn their shares by themselves.
CONSTANTS
  MaxU64 = 7
  NumUsers = 2
  Endowment = 3
  DataLens = {202}
  Fees <- MCNoFee
  Amounts = {1, 2}
  Minimums = {0}
  DirectTransfers = {"A"}
  DirectBurns = {"LP"}
  Scale = 3
SPECIFICATION Spec
INVARIANTS ReservesBacked SharesBacked Redeemable NoLateOverflow EmptyTogether SharesBoundedByReserves
PROPERTIES ImplementsFairPool NoDilution
