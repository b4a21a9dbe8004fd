\* Two users, a documented account size and one too small, no direct calls.
CONSTANTS
  MaxU64 = 15
  NumUsers = 2
  Endowment = 4
  DataLens = {201, 202}
  Fees <- MCQuarterFee
  Amounts = {0, 1, 3}
  Minimums = {0, 2}
  DirectTransfers = {}
  DirectBurns = {}
  Scale = 3
SPECIFICATION Spec
INVARIANTS TypeOK ReservesMatchVaults LpSupplyMatchesMint PerLpBoundsRemoval PriceBoundsSwaps
PROPERTIES InitializedOnce ReportedValueNeverFalls
