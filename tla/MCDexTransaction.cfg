\* Two users who also burn shares themselves; a pool account of the right size
\* or too small; fees of which one is invalid.
CONSTANTS
  MaxU64 = 7
  NumUsers = 2
  Endowment = 2
  DataLens = {201, 202}
  Fees <- MCFees
  Amounts = {1, 2}
  Minimums = {0}
  DirectTransfers = {}
  DirectBurns = {"LP"}
SPECIFICATION Spec
INVARIANTS TypeOK ReadsAreCurrent CallsDecide Conserved
PROPERTY ImplementsDexPool
