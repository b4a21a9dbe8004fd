\* Plain mints, or a mint of token A that charges a transfer fee; users also
\* transfer token A, to each other and to the vault, and burn shares, by
\* themselves.
CONSTANTS
  MaxU64 = 7
  NumUsers = 2
  Endowment = 3
  Fees <- MCNoFee
  TransferFees <- MCEitherFee
  Amounts = {1, 2}
  Minimums = {0, 2}
  DirectTransfers = {"A"}
  DirectBurns = {"LP"}
SPECIFICATION Spec
INVARIANTS TypeOK ShortfallIsWithheld MissingSharesAreBurned RedeemableUnlessWithheld
PROPERTY ImplementsFairPool
