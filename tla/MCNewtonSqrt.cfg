CONSTANT MaxU64 = 31
SPECIFICATION FairSpec
INVARIANTS TypeOK IInv ReturnsSqrt LoopIsSafe LoopIsShort
PROPERTY Terminates
CHECK_DEADLOCK FALSE
