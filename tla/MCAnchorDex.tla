---------------------------- MODULE MCAnchorDex ----------------------------
(***************************************************************************)
(* Small pools for TLC.  Transfers of up to 4 tokens pay a fee of 1 at a   *)
(* rate of 25 per cent, rounded up.                                        *)
(***************************************************************************)
EXTENDS AnchorDex

MCNoFee        == {<<0, 1>>, <<1, 1>>}     \* <<1, 1>> is rejected: not a fee
MCNoTransferFee == [t \in Tokens |-> 0]
MCTransferFeeA  == [MCNoTransferFee EXCEPT !["A"] = 2500]
MCOnlyFeeA      == {MCTransferFeeA}
MCEitherFee     == {MCNoTransferFee, MCTransferFeeA}
=============================================================================
