----------------------------- MODULE MCDexPool -----------------------------
(***************************************************************************)
(* Small pools for TLC, with the figures reported about them.  A "u64" is  *)
(* 3 or 4 bits wide, so that its limits are within reach of a few          *)
(* deposits, and Scale is small enough that only large reserves overflow.  *)
(***************************************************************************)
EXTENDS PoolInfo

MCQuarterFee == {<<1, 4>>, <<1, 1>>}       \* <<1, 1>> is rejected: not a fee
MCNoFee      == {<<0, 1>>}
MCFees       == MCQuarterFee \cup MCNoFee
=============================================================================
