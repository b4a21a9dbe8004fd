-------------------------- MODULE MCDexTransaction --------------------------
(* Small ledgers for TLC.                                                  *)
EXTENDS DexTransaction

MCFees == {<<0, 1>>, <<1, 1>>}             \* <<1, 1>> is rejected: not a fee
=============================================================================
