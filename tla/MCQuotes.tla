------------------------------ MODULE MCQuotes ------------------------------
(* Every small pool, amount and fee, far from and near the limits of u64.  *)
EXTENDS Quotes

MCFees     == {<<0, 1>>, <<1, 4>>, <<3, 10>>}
MCReserves == 0..7
MCAmounts  == {1, 2, 3, 5}
MCShares   == {0, 1, 2, 5}
=============================================================================
