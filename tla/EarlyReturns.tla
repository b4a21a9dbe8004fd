---------------------------- MODULE EarlyReturns ----------------------------
(***************************************************************************)
(* An instruction handler as the list of its early returns, in the order   *)
(* of the code: the error each test returns, or Ok.  The runtime discards  *)
(* every write of an instruction that returns an error, so the first check *)
(* that fails decides what it returns, and any of them that nothing else   *)
(* happens.                                                                *)
(***************************************************************************)
EXTENDS Integers

Check(fails, error) == IF fails THEN error ELSE "Ok"

Failed(checks) == {i \in DOMAIN checks : checks[i] # "Ok"}
FirstFailed(checks) ==
  CHOOSE i \in Failed(checks) : \A j \in Failed(checks) : i <= j

Passes(checks) == Failed(checks) = {}
=============================================================================
