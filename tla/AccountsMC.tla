------------------------------ MODULE AccountsMC ------------------------------
(* The instance of Accounts that TLC checks.                                  *)
EXTENDS Accounts, TLC

CONSTANTS a, b, f

MCStarts == {{a, b}}
Symmetry == Permutations(Requests)
=============================================================================
