----------------------------- MODULE MCRetrying -----------------------------
(***************************************************************************)
(* Instances of Retrying for TLC.                                          *)
(***************************************************************************)
EXTENDS Retrying, TLC

CONSTANTS r1, r2, r3

SymmetricCalls == Permutations(Calls)
=============================================================================
