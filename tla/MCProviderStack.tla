-------------------------- MODULE MCProviderStack --------------------------
(***************************************************************************)
(* Instances of ProviderStack for TLC.                                     *)
(***************************************************************************)
EXTENDS ProviderStack, TLC

CONSTANTS r1, r2, r3

SymmetricCalls == Permutations(Calls)
=============================================================================
