------------------------------ MODULE MCSession ------------------------------
(***************************************************************************)
(* Instances of Session for TLC.                                           *)
(***************************************************************************)
EXTENDS SessionProps

CONSTANTS c1, c2, c3, s1, s2

(* The store is empty, or holds a turn of an earlier run of the program.   *)
EmptyOrOneTurn == {<< >>, Turn(Prior)}
OneTurn        == {Turn(Prior)}
Empty          == {<< >>}

SymmetricCalls == Permutations(Calls)
=============================================================================
