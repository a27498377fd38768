---------------------------- MODULE MCStreamLoop ----------------------------
(***************************************************************************)
(* Instances of StreamLoop for TLC.                                        *)
(***************************************************************************)
EXTENDS StreamLoop

CONSTANTS t1, t2

OneOrTwoCalls == {<< t1 >>, << t1, t2 >>}
=============================================================================
