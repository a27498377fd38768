--------------------------- MODULE MCCompleteCall ---------------------------
(***************************************************************************)
(* The instance of CompleteCall for TLC.                                   *)
(***************************************************************************)
EXTENDS CompleteCall

CONSTANTS t1, t2, h1, h2

(* A final answer, one call, and two parallel calls.                       *)
UpToTwoCalls == {<< >>, << t1 >>, << t1, t2 >>}

EmittedEvents ==
    {Emitted(of, what) : of \in {"request", "tool"}, what \in {"start", "complete", "error"}}

By(kind, default) == [kind |-> kind, default |-> default]

(* def f(city, unit="C"), def g(city, unit="C", *rest), which can take the *)
(* place of f, and def h(x, /), which cannot.                              *)
ThreeFunctions ==
    {[city |-> By("keyword", FALSE), unit |-> By("keyword", TRUE)],
     [city |-> By("keyword", FALSE), unit |-> By("keyword", TRUE),
      rest |-> By("variadic", FALSE)],
     [x |-> By("positional_only", FALSE)]}
=============================================================================
