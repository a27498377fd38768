----------------------------- MODULE MCAdapters -----------------------------
(***************************************************************************)
(* The instance of Adapters for TLC.                                       *)
(***************************************************************************)
EXTENDS Adapters

(* Messages of a conversation, some without text, and a result whose call  *)
(* is not said.                                                            *)
Turns == {Msg("system", << 51 >>), Msg("system", NoContent), Msg("user", << 52 >>),
          Msg("user", << >>), Msg("assistant", << 53 >>), ResultOf(NoCallId, << 54 >>)}

(* A question, and a round of the loop with two calls that have these ids. *)
Round(text, ids) ==
    << Msg("user", << 50 >>),
       AskingFor(text, [k \in 1 .. 2 |->
           [id |-> ids[k], name |-> Name(k), arguments |-> "sent"]]) >> \o
    [k \in 1 .. 2 |-> ResultOf(ids[k], << 60 + k >>)]

(* Rounds in which OpenAI gave the ids, in which they were made up (as     *)
(* they will be again), and one with Gemini.                               *)
Rounds ==
    {Round(text, ids) : text \in {NoContent, << 55 >>},
        ids \in {<< Given(0), Given(1) >>, << Given(0), Made(1) >>,
                 << Made(0), Made(1) >>, << Name(1), Name(2) >>}}

ShortPrompts ==
    {<< Msg("user", << 50 >>) >>} \cup {<< a, b >> : a, b \in Turns} \cup
    Rounds \cup {round \o << turn >> : round \in Rounds, turn \in Turns}
=============================================================================
