---------------------------- MODULE GeminiStream ----------------------------
(***************************************************************************)
(* aether/extensions/llm/gemini.py: how a reply becomes a response, or the *)
(* chunks of a stream.  Function calls come whole, any number in a chunk,  *)
(* without ids.  Usage may come with every chunk, as running totals, and   *)
(* either count may be missing.                                            *)
(***************************************************************************)
EXTENDS Reply

CONSTANTS
    FunctionNames,  \* The functions that the model may call,
    MaxCalls,       \* bound: the calls in one chunk,
    MaxChunks       \* and the chunks of a reply.

ASSUME GeminiAssumption ==
    FunctionNames \subseteq Nat /\ MaxCalls \in Nat /\ MaxChunks \in Nat

VARIABLES
    chunks,         \* How many chunks the service has sent.
    asked           \* History: the functions it called in them.

geminiVars == << chunks, asked >>

GeminiInit == chunks = 0 /\ asked = << >>

(* Slip: ids are made up as for a provider that sends none.                *)
FunctionCallNumbered(name, position) ==
    [id |-> << "call", position >>, name |-> name, arguments |-> "sent"]

(* "Gemini doesn't supply call IDs - synthesize one using the name."       *)
FunctionCall(name, position) == [id |-> name, name |-> name, arguments |-> "sent"]

(* _parse_function_calls                                                   *)
FunctionCalls(names) == [k \in 1 .. Len(names) |-> FunctionCall(names[k], k)]

CalledNames == {[k \in 1 .. Len(s) |-> Name(s[k])] : s \in BoundedSeq(FunctionNames, MaxCalls)}

Counts(total) == {None, total}
Usages(input, output) == [input : Counts(input), output : Counts(output)]

(* What is recorded for a reply without usage metadata.                    *)
NoUsage    == [input |-> None, output |-> None]
ZeroCounts == [input |-> 0, output |-> 0]

-----------------------------------------------------------------------------

(* A chunk with function calls is passed on without its text, any other    *)
(* with it, be it empty.                                                   *)
GeminiChunk ==
    /\ reply = "coming" /\ chunks < MaxChunks /\ chunks' = chunks + 1
    /\ \E names \in CalledNames, text \in NextText,
          input \in Counts(2), output \in Counts(chunks + 1) :
          LET plain == [Plain EXCEPT !.input = input, !.output = output]
          IN  /\ asked' = asked \o names
              /\ reported' = [input  |-> IF input = None THEN reported.input ELSE input,
                              output |-> IF output = None THEN reported.output ELSE output]
              /\ IF names # << >>
                 THEN Yield([plain EXCEPT !.calls = FunctionCalls(names)]) /\ UNCHANGED said
                 ELSE Yield([plain EXCEPT !.text = text]) /\ Say(text)
    /\ UNCHANGED << reply, by_model >>

(* complete keeps the text next to the calls, and counts 0 for a reply     *)
(* without usage metadata.                                                 *)
GeminiCompletes ==
    /\ chunks = 0 /\ chunks' = MaxChunks
    /\ \E names \in CalledNames, text \in {<< >>, << 1 >>} :
          /\ asked' = names
          /\ \/ Respond(text, FunctionCalls(names), NoUsage, ZeroCounts)
             \/ \E usage \in Usages(2, 1) :
                   /\ None \notin {usage.input, usage.output}
                   /\ Respond(text, FunctionCalls(names), usage, usage)

(* A count that is missing in the metadata fails the validation of         *)
(* LLMResponse: the reply is lost, with its calls.                         *)
GeminiRaises ==
    /\ chunks = 0 /\ chunks' = MaxChunks
    /\ \E usage \in Usages(2, 1) : None \in {usage.input, usage.output} /\ Raise(usage)
    /\ UNCHANGED asked

GeminiNext == GeminiChunk \/ GeminiCompletes \/ GeminiRaises

-----------------------------------------------------------------------------

(* All functions that the model called in what got through, once, in       *)
(* order, and nothing else.                                                *)
GeminiCallsAsMade ==
    /\ Len(session_tool_calls) = Len(asked)
    /\ \A n \in 1 .. Len(asked) : session_tool_calls[n].name = asked[n]
=============================================================================
