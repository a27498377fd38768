------------------------------- MODULE Reply -------------------------------
(***************************************************************************)
(* One reply of the model on its way from the service to the tool loop:    *)
(* what an adapter yields passes the cost tracker and is gathered by       *)
(* Aether.stream, or is returned whole to Aether.complete.  The adapters,  *)
(* OpenAIStream and GeminiStream, are the two ways in which it is made.    *)
(***************************************************************************)
EXTENDS CostTracking, SequencesExt, FiniteSets

CONSTANTS
    Model,          \* The model that answers.
    MaxTexts        \* Bound: the pieces of text in a reply.

ASSUME ReplyAssumption == Model \in Nat /\ MaxTexts \in Nat

VARIABLES
    reply,          \* "coming"; at its end "returned", whole, by complete(),
                    \* "drained", when a stream ended normally, or "left".
    session_text,   \* The text and the tool calls that the loop has got.
    session_tool_calls,
    said,           \* History: the text and the usage
    reported        \* that the service has sent.

replyVars ==
    << final, by_model, reply, session_text, session_tool_calls, said, reported >>

ReplyInit ==
    /\ TrackingInit
    /\ reply = "coming"
    /\ session_text = << >> /\ session_tool_calls = << >>
    /\ said = << >> /\ reported = [input |-> None, output |-> None]

(* Names and ids are pairs, like those that come from the service.         *)
Name(n)   == << "name", n >>
NoId      == << >>
NoName    == << >>

(* A chunk that carries neither text, calls nor usage.                     *)
Plain == [text |-> << >>, calls |-> << >>, input |-> None, output |-> None, model |-> Model]

(* The pieces of text are numbered as they are sent.                       *)
Say(texts) == said' = said \o texts
NextText   == {<< >>} \cup IF Len(said) < MaxTexts THEN {<< Len(said) + 1 >>} ELSE {}

-----------------------------------------------------------------------------

(* A chunk is yielded: the tracker notes its counts, and the loop takes    *)
(* its calls, or else its text.                                            *)
Yield(chunk) ==
    /\ final' = Captured(chunk)
    /\ IF chunk.calls # << >>
       THEN /\ session_tool_calls' = session_tool_calls \o chunk.calls
            /\ UNCHANGED session_text
       ELSE /\ session_text' = session_text \o chunk.text
            /\ UNCHANGED session_tool_calls

YieldNothing == UNCHANGED << final, session_text, session_tool_calls >>

(* The consumer goes away, or the service raises: nothing is recorded.     *)
Leave ==
    /\ reply = "coming" /\ reply' = "left"
    /\ UNCHANGED << final, by_model, session_text, session_tool_calls, said, reported >>

(* The service ends the stream.                                            *)
Drain ==
    /\ reply = "coming" /\ reply' = "drained"
    /\ RecordFinal
    /\ UNCHANGED << final, session_text, session_tool_calls, said, reported >>

(* complete(): the response is there as a whole and is recorded, with the  *)
(* counts that the adapter made of the usage that the service reported.    *)
Respond(text, calls, usage, counts) ==
    /\ reply = "coming" /\ reply' = "returned"
    /\ said' = text /\ session_text' = text /\ session_tool_calls' = calls
    /\ reported' = usage
    /\ Record([input |-> counts.input, output |-> counts.output, model |-> Model])
    /\ UNCHANGED final

(* complete() raises on what the service sent: nobody gets any of it.      *)
Raise(usage) ==
    /\ reply = "coming" /\ reply' = "left"
    /\ reported' = usage
    /\ UNCHANGED << final, by_model, session_text, session_tool_calls, said >>
=============================================================================
