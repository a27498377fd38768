------------------------------ MODULE Adapters ------------------------------
(***************************************************************************)
(* A round of the tool loop through either provider adapter: the reply     *)
(* comes in under the cost tracker, and what the loop makes of it goes out *)
(* again as the next request.                                              *)
(***************************************************************************)
EXTENDS OpenAIStream, GeminiStream, WireMessages

CONSTANTS
    Prompts         \* The conversations that precede the reply: any lists, begun
                    \* with either provider.

ASSUME PromptsAssumption == Prompts \subseteq Seq(WireMessage)

VARIABLES
    adapter         \* Which provider the client uses.

vars == << adapter, replyVars, openaiVars, geminiVars >>

Init ==
    /\ adapter \in {"openai", "gemini"}
    /\ ReplyInit /\ OpenAIInit /\ GeminiInit
    /\ IF adapter = "openai" THEN form \in [Slots -> Forms]
                             ELSE form = [i \in Slots |-> "object"]

Next ==
    \/ adapter = "openai" /\ OpenAINext /\ UNCHANGED << adapter, geminiVars >>
    \/ adapter = "gemini" /\ GeminiNext /\ UNCHANGED << adapter, openaiVars >>
    \/ (Leave \/ Drain) /\ UNCHANGED << adapter, openaiVars, geminiVars >>

Spec == Init /\ [][Next]_vars

(* The list that the loop sends next: the turn of the assistant, with its  *)
(* text or None, and the result of each of its calls.                      *)
Results ==
    [k \in 1 .. Len(session_tool_calls) |-> ResultOf(session_tool_calls[k].id, << 100 + k >>)]

FollowUp(prompt) ==
    prompt \o
    << AskingFor(IF session_text = << >> THEN NoContent ELSE session_text, session_tool_calls) >> \o
    Results

LoopGoesOn == reply \in {"drained", "returned"} /\ session_tool_calls # << >>

-----------------------------------------------------------------------------

(* The calls that the loop runs are those that the model made.             *)
CallsAsMade ==
    IF adapter = "openai" THEN OpenAICallsAsMade ELSE GeminiCallsAsMade

(* All text that the service sends reaches the consumer, once and in       *)
(* order, whatever it comes with.  (`said` leaves out the text that Gemini *)
(* streams in one chunk with function calls, which is dropped.)            *)
TextPreserved == session_text = said

(* "Only record AFTER the stream completes normally": what the client is   *)
(* charged for a stream is the last that the service reported of each      *)
(* count, once; a stream that is abandoned, or that lacks a count, is not  *)
(* charged.  A whole response always is, with 0 where nothing was reported.*)
OrZero(count) == IF count = None THEN 0 ELSE count

UsageAsReported ==
    IF \/ reply = "returned"
       \/ reply = "drained" /\ None \notin {reported.input, reported.output}
    THEN /\ DOMAIN by_model = {Model}
         /\ by_model[Model] = [input    |-> OrZero(reported.input),
                               output   |-> OrZero(reported.output),
                               requests |-> 1]
    ELSE by_model = << >>

(* A request that was in order is followed by one that is: behind whatever *)
(* list, and whether ids came from the service or were made up, every call *)
(* has its own answer.                                                     *)
OpenAIWire ==
    adapter = "openai" /\ LoopGoesOn =>
        \A prompt \in Prompts :
            OpenAIAccepts(OpenAIMessages(prompt)) =>
                OpenAIAccepts(OpenAIMessages(FollowUp(prompt)))

(* The same for Gemini, to which a result says no more of its call than    *)
(* the name of the function and its place among the others.                *)
GeminiWire ==
    adapter = "gemini" /\ LoopGoesOn =>
        \A prompt \in Prompts :
            GeminiMatches(GeminiConversation(prompt)) =>
                GeminiMatches(GeminiConversation(FollowUp(prompt)))

(* Nothing that was said is lost on the way to Gemini, whose format drops  *)
(* and moves messages: whatever the list, all that is not a system text is *)
(* in the contents, in order, and the system texts make up the rest.  (The *)
(* exception is a result that does not say of which call it is.)           *)
ContentKept ==
    adapter = "gemini" /\ LoopGoesOn =>
        \A prompt \in Prompts :
            LET list == FollowUp(prompt)
                contents == TextOfContents(GeminiConversation(list))
            IN  /\ contents = SpokenText(list)
                /\ Len(contents) + Len(SystemInstruction(list)) = Len(TextOf(list))
=============================================================================
