---------------------------- MODULE WireMessages ----------------------------
(***************************************************************************)
(* What the adapters make of a list of messages: the chat messages of      *)
(* OpenAI (openai.py, _to_openai_messages), and the system instruction and *)
(* the contents of Gemini (gemini.py, _split_system_and_conversation and   *)
(* _to_gemini_contents).  Texts are sequences of pieces, tool calls are    *)
(* records with an id and a name.                                          *)
(***************************************************************************)
EXTENDS SequencesExt, Integers

(* content None, which differs from the empty text.                        *)
NoContent == << 0 >>
NoCallId  == << >>

(* Ids and names are pairs, as the service or the adapter makes them.      *)
CallIds   == {NoCallId} \cup ({"call", "tool", "name"} \X Nat)
WireCall  == [id : CallIds, name : CallIds, arguments : {"sent", "empty"}]

WireMessage ==
    [role : {"system", "user", "assistant", "tool"}, content : Seq(Nat),
     calls : Seq(WireCall), id : CallIds]

Msg(role, content) ==
    [role |-> role, content |-> content, calls |-> << >>, id |-> NoCallId]
AskingFor(content, calls) == [Msg("assistant", content) EXCEPT !.calls = calls]
ResultOf(id, content)     == [Msg("tool", content) EXCEPT !.id = id]

HasText(msg) == msg.content \notin {NoContent, << >>}
IsCall(msg)  == msg.role = "assistant" /\ msg.calls # << >>

-----------------------------------------------------------------------------

(* One dict per message; the keys that are not set are left out.           *)
OpenAIMessage(msg) ==
    [role         |-> msg.role,
     content      |-> msg.content,
     tool_calls   |-> IF IsCall(msg) THEN [k \in 1 .. Len(msg.calls) |-> msg.calls[k].id]
                                     ELSE << >>,
     tool_call_id |-> IF msg.role = "tool" THEN msg.id ELSE NoCallId]

OpenAIMessages(list) == [i \in 1 .. Len(list) |-> OpenAIMessage(list[i])]

-----------------------------------------------------------------------------

SystemText(msg) == msg.role = "system" /\ HasText(msg)

SystemInstruction(list) ==
    FlattenSeq([i \in 1 .. Len(list) |-> IF SystemText(list[i]) THEN list[i].content ELSE << >>])

Part(kind, name, text) == [kind |-> kind, name |-> name, text |-> text]

(* Slip: a turn with calls is sent without its text.                       *)
ModelPartsCallsOnly(msg) ==
    [k \in 1 .. Len(msg.calls) |-> Part("call", msg.calls[k].name, << >>)]

ModelParts(msg) ==
    (IF HasText(msg) THEN << Part("text", NoCallId, msg.content) >> ELSE << >>) \o
    [k \in 1 .. Len(msg.calls) |-> Part("call", msg.calls[k].name, << >>)]

(* The contents of one message: one, or none.                              *)
GeminiContents(msg) ==
    CASE IsCall(msg) ->
            << [role |-> "model", parts |-> ModelParts(msg)] >>
      [] msg.role = "tool" /\ msg.id # NoCallId ->
            << [role  |-> "user",
                parts |-> << Part("response", msg.id,
                                  IF HasText(msg) THEN msg.content ELSE << >>) >>] >>
      [] msg.role \in {"user", "assistant"} /\ ~ IsCall(msg) /\ msg.content # NoContent ->
            << [role  |-> IF msg.role = "user" THEN "user" ELSE "model",
                parts |-> << Part("text", NoCallId, msg.content) >>] >>
      [] OTHER -> << >>

GeminiConversation(list) ==
    FlattenSeq([i \in 1 .. Len(list) |->
                   IF SystemText(list[i]) THEN << >> ELSE GeminiContents(list[i])])

-----------------------------------------------------------------------------

(* The service accepts the list: the tool messages that follow a message   *)
(* with calls answer its ids, each once, and all of them have one.         *)
OpenAIAccepts(wire) ==
    \A i \in 1 .. Len(wire) :
        LET ids == wire[i].tool_calls
        IN  /\ \A k \in 1 .. Len(ids) :
                  /\ ids[k] # NoCallId /\ (\A m \in 1 .. k - 1 : ids[m] # ids[k])
                  /\ i + k <= Len(wire) /\ wire[i + k].tool_call_id = ids[k]
            /\ wire[i].role = "tool" => wire[i].tool_call_id # NoCallId

(* What gemini.py relies on: Gemini matches results with calls by the      *)
(* names of the functions.  Behind a turn with calls come as many          *)
(* responses, in whatever contents of the user, each with the name of its  *)
(* call, in order, so that two calls of one function can be told apart.    *)
CallsOf(content)   == {k \in 1 .. Len(content.parts) : content.parts[k].kind = "call"}
Responds(content)  == \E k \in 1 .. Len(content.parts) : content.parts[k].kind = "response"
PartsOf(contents)  == FlattenSeq([i \in 1 .. Len(contents) |-> contents[i].parts])

Answers(contents, turn) ==
    LET parts == PartsOf(contents)
    IN  /\ \A i \in 1 .. Len(contents) : contents[i].role = "user"
        /\ Len(parts) = Cardinality(CallsOf(turn))
        /\ \A k \in CallsOf(turn) :
              LET part == parts[Cardinality({m \in CallsOf(turn) : m <= k})]
              IN  part.kind = "response" /\ part.name = turn.parts[k].name

GeminiMatches(contents) ==
    \A i \in 1 .. Len(contents) :
        CallsOf(contents[i]) # {} =>
            \E j \in i .. Len(contents) :
                /\ Answers(SubSeq(contents, i + 1, j), contents[i])
                /\ j < Len(contents) => ~ Responds(contents[j + 1])

(* The texts of messages and of contents, in order.  (A result that does   *)
(* not say of which call is left out: gemini.py drops it.)                 *)
Orphan(msg)   == msg.role = "tool" /\ msg.id = NoCallId
TextIn(msg)   == IF HasText(msg) /\ ~ Orphan(msg) THEN msg.content ELSE << >>
TextOf(list)  == FlattenSeq([i \in 1 .. Len(list) |-> TextIn(list[i])])

SpokenText(list) ==
    FlattenSeq([i \in 1 .. Len(list) |->
        IF list[i].role = "system" THEN << >> ELSE TextIn(list[i])])

PartsText(content) == FlattenSeq([k \in 1 .. Len(content.parts) |-> content.parts[k].text])

TextOfContents(contents) ==
    FlattenSeq([i \in 1 .. Len(contents) |-> PartsText(contents[i])])
=============================================================================
