---------------------------- MODULE OpenAIStream ----------------------------
(***************************************************************************)
(* aether/extensions/llm/openai.py: how a reply becomes a response, or the *)
(* chunks of a stream, in which the tool calls arrive in pieces and        *)
(* interleaved and are given out together.                                 *)
(*                                                                         *)
(* The service is external.  Each call has a slot (`index`), opens with a  *)
(* delta that carries its name and perhaps its id, and goes on with pieces *)
(* of its arguments: a JSON object, as a rule, but the model may as well   *)
(* write something else.  Any delta may carry text; the usage comes in a   *)
(* chunk of its own.                                                       *)
(***************************************************************************)
EXTENDS Reply

CONSTANTS
    Slots,          \* The slots in which the service may make parallel calls.
    MaxPieces,      \* Bound: the pieces of one call's arguments,
    MaxFinishes     \* and how often the service gives its finish_reason.

ASSUME OpenAIAssumption ==
    /\ Slots \subseteq Nat /\ IsFiniteSet(Slots)
    /\ MaxPieces \in Nat /\ MaxFinishes \in Nat

VARIABLES
    form,           \* What the arguments that the service writes for each call are.
    sent,           \* How many pieces of them it has sent; -1: the call is not opened.
    finishes,       \* How often it has given finish_reason "tool_calls".
    buffers         \* The accumulators, by index.

openaiVars == << form, sent, finishes, buffers >>

(* A JSON object; a text that is no JSON, such as one that breaks off; or  *)
(* other JSON: a list, a number, null.                                     *)
Forms == {"object", "garbled", "other"}

Given(i) == << "call", i >>     \* The id that the service gives,
Made(i)  == << "tool", i >>     \* and the one that _build_tool_calls makes up.

Empty == [id |-> NoId, name |-> NoName, args |-> << >>]

OpenAIInit ==
    /\ sent = [i \in Slots |-> -1]
    /\ finishes = 0
    /\ buffers = << >>

(* buffers.setdefault                                                      *)
Buffer(i) == IF i \in DOMAIN buffers THEN buffers[i] ELSE Empty

(* Slip: arguments are assigned instead of appended.                       *)
MergedLast(buf, delta) ==
    [id   |-> IF delta.id # NoId THEN delta.id ELSE buf.id,
     name |-> IF delta.name # NoName THEN delta.name ELSE buf.name,
     args |-> IF delta.args # << >> THEN delta.args ELSE buf.args]

(* A delta replaces what it names and appends its piece of the arguments.  *)
Merged(buf, delta) ==
    [id   |-> IF delta.id # NoId THEN delta.id ELSE buf.id,
     name |-> IF delta.name # NoName THEN delta.name ELSE buf.name,
     args |-> buf.args \o delta.args]

Accumulate(i, delta) ==
    buffers' = [j \in DOMAIN buffers \cup {i} |->
                  IF j = i THEN Merged(Buffer(i), delta) ELSE buffers[j]]

(* What the arguments of a call become, of which n pieces were sent: no    *)
(* text is {}, and so is one that json.loads cannot read.                  *)
Pieces(n) == [k \in 1 .. n |-> k]
Parsed(i, args, n) ==
    IF args # << >> /\ args = Pieces(n) /\ form[i] = "object" THEN "sent" ELSE "empty"

(* ToolCall takes no arguments but an object; its validation raises.       *)
Invalid(i, args) == args # << >> /\ form[i] = "other"

(* Slip: an id that is missing stays missing.                              *)
IdAsGiven(i) == buffers[i].id

IdOf(i) == IF buffers[i].id # NoId THEN buffers[i].id ELSE Made(i)

(* sorted(), said without SetToSortSeq, about which TLAPS knows nothing.   *)
InOrder(slots) ==
    CHOOSE list \in [1 .. Cardinality(slots) -> slots] :
        \A m, n \in 1 .. Cardinality(slots) : m < n => list[m] < list[n]

(* _build_tool_calls                                                       *)
ToolCall(i) ==
    [id        |-> IdOf(i),
     name      |-> buffers[i].name,
     arguments |-> Parsed(i, buffers[i].args, sent[i])]

BuildToolCalls ==
    LET slots == InOrder(DOMAIN buffers)
    IN  [n \in 1 .. Len(slots) |-> ToolCall(slots[n])]

-----------------------------------------------------------------------------

(* Slip: the text of a delta that also carries a call is not passed on.    *)
PassTextWithoutCalls(text, carriesCall) ==
    /\ Say(text)
    /\ IF text # << >> /\ ~ carriesCall THEN Yield([Plain EXCEPT !.text = text])
                                        ELSE YieldNothing

(* "Text delta - pass through."                                            *)
PassText(text, carriesCall) ==
    /\ Say(text)
    /\ IF text # << >> THEN Yield([Plain EXCEPT !.text = text]) ELSE YieldNothing

(* The first delta of a call, possibly with a piece of its arguments.      *)
Open(i) ==
    /\ reply = "coming" /\ finishes = 0 /\ sent[i] = -1
    /\ \E id \in {NoId, Given(i)}, n \in 0 .. 1, text \in NextText :
          /\ sent' = [sent EXCEPT ![i] = n]
          /\ Accumulate(i, [id |-> id, name |-> Name(i), args |-> Pieces(n)])
          /\ PassText(text, TRUE)
    /\ UNCHANGED << form, finishes, reply, by_model, reported >>

Piece(i) ==
    /\ reply = "coming" /\ finishes = 0 /\ sent[i] \in 0 .. MaxPieces - 1
    /\ sent' = [sent EXCEPT ![i] = @ + 1]
    /\ Accumulate(i, [id |-> NoId, name |-> NoName, args |-> << sent[i] + 1 >>])
    /\ \E text \in NextText : PassText(text, TRUE)
    /\ UNCHANGED << form, finishes, reply, by_model, reported >>

Text ==
    /\ reply = "coming" /\ finishes = 0
    /\ \E text \in NextText \ {<< >>} : PassText(text, FALSE)
    /\ UNCHANGED << openaiVars, reply, by_model, reported >>

(* "End-of-stream with tool calls - emit accumulated set."                 *)
EmitCalls ==
    /\ IF DOMAIN buffers # {} THEN Yield([Plain EXCEPT !.calls = BuildToolCalls])
                              ELSE YieldNothing
    /\ buffers' = << >>

(* finish_reason "tool_calls": the service has no more to say of its       *)
(* calls.  The arguments of one of them may still not do.                  *)
FinishCalls ==
    /\ reply = "coming" /\ finishes < MaxFinishes
    /\ \E i \in Slots : sent[i] >= 0
    /\ finishes' = finishes + 1
    /\ IF \E i \in DOMAIN buffers : Invalid(i, buffers[i].args)
       THEN Raise(reported) /\ UNCHANGED buffers
       ELSE EmitCalls /\ UNCHANGED << reply, by_model, said, reported >>
    /\ UNCHANGED << form, sent >>

(* "Final usage-only chunk (no choices)."  The stream may also end without *)
(* it, and even in the middle of a call: what is in the buffers is dropped.*)
UsageChunk ==
    /\ reply = "coming" /\ reported.input = None
    /\ reported' = [input |-> 2, output |-> 1 + Len(said)]
    /\ Yield([Plain EXCEPT !.input = reported'.input, !.output = reported'.output])
    /\ UNCHANGED << openaiVars, reply, by_model, said >>

(* _parse_tool_calls: the calls of a whole response, which have ids, and   *)
(* whose arguments come in one piece, or none.                             *)
ParseToolCalls(made) ==
    LET slots == InOrder({i \in Slots : made[i] >= 0})
    IN  [n \in 1 .. Len(slots) |->
            [id        |-> Given(slots[n]),
             name      |-> Name(slots[n]),
             arguments |-> Parsed(slots[n], Pieces(made[slots[n]]), made[slots[n]])]]

OpenAICompletes ==
    /\ sent = [i \in Slots |-> -1] /\ said = << >> /\ reported.input = None
    /\ finishes' = 1
    /\ \E text \in {<< >>, << 1 >>}, made \in [Slots -> -1 .. 1] :
          LET usage == [input |-> 2, output |-> 1]
          IN  /\ sent' = made
              /\ IF \E i \in Slots : made[i] >= 0 /\ Invalid(i, Pieces(made[i]))
                 THEN Raise(usage)
                 ELSE Respond(text, ParseToolCalls(made), usage, usage)
    /\ UNCHANGED << form, buffers >>

OpenAINext ==
    \/ \E i \in Slots : Open(i) \/ Piece(i)
    \/ Text \/ FinishCalls \/ UsageChunk \/ OpenAICompletes

-----------------------------------------------------------------------------

Opened == {i \in Slots : sent[i] >= 0}

(* The model wrote an object for the arguments of a call, or other JSON.   *)
Readable(i)   == sent[i] > 0 /\ form[i] = "object"
Unreadable(i) == sent[i] > 0 /\ form[i] = "other"

(* No call is given out before the service has finished with all of them.  *)
(* Then those are given out that the model made: all of them, once, in the *)
(* order of their slots, each with its own name and with the arguments     *)
(* that were sent, however their pieces were interleaved; {} stands in for *)
(* them only where none were sent, or no JSON.  Where one is JSON but no   *)
(* object, none of them is given out.                                      *)
OpenAICallsAsMade ==
    LET slots == InOrder(Opened)
    IN  IF finishes = 0 \/ \E i \in Opened : Unreadable(i) THEN session_tool_calls = << >>
        ELSE /\ Len(session_tool_calls) = Len(slots)
             /\ \A n \in 1 .. Len(slots) :
                   /\ session_tool_calls[n].name = Name(slots[n])
                   /\ session_tool_calls[n].arguments =
                        IF Readable(slots[n]) THEN "sent" ELSE "empty"
=============================================================================
