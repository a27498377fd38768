---------------------------- MODULE ToolMessages ----------------------------
(***************************************************************************)
(* The message lists that Aether.complete and Aether.stream build while    *)
(* they run the tool loop, and the lifecycle events that a subscriber of   *)
(* the client sees.  Of a message only its role and the ids of the tool    *)
(* calls it asks for, or answers, are kept.                                *)
(***************************************************************************)
EXTENDS SequencesExt, Integers

CONSTANTS
    CallIds         \* The ids that the provider gives to tool calls.

(* What a message asks for (an assistant's tool_calls) or answers (the     *)
(* tool_call_id of a tool message).                                        *)
Message == [role : {"user", "assistant", "tool"}, ids : Seq(CallIds)]

UserTurn        == [role |-> "user", ids |-> << >>]
ToolRequest(calls) == [role |-> "assistant", ids |-> calls]
ToolResult(id)  == [role |-> "tool", ids |-> << id >>]

(* A list that a provider accepts: each assistant message that asks for    *)
(* tools is followed by the results of exactly those calls, in order, and  *)
(* there is no other tool message.                                         *)
Resolved(list) ==
    /\ \A i \in 1 .. Len(list) : list[i].role = "assistant" =>
          \A j \in 1 .. Len(list[i].ids) :
             /\ i + j <= Len(list)
             /\ list[i + j] = ToolResult(list[i].ids[j])
    /\ \A k \in 1 .. Len(list) : list[k].role = "tool" =>
          \E i \in 1 .. k - 1 :
             list[i].role = "assistant" /\ k <= i + Len(list[i].ids)

-----------------------------------------------------------------------------
(* Events.  A subscriber sees an event when its emission begins.           *)

Event == [of : {"request", "tool", "stream"},
          what : {"start", "chunk", "complete", "error"},
          count : Nat]

Emitted(of, what) == [of |-> of, what |-> what, count |-> 0]

(* Every start is followed, at some time, by one end of the same kind, and *)
(* requests and tool calls, which are sequential, do not overlap.          *)
Bracketed(log) ==
    \A i \in 1 .. Len(log) :
        /\ log[i].what = "start" /\ i < Len(log) =>
              log[i + 1] \in {Emitted(log[i].of, "complete"), Emitted(log[i].of, "error")}
        /\ log[i].what # "start" =>
              i > 1 /\ log[i - 1] = Emitted(log[i].of, "start")
=============================================================================
