------------------------------ MODULE ToolLoop ------------------------------
(***************************************************************************)
(* aether/client.py, Aether.complete: one call with its tool loop, the     *)
(* request.* and tool.* events around each step, and everything that may   *)
(* happen to it while it is suspended: handlers that take their time, a    *)
(* provider or a tool that raises, a cancellation.                         *)
(***************************************************************************)
EXTENDS ToolMessages, FiniteSets

CONSTANTS
    MaxIterations,  \* max_tool_iterations, from the caller or the environment: any int()
    Replies         \* The tool calls a reply of the model may carry.

ASSUME ToolLoopAssumption ==
    /\ MaxIterations \in Int
    /\ Replies \subseteq Seq(CallIds)

VARIABLES
    tools,          \* Does the caller pass tools?
    pc,             \* Where the call is suspended, or how it ended.
    messages,       \* The working list, which starts as the caller's prompt.
    request,        \* The messages of the last request sent: a snapshot of the list.
    response,       \* The tool calls of the last response.
    todo,           \* Those that are not dispatched yet.
    round,          \* How many iterations of the loop went before this one.
    log             \* History: the events that were emitted.

vars == << tools, pc, messages, request, response, todo, round, log >>

(* The awaits of the call: the handlers of an event, the provider, a tool. *)
Suspensions == {"announcing", "asking", "answered", "failing",
                "tool_announcing", "dispatching", "tool_done", "tool_failed"}
Ended == {"returned", "raised", "assertion"}

Init ==
    /\ tools \in BOOLEAN
    /\ pc = "idle" /\ messages = << UserTurn >>
    /\ request = << >> /\ response = << >> /\ todo = << >>
    /\ round = 0 /\ log = << >>

Emit(of, what) == log' = Append(log, Emitted(of, what))

(* The loop body starts: a request is built and request.start is emitted.  *)
StartRequest(list) ==
    /\ request' = list
    /\ Emit("request", "start")
    /\ pc' = "announcing"

-----------------------------------------------------------------------------

(* complete() is called.  With tools and no iteration at all to run, the   *)
(* assertion behind the loop fails.                                        *)
Begin ==
    /\ pc = "idle"
    /\ IF tools /\ MaxIterations + 1 <= 0
       THEN pc' = "assertion" /\ UNCHANGED << request, log >>
       ELSE StartRequest(messages)
    /\ UNCHANGED << tools, messages, response, todo, round >>

(* The handlers of request.start are done; the provider is called.         *)
Ask ==
    /\ pc = "announcing"
    /\ pc' = "asking"
    /\ UNCHANGED << tools, messages, request, response, todo, round, log >>

Answer ==
    /\ pc = "asking"
    /\ response' \in Replies
    /\ Emit("request", "complete")
    /\ pc' = "answered"
    /\ UNCHANGED << tools, messages, request, todo, round >>

(* The provider raises, or the call is cancelled while it waits for it.    *)
AskRaises ==
    /\ pc = "asking"
    /\ Emit("request", "error")
    /\ pc' = "failing"
    /\ UNCHANGED << tools, messages, request, response, todo, round >>

ErrorHandled ==
    /\ pc = "failing"
    /\ pc' = "raised"
    /\ UNCHANGED << tools, messages, request, response, todo, round, log >>

(* The handlers of request.complete are done.  Either this was the final   *)
(* answer, or the calls it asks for are appended, and the first one goes.  *)
Return ==
    /\ pc = "answered"
    /\ ~ tools \/ response = << >>
    /\ pc' = "returned"
    /\ UNCHANGED << tools, messages, request, response, todo, round, log >>

TakeCalls ==
    /\ pc = "answered"
    /\ tools /\ response # << >>
    /\ messages' = Append(messages, ToolRequest(response))
    /\ todo' = response
    /\ Emit("tool", "start")
    /\ pc' = "tool_announcing"
    /\ UNCHANGED << tools, request, response, round >>

Dispatch ==
    /\ pc = "tool_announcing"
    /\ pc' = "dispatching"
    /\ UNCHANGED << tools, messages, request, response, todo, round, log >>

ToolReturns ==
    /\ pc = "dispatching"
    /\ Emit("tool", "complete")
    /\ pc' = "tool_done"
    /\ UNCHANGED << tools, messages, request, response, todo, round >>

(* Slip: tool.error is not emitted.                                        *)
ToolRaisesQuietly ==
    /\ pc = "dispatching"
    /\ pc' = "tool_failed"
    /\ UNCHANGED << tools, messages, request, response, todo, round, log >>

(* Slip: the error is emitted under a name that nobody subscribes to.      *)
ToolRaisesMisnamed ==
    /\ pc = "dispatching"
    /\ Emit("tool", "failed")
    /\ pc' = "tool_failed"
    /\ UNCHANGED << tools, messages, request, response, todo, round >>

(* The tool raises an Exception, an unknown tool included; the error       *)
(* becomes the content of the result.                                      *)
ToolRaises ==
    /\ pc = "dispatching"
    /\ Emit("tool", "error")
    /\ pc' = "tool_failed"
    /\ UNCHANGED << tools, messages, request, response, todo, round >>

(* What follows once the result of a call is in the list: the next call,   *)
(* the next request, or the end of the loop.                               *)
GoOn(list) ==
    \/ /\ Len(todo) > 1
       /\ Emit("tool", "start")
       /\ pc' = "tool_announcing"
       /\ UNCHANGED << request, round >>
    \/ /\ Len(todo) = 1 /\ round < MaxIterations
       /\ round' = round + 1
       /\ StartRequest(list)
    \/ /\ Len(todo) = 1 /\ round >= MaxIterations
       /\ pc' = "returned"
       /\ UNCHANGED << request, round, log >>

(* Slip: a failed tool leaves no result.                                   *)
ToolHandledIfDone ==
    /\ pc \in {"tool_done", "tool_failed"}
    /\ LET list == IF pc = "tool_done"
                   THEN Append(messages, ToolResult(Head(todo))) ELSE messages
       IN  messages' = list /\ GoOn(list)
    /\ todo' = Tail(todo)
    /\ UNCHANGED << tools, response >>

(* Slip: only a tool that succeeds lets the loop go on.                    *)
ToolHandledOrStuck ==
    /\ pc = "tool_done"
    /\ LET list == Append(messages, ToolResult(Head(todo)))
       IN  messages' = list /\ GoOn(list)
    /\ todo' = Tail(todo)
    /\ UNCHANGED << tools, response >>

(* The handlers of tool.complete or tool.error are done.                   *)
ToolHandled ==
    /\ pc \in {"tool_done", "tool_failed"}
    /\ LET list == Append(messages, ToolResult(Head(todo)))
       IN  messages' = list /\ GoOn(list)
    /\ todo' = Tail(todo)
    /\ UNCHANGED << tools, response >>

(* CancelledError, thrown into the call or raised by a handler, where no   *)
(* `except` catches it: nothing is emitted and nothing is undone.          *)
Cancelled ==
    /\ pc \in Suspensions \ {"asking"}
    /\ pc' = "raised"
    /\ UNCHANGED << tools, messages, request, response, todo, round, log >>

Progress ==
    \/ Begin \/ Ask \/ Answer \/ AskRaises \/ ErrorHandled \/ Return \/ TakeCalls
    \/ Dispatch \/ ToolReturns \/ ToolRaises \/ ToolHandled

Next == Progress \/ Cancelled

Spec == Init /\ [][Next]_vars

(* Handlers, the provider and tools answer in the end, one way or another. *)
FairSpec == Spec /\ WF_vars(Progress)

-----------------------------------------------------------------------------

(* The values the variables may take.                                      *)
TypeOK ==
    /\ tools \in BOOLEAN
    /\ pc \in {"idle"} \cup Suspensions \cup Ended
    /\ messages \in Seq(Message) /\ request \in Seq(Message)
    /\ response \in Seq(CallIds) /\ todo \in Seq(CallIds)
    /\ round \in Nat
    /\ log \in Seq(Event)

(* The model is never asked while a tool call of its own is unanswered, or *)
(* answered twice, or in another place: however tools fail, every request  *)
(* is a list that a provider accepts.                                      *)
RequestsResolved == Resolved(request)

(* Every tool call is run once, and nothing else is: each one announced    *)
(* puts one result into the list, or is the one under way when the call    *)
(* stops.                                                                  *)
Answered(list) == Cardinality({i \in 1 .. Len(list) : list[i].role = "tool"})
ToolStarts == Cardinality({i \in 1 .. Len(log) : log[i] = Emitted("tool", "start")})

ToolsRunOnce ==
    ToolStarts - Answered(messages) \in
        CASE pc \in {"tool_announcing", "dispatching", "tool_done", "tool_failed"} -> {1}
          [] pc = "raised" -> {0, 1}
          [] OTHER -> {0}

(* Events come in brackets (README.md, "The 10 events"): what a subscriber *)
(* has seen is a sequence of starts, each with its own end next to it.     *)
EventsBracketed == Bracketed(log)

(* A call ends, and after at most max_tool_iterations + 1 requests.        *)
CallEnds == <>(pc \in Ended /\ round <= MaxIterations)
=============================================================================
