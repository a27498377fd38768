----------------------------- MODULE StreamLoop -----------------------------
(***************************************************************************)
(* aether/client.py, Aether.stream: one stream with its tool loop, as the  *)
(* consumer of the generator and a subscriber of its events see it.  The   *)
(* generator is suspended while handlers run, while the provider or a tool *)
(* works, and after each chunk until the consumer asks for the next one;   *)
(* an error, a cancellation or the consumer may end it at each of these.   *)
(***************************************************************************)
EXTENDS ToolMessages, FiniteSets

CONSTANTS
    MaxIterations,  \* max_tool_iterations, which nothing keeps from being negative.
    MaxChunks,      \* Bound: the text chunks that the provider produces in one session.
    MaxCalls,       \* Bound: the tool calls of one session.
    Replies         \* The tool calls that a chunk of the provider may carry.

ASSUME StreamLoopAssumption ==
    /\ MaxIterations \in Int
    /\ MaxChunks \in Nat /\ MaxCalls \in Nat
    /\ Replies \subseteq Seq(CallIds) \ {<< >>}

VARIABLES
    tools,          \* Does the caller pass tools?
    pc,             \* Where the generator is suspended, or how it ended.
    messages,       \* The working list, which starts as the caller's prompt.
    request,        \* The messages of the last provider session: a snapshot.
    calls,          \* session_tool_calls
    chunks,         \* The text chunks of this provider session so far.
    todo,           \* The tool calls that are not dispatched yet.
    round,          \* How many iterations of the loop went before this one.
    chunk_count,    \* The counter that the final event reports.
    delivered,      \* History: for each chunk the consumer got, its round.
    log             \* History: the events that were emitted.

vars == << tools, pc, messages, request, calls, chunks, todo, round,
           chunk_count, delivered, log >>

Suspensions == {"opening", "streaming", "announcing", "yielded", "tool_announcing",
                "dispatching", "tool_done", "tool_failed", "closing", "failing"}
Ended == {"returned", "raised"}

(* The suspensions inside the `try`.                                       *)
Guarded == Suspensions \ {"opening", "closing", "failing"}

Init ==
    /\ tools \in BOOLEAN
    /\ pc = "idle" /\ messages = << UserTurn >> /\ request = << >>
    /\ calls = << >> /\ chunks = 0 /\ todo = << >> /\ round = 0
    /\ chunk_count = 0 /\ delivered = << >> /\ log = << >>

EmitCount(of, what, n) ==
    log' = Append(log, [of |-> of, what |-> what, count |-> n])

Emit(of, what) == EmitCount(of, what, 0)

(* One provider session starts, with the list as it is.                    *)
Open(list) ==
    /\ request' = list
    /\ calls' = << >> /\ chunks' = 0
    /\ pc' = "streaming"

(* Slip: the final event has a name that nobody subscribes to.             *)
CloseMisnamed ==
    /\ EmitCount("stream", "completed", chunk_count)
    /\ pc' = "closing"

(* Behind the `try`: the user-facing stream is done.                       *)
Close ==
    /\ EmitCount("stream", "complete", chunk_count)
    /\ pc' = "closing"

-----------------------------------------------------------------------------

(* The consumer asks for the first chunk; stream.start is emitted.         *)
Begin ==
    /\ pc = "idle"
    /\ Emit("stream", "start")
    /\ pc' = "opening"
    /\ UNCHANGED << tools, messages, request, calls, chunks, todo, round, chunk_count, delivered >>

(* With a negative cap there is no iteration, and no provider session.     *)
Opened ==
    /\ pc = "opening"
    /\ IF tools /\ MaxIterations < 0 THEN Close /\ UNCHANGED << request, calls, chunks >>
                                     ELSE Open(messages) /\ UNCHANGED log
    /\ UNCHANGED << tools, messages, todo, round, chunk_count, delivered >>

(* A chunk with tool calls is kept from the consumer.                      *)
CallsChunk ==
    /\ pc = "streaming" /\ tools
    /\ \E reply \in Replies :
          /\ Len(calls) + Len(reply) <= MaxCalls
          /\ calls' = calls \o reply
    /\ UNCHANGED << tools, pc, messages, request, chunks, todo, round, chunk_count, delivered, log >>

(* Slip: with tools, stream.chunk is left out.                             *)
TextChunkQuietWithTools ==
    /\ pc = "streaming" /\ chunks < MaxChunks
    /\ chunks' = chunks + 1
    /\ chunk_count' = chunk_count + 1
    /\ IF tools THEN UNCHANGED log ELSE Emit("stream", "chunk")
    /\ pc' = "announcing"
    /\ UNCHANGED << tools, messages, request, calls, todo, round, delivered >>

(* A text chunk is counted, then announced ...                             *)
TextChunk ==
    /\ pc = "streaming" /\ chunks < MaxChunks
    /\ chunks' = chunks + 1
    /\ chunk_count' = chunk_count + 1
    /\ Emit("stream", "chunk")
    /\ pc' = "announcing"
    /\ UNCHANGED << tools, messages, request, calls, todo, round, delivered >>

(* ... and then yielded.                                                   *)
Yield ==
    /\ pc = "announcing"
    /\ delivered' = Append(delivered, round)
    /\ pc' = "yielded"
    /\ UNCHANGED << tools, messages, request, calls, chunks, todo, round, chunk_count, log >>

Resume ==
    /\ pc = "yielded"
    /\ pc' = "streaming"
    /\ UNCHANGED << tools, messages, request, calls, chunks, todo, round, chunk_count, delivered, log >>

(* The provider session is exhausted, with or without calls to dispatch.   *)
SessionEnds ==
    /\ pc = "streaming"
    /\ \/ /\ calls = << >>
          /\ Close
          /\ UNCHANGED << messages, todo >>
       \/ /\ calls # << >>
          /\ messages' = Append(messages, ToolRequest(calls))
          /\ todo' = calls
          /\ Emit("tool", "start")
          /\ pc' = "tool_announcing"
    /\ UNCHANGED << tools, request, calls, chunks, round, chunk_count, delivered >>

Dispatch ==
    /\ pc = "tool_announcing"
    /\ pc' = "dispatching"
    /\ UNCHANGED << tools, messages, request, calls, chunks, todo, round, chunk_count, delivered, log >>

(* The tool returns, or raises an Exception.                               *)
ToolEnds ==
    /\ pc = "dispatching"
    /\ \/ Emit("tool", "complete") /\ pc' = "tool_done"
       \/ Emit("tool", "error") /\ pc' = "tool_failed"
    /\ UNCHANGED << tools, messages, request, calls, chunks, todo, round, chunk_count, delivered >>

(* What follows once a result is appended: the next call, the next         *)
(* session, or, at the cap, the end of the stream.                         *)
GoOn(list) ==
    /\ messages' = list
    /\ todo' = Tail(todo)
    /\ \/ /\ Len(todo) > 1
          /\ Emit("tool", "start")
          /\ pc' = "tool_announcing"
          /\ UNCHANGED << request, calls, chunks, round >>
       \/ /\ Len(todo) = 1 /\ round < MaxIterations
          /\ round' = round + 1
          /\ Open(list)
          /\ UNCHANGED log
       \/ /\ Len(todo) = 1 /\ round >= MaxIterations
          /\ Close
          /\ UNCHANGED << request, calls, chunks, round >>
    /\ UNCHANGED << tools, chunk_count, delivered >>

(* Slip: the calls are dispatched from the end of the list.                *)
ToolHandledBackwards ==
    /\ pc \in {"tool_done", "tool_failed"}
    /\ GoOn(Append(messages, ToolResult(Last(todo))))

(* Slip: only a tool that succeeds lets the stream go on.                  *)
ToolHandledOrStuck ==
    /\ pc = "tool_done"
    /\ GoOn(Append(messages, ToolResult(Head(todo))))

(* The result of the call, or its error as content, is appended.           *)
ToolHandled ==
    /\ pc \in {"tool_done", "tool_failed"}
    /\ GoOn(Append(messages, ToolResult(Head(todo))))

(* Slip: `except Exception`, which cancellations and aclose() pass by.     *)
RaiseUnseen ==
    /\ pc \in Guarded
    /\ IF pc = "streaming"
       THEN EmitCount("stream", "error", chunk_count) /\ pc' = "failing"
       ELSE pc' = "raised" /\ UNCHANGED log
    /\ UNCHANGED << tools, messages, request, calls, chunks, todo, round, chunk_count, delivered >>

(* `except BaseException`: the provider raises, the consumer abandons the  *)
(* generator, or the call is cancelled at any await inside the `try`.      *)
Raise ==
    /\ pc \in Guarded
    /\ EmitCount("stream", "error", chunk_count)
    /\ pc' = "failing"
    /\ UNCHANGED << tools, messages, request, calls, chunks, todo, round, chunk_count, delivered >>

(* The handlers of the final event are done.                               *)
Finish ==
    /\ pc \in {"closing", "failing"}
    /\ pc' = IF pc = "closing" THEN "returned" ELSE "raised"
    /\ UNCHANGED << tools, messages, request, calls, chunks, todo, round, chunk_count, delivered, log >>

(* A cancellation while handlers run outside the `try`.                    *)
Cancelled ==
    /\ pc \in Suspensions \ Guarded
    /\ pc' = "raised"
    /\ UNCHANGED << tools, messages, request, calls, chunks, todo, round, chunk_count, delivered, log >>

(* Everything that does not depend on the consumer asking for more.        *)
Progress ==
    \/ Begin \/ Opened \/ CallsChunk \/ TextChunk \/ Yield \/ SessionEnds
    \/ Dispatch \/ ToolEnds \/ ToolHandled \/ Finish

Next == Progress \/ Resume \/ Raise \/ Cancelled

Spec == Init /\ [][Next]_vars

(* Handlers, tools and the provider answer in the end; the consumer need   *)
(* not take all chunks, but then it closes the generator.                  *)
FairSpec == Spec /\ WF_vars(Progress) /\ WF_vars(Resume \/ (pc = "yielded" /\ Raise))

-----------------------------------------------------------------------------

(* The values the variables may take.                                      *)
TypeOK ==
    /\ tools \in BOOLEAN
    /\ pc \in {"idle"} \cup Suspensions \cup Ended
    /\ messages \in Seq(Message) /\ request \in Seq(Message)
    /\ calls \in Seq(CallIds) /\ todo \in Seq(CallIds)
    /\ chunks \in 0 .. MaxChunks /\ round \in Nat /\ (round > 0 => round <= MaxIterations)
    /\ chunk_count \in Nat /\ delivered \in Seq(Nat)
    /\ log \in Seq(Event)

(* Every provider session is opened with a list that a provider accepts.   *)
RequestsResolved == Resolved(request)

(* README.md: "stream.start and stream.complete fire once across the whole *)
(* stream", whatever its tool calls and failures; nothing follows the end, *)
(* and a stream that got past its start has exactly one end.               *)
IsEnd(event) == event.of = "stream" /\ event.what \in {"complete", "error"}

OneStreamInTheLog ==
    /\ \A i \in 1 .. Len(log) :
          /\ log[i] = Emitted("stream", "start") <=> i = 1
          /\ IsEnd(log[i]) => i = Len(log)
    /\ pc \in Ended /\ Len(log) > 1 => IsEnd(Last(log))

(* The chunks announced are those the consumer got, and at most the one    *)
(* that was being announced when the stream stopped.                       *)
Announced == Cardinality({i \in 1 .. Len(log) : log[i] = Emitted("stream", "chunk")})

ChunksAnnounced ==
    /\ Len(delivered) \in {Announced, Announced - 1}
    /\ pc = "returned" => Len(delivered) = Announced /\ Last(log).count = Announced

(* A stream whose consumer takes every chunk or closes it is over in the   *)
(* end.                                                                    *)
StreamEnds == <>(pc \in Ended)

(* "stream.error fires with chunk_count set to however many user-facing    *)
(* text chunks made it out first" (client.py:340-341).                     *)
ErrorCountsDelivered ==
    log # << >> /\ Last(log).of = "stream" /\ Last(log).what = "error" =>
        Last(log).count = Len(delivered)
=============================================================================
