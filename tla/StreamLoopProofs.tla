-------------------------- MODULE StreamLoopProofs --------------------------
(***************************************************************************)
(* Proofs about Aether.stream for any provider, whatever it answers, and   *)
(* for a consumer, a provider, or a cancellation that stops it anywhere.   *)
(***************************************************************************)
EXTENDS StreamLoop, ToolMessagesProofs

(* The suspensions in which a tool call is under way, and those behind the *)
(* end of the user-facing stream.                                          *)
ToolSteps == {"tool_announcing", "dispatching", "tool_done", "tool_failed"}
Over      == {"closing", "failing", "returned", "raised"}

(* The events of a stream.                                                 *)
Names == {"start", "chunk", "complete", "error"}

-----------------------------------------------------------------------------
(* Types.                                                                  *)

LEMMA EmitTyped ==
    ASSUME TypeOK, NEW of \in {"tool", "stream"}, NEW what \in Names, NEW n \in Nat,
           EmitCount(of, what, n)
    PROVE  /\ [of |-> of, what |-> what, count |-> n] \in Event /\ log' \in Seq(Event)
           /\ log' = Append(log, [of |-> of, what |-> what, count |-> n])
           /\ Len(log') = Len(log) + 1 /\ Len(log) \in Nat /\ log' # << >>
           /\ Last(log') = [of |-> of, what |-> what, count |-> n]
           /\ \A i \in 1 .. Len(log) : log'[i] = log[i]
<1>1. [of |-> of, what |-> what, count |-> n] \in Event
  BY DEF Names, Event
<1>. QED  BY <1>1, SMTT(30) DEF EmitCount, TypeOK, Last

(* The step that puts the result of a tool into the list.                  *)
LEMMA ToolHandledTyped ==
    ASSUME TypeOK, ToolHandled
    PROVE  /\ pc \in {"tool_done", "tool_failed"} /\ UNCHANGED << tools, chunk_count, delivered >>
           /\ todo # << >> /\ Head(todo) \in CallIds
           /\ messages' = Append(messages, ToolResult(Head(todo))) /\ messages' \in Seq(Message)
           /\ todo' = Tail(todo) /\ todo' \in Seq(CallIds)
           /\ \/ Len(todo) > 1 /\ Emit("tool", "start") /\ pc' = "tool_announcing"
                               /\ UNCHANGED << request, calls, chunks, round >>
              \/ /\ Len(todo) = 1 /\ round < MaxIterations /\ round' = round + 1
                 /\ Open(messages') /\ UNCHANGED log
              \/ Len(todo) = 1 /\ Close /\ UNCHANGED << request, calls, chunks, round >>
<1>. DEFINE list == Append(messages, ToolResult(Head(todo)))
<1>1. pc \in {"tool_done", "tool_failed"} /\ GoOn(list)
  BY DEF ToolHandled
<1>2. Len(todo) > 0
  BY <1>1 DEF GoOn, TypeOK
<1>3. todo # << >> /\ Head(todo) \in CallIds /\ Tail(todo) \in Seq(CallIds)
  BY <1>2 DEF TypeOK
<1>4. list \in Seq(Message)
  BY <1>3 DEF TypeOK, ToolResult, Message
<1>. QED  BY <1>1, <1>3, <1>4 DEF GoOn

LEMMA TypeInit == Init => TypeOK
<1>1. UserTurn \in Message
  BY DEF UserTurn, Message
<1>. QED  BY <1>1, StreamLoopAssumption DEF Init, TypeOK

LEMMA TypeStep ==
    ASSUME TypeOK, [Next]_vars
    PROVE  TypeOK'
<1>. USE DEF Suspensions, Ended, Names
<1>1. CASE UNCHANGED vars
  BY <1>1 DEF vars, TypeOK
<1>2. CASE Begin
  BY <1>2, EmitTyped DEF Begin, Emit, TypeOK
<1>3. CASE CallsChunk
  <2>1. calls' \in Seq(CallIds)
    BY <1>3, StreamLoopAssumption DEF CallsChunk, TypeOK
  <2>. QED  BY <1>3, <2>1 DEF CallsChunk, TypeOK
<1>4. CASE Opened \/ Resume \/ Dispatch \/ Finish \/ Cancelled
  <2>1. CASE Opened
    <3>1. 0 \in 0 .. MaxChunks /\ << >> \in Seq(CallIds)
      BY StreamLoopAssumption
    <3>2. CASE Open(messages) /\ UNCHANGED log
      BY <2>1, <3>1, <3>2 DEF Opened, Open, TypeOK
    <3>3. CASE Close /\ UNCHANGED << request, calls, chunks >>
      BY <2>1, <3>3, EmitTyped DEF Opened, Close, TypeOK
    <3>. QED  BY <2>1, <3>2, <3>3 DEF Opened
  <2>2. CASE Resume \/ Dispatch \/ Finish \/ Cancelled
    BY <2>2 DEF Resume, Dispatch, Finish, Cancelled, TypeOK
  <2>. QED  BY <1>4, <2>1, <2>2
<1>5. CASE Yield
  <2>1. delivered' \in Seq(Nat)
    BY <1>5, StreamLoopAssumption DEF Yield, TypeOK
  <2>. QED  BY <1>5, <2>1 DEF Yield, TypeOK
<1>6. CASE TextChunk
  <2>1. chunks' \in 0 .. MaxChunks /\ chunk_count' \in Nat
    BY <1>6, StreamLoopAssumption DEF TextChunk, TypeOK
  <2>. QED  BY <1>6, <2>1, EmitTyped DEF TextChunk, Emit, TypeOK
<1>7. CASE SessionEnds
  <2>1. CASE Close /\ UNCHANGED << messages, todo >>
    BY <1>7, <2>1, EmitTyped DEF SessionEnds, Close, TypeOK
  <2>2. CASE /\ messages' = Append(messages, ToolRequest(calls)) /\ todo' = calls
             /\ Emit("tool", "start") /\ pc' = "tool_announcing"
    <3>1. ToolRequest(calls) \in Message
      BY DEF TypeOK, ToolRequest, Message
    <3>2. messages' \in Seq(Message) /\ todo' \in Seq(CallIds)
      BY <2>2, <3>1 DEF TypeOK
    <3>3. log' \in Seq(Event)
      BY <2>2, EmitTyped DEF Emit
    <3>. QED  BY <1>7, <2>2, <3>2, <3>3 DEF SessionEnds, TypeOK
  <2>. QED  BY <1>7, <2>1, <2>2 DEF SessionEnds
<1>8. CASE ToolEnds
  BY <1>8, EmitTyped DEF ToolEnds, Emit, TypeOK
<1>9. CASE ToolHandled
  <2>1. CASE Len(todo) > 1 /\ Emit("tool", "start") /\ pc' = "tool_announcing"
                           /\ UNCHANGED << request, calls, chunks, round >>
    BY <1>9, <2>1, EmitTyped, ToolHandledTyped DEF Emit, TypeOK
  <2>2. CASE /\ Len(todo) = 1 /\ round < MaxIterations /\ round' = round + 1
             /\ Open(messages') /\ UNCHANGED log
    <3>1. round' \in Nat /\ round' <= MaxIterations
      BY <2>2, StreamLoopAssumption DEF TypeOK
    <3>. QED  BY <1>9, <2>2, <3>1, ToolHandledTyped, StreamLoopAssumption DEF Open, TypeOK
  <2>3. CASE Len(todo) = 1 /\ Close /\ UNCHANGED << request, calls, chunks, round >>
    BY <1>9, <2>3, EmitTyped, ToolHandledTyped DEF Close, TypeOK
  <2>. QED  BY <1>9, <2>1, <2>2, <2>3, ToolHandledTyped
<1>10. CASE Raise
  BY <1>10, EmitTyped DEF Raise, TypeOK
<1>. QED  BY <1>1, <1>2, <1>3, <1>4, <1>5, <1>6, <1>7, <1>8, <1>9, <1>10 DEF Next, Progress

-----------------------------------------------------------------------------
(* The working list.                                                       *)

(* The list lacks the results of the calls to do, and nothing else.        *)
ListInv ==
    /\ ResolvedAfter(messages, todo) /\ Resolved(request)
    /\ pc \in ToolSteps => todo # << >>
    /\ pc \notin ToolSteps \cup {"failing", "raised"} => todo = << >>

LEMMA ListInit == Init => ListInv
<1>. SUFFICES ASSUME Init
              PROVE  ListInv
  OBVIOUS
<1>1. messages \in Seq(Message)
  BY TypeInit DEF TypeOK
<1>2. Resolved(messages) /\ Resolved(request)
  BY DEF Init, Resolved, UserTurn
<1>. QED  BY <1>1, <1>2, NothingAfter DEF Init, ListInv, ToolSteps

LEMMA ListStep ==
    ASSUME TypeOK, ListInv, [Next]_vars
    PROVE  ListInv'
<1>. USE DEF ToolSteps
<1>1. messages \in Seq(Message) /\ calls \in Seq(CallIds) /\ todo \in Seq(CallIds)
  BY DEF TypeOK
<1>2. todo = << >> => Resolved(messages)
  BY <1>1, NothingAfter DEF ListInv
<1>3. CASE UNCHANGED vars
  BY <1>3 DEF vars, ListInv
<1>4. CASE Opened
  BY <1>2, <1>4 DEF Opened, Open, Close, ListInv
<1>5. CASE Begin \/ CallsChunk \/ TextChunk \/ Yield \/ Resume \/ Dispatch \/ ToolEnds
  BY <1>5 DEF Begin, CallsChunk, TextChunk, Yield, Resume, Dispatch, ToolEnds, ListInv
<1>6. CASE SessionEnds
  <2>1. CASE Close /\ UNCHANGED << messages, todo >>
    BY <1>6, <2>1 DEF SessionEnds, Close, ListInv
  <2>2. CASE /\ calls # << >> /\ messages' = Append(messages, ToolRequest(calls))
             /\ todo' = calls /\ pc' = "tool_announcing"
    <3>1. Resolved(messages)
      BY <1>2, <1>6 DEF SessionEnds, ListInv
    <3>2. ResolvedAfter(messages', todo')
      BY <1>1, <2>2, <3>1, RequestAppended
    <3>. QED  BY <1>6, <2>2, <3>2 DEF SessionEnds, ListInv
  <2>. QED  BY <1>6, <2>1, <2>2 DEF SessionEnds
<1>7. CASE ToolHandled
  <2>1. ResolvedAfter(messages', todo')
    BY <1>1, <1>7, ToolHandledTyped, ResultAppended DEF ListInv
  <2>2. (Len(todo) = 1 => todo' = << >>) /\ (Len(todo) > 1 => todo' # << >>)
    BY <1>1, <1>7, ToolHandledTyped
  <2>3. todo' = << >> => Resolved(messages')
    BY <1>7, <2>1, ToolHandledTyped, NothingAfter
  <2>. QED  BY <1>7, <2>1, <2>2, <2>3, ToolHandledTyped DEF Open, Close, ListInv
<1>8. CASE Raise \/ Finish \/ Cancelled
  BY <1>8 DEF Raise, Guarded, Suspensions, Finish, Cancelled, ListInv
<1>. QED  BY <1>3, <1>4, <1>5, <1>6, <1>7, <1>8 DEF Next, Progress

-----------------------------------------------------------------------------
(* The events.                                                             *)

(* The log starts with stream.start, and ends, once the stream is over,    *)
(* with its end, unless it was cancelled before it had got past the start. *)
LogInv ==
    /\ pc = "idle" <=> log = << >>
    /\ pc = "opening" => Len(log) = 1
    /\ \A i \in 1 .. Len(log) :
          /\ log[i] = Emitted("stream", "start") <=> i = 1
          /\ IsEnd(log[i]) => i = Len(log) /\ pc \in Over
    /\ pc \in {"closing", "failing", "returned"} => IsEnd(Last(log))
    /\ pc = "raised" => IsEnd(Last(log)) \/ Len(log) = 1

(* While the stream goes on, each event is another one than its start, and *)
(* its end is the last.                                                    *)
LEMMA LogAppended ==
    ASSUME TypeOK, LogInv, pc \notin Over \cup {"idle"},
           NEW of \in {"tool", "stream"}, NEW what \in Names, NEW n \in Nat,
           EmitCount(of, what, n), of = "stream" => what # "start",
           IF of = "stream" /\ what \in {"complete", "error"}
           THEN pc' \in {"closing", "failing"} ELSE pc' \notin Over \cup {"idle", "opening"}
    PROVE  LogInv'
<1>. DEFINE e == [of |-> of, what |-> what, count |-> n]
<1>1. /\ Len(log') = Len(log) + 1 /\ Len(log) \in Nat /\ log' # << >>
      /\ Last(log') = e /\ log'[Len(log')] = e
      /\ \A i \in 1 .. Len(log) : log'[i] = log[i]
  BY EmitTyped DEF Last
<1>2. e # Emitted("stream", "start")
  BY DEF Emitted
<1>3. IsEnd(e) <=> of = "stream" /\ what \in {"complete", "error"}
  BY DEF IsEnd
<1>. HIDE DEF e
<1>4. Len(log) # 0
  BY DEF LogInv, TypeOK
<1>5. ASSUME NEW i \in 1 .. Len(log')
      PROVE  /\ log'[i] = Emitted("stream", "start") <=> i = 1
             /\ IsEnd(log'[i]) => i = Len(log') /\ pc' \in Over
  <2>1. CASE i \in 1 .. Len(log)
    BY <1>1, <2>1 DEF LogInv
  <2>2. CASE i = Len(log')
    BY <1>1, <1>2, <1>3, <1>4, <2>2 DEF Over
  <2>. QED  BY <1>1, <2>1, <2>2
<1>. QED  BY <1>1, <1>3, <1>5 DEF LogInv, Over

LEMMA LogStep ==
    ASSUME TypeOK, LogInv, [Next]_vars
    PROVE  LogInv'
<1>. USE DEF Over
<1>1. CASE UNCHANGED vars
  BY <1>1 DEF vars, LogInv
<1>2. CASE Begin
  <2>1. log' = << Emitted("stream", "start") >> /\ pc' = "opening"
    BY <1>2 DEF Begin, Emit, EmitCount, Emitted, LogInv
  <2>2. ~ IsEnd(Emitted("stream", "start"))
    BY DEF IsEnd, Emitted
  <2>. QED  BY <2>1, <2>2 DEF LogInv
<1>3. CASE CallsChunk \/ Yield \/ Resume \/ Dispatch
  BY <1>3 DEF CallsChunk, Yield, Resume, Dispatch, LogInv
<1>11. CASE Opened
  <2>1. CASE Open(messages) /\ UNCHANGED log
    BY <1>11, <2>1 DEF Opened, Open, LogInv
  <2>2. CASE Close
    BY <1>11, <2>2, LogAppended DEF Opened, Close, Names, TypeOK
  <2>. QED  BY <1>11, <2>1, <2>2 DEF Opened
<1>4. CASE TextChunk
  BY <1>4, LogAppended DEF TextChunk, Emit, Names
<1>5. CASE SessionEnds
  BY <1>5, LogAppended DEF SessionEnds, Close, Emit, Names, TypeOK
<1>6. CASE ToolEnds
  BY <1>6, LogAppended DEF ToolEnds, Emit, Names
<1>7. CASE ToolHandled
  <2>1. CASE Emit("tool", "start") /\ pc' = "tool_announcing"
    BY <1>7, <2>1, ToolHandledTyped, LogAppended DEF Emit, Names
  <2>2. CASE Open(messages') /\ UNCHANGED log
    BY <1>7, <2>2, ToolHandledTyped DEF Open, LogInv
  <2>3. CASE Close
    BY <1>7, <2>3, ToolHandledTyped, LogAppended DEF Close, Names, TypeOK
  <2>. QED  BY <1>7, <2>1, <2>2, <2>3, ToolHandledTyped
<1>8. CASE Raise
  BY <1>8, LogAppended DEF Raise, Guarded, Suspensions, Names, TypeOK
<1>9. CASE Finish
  BY <1>9 DEF Finish, LogInv
<1>10. CASE Cancelled
  BY <1>10 DEF Cancelled, Guarded, Suspensions, LogInv
<1>. QED  BY <1>1, <1>2, <1>3, <1>4, <1>5, <1>6, <1>7, <1>8, <1>9, <1>10, <1>11 DEF Next, Progress

-----------------------------------------------------------------------------
(* The count of the chunks.                                                *)

(* Only stream.chunk counts.                                               *)
LEMMA ChunksCounted ==
    ASSUME TypeOK
    PROVE  /\ Announced \in Nat
           /\ UNCHANGED log => Announced' = Announced
           /\ \A of \in {"tool", "stream"}, what \in Names, n \in Nat :
                 EmitCount(of, what, n) /\ (what = "chunk" => of = "stream" /\ n = 0) =>
                    /\ Announced' = IF what = "chunk" THEN Announced + 1 ELSE Announced
                    /\ Last(log').count = n
<1>. DEFINE chunk == {Emitted("stream", "chunk")}
<1>1. Announced = Count(log, chunk) /\ Announced' = Count(log', chunk)
  BY DEF Announced, Count
<1>2. Emitted("stream", "chunk") \in Event /\ log \in Seq(Event)
  BY DEF Emitted, Event, TypeOK
<1>. HIDE DEF chunk
<1>3. Announced \in Nat
  BY <1>1, <1>2, CountAppended
<1>4. ASSUME NEW of \in {"tool", "stream"}, NEW what \in Names, NEW n \in Nat,
             EmitCount(of, what, n), what = "chunk" => of = "stream" /\ n = 0
      PROVE  /\ Announced' = IF what = "chunk" THEN Announced + 1 ELSE Announced
             /\ Last(log').count = n
  <2>. DEFINE e == [of |-> of, what |-> what, count |-> n]
  <2>1. e \in Event /\ log' = Append(log, e) /\ Last(log') = e
    BY <1>4, EmitTyped
  <2>2. (e \in chunk <=> what = "chunk") /\ e.count = n
    BY <1>4 DEF Emitted, chunk
  <2>. HIDE DEF e
  <2>3. Count(log', chunk) = IF e \in chunk THEN Count(log, chunk) + 1 ELSE Count(log, chunk)
    BY <1>2, <2>1, CountAppended
  <2>. QED  BY <1>1, <2>1, <2>2, <2>3
<1>. QED  BY <1>1, <1>3, <1>4

CountInv ==
    /\ chunk_count = Announced
    /\ Len(delivered) \in {Announced, Announced - 1}
    /\ pc = "announcing" => Len(delivered) = Announced - 1
    /\ pc \notin {"announcing", "failing", "raised"} => Len(delivered) = Announced
    /\ pc \in {"closing", "returned"} => Last(log).count = Announced

LEMMA CountStep ==
    ASSUME TypeOK, CountInv, [Next]_vars
    PROVE  CountInv'
<1>. USE DEF Names
<1>1. Announced \in Nat /\ Len(delivered) \in Nat /\ chunk_count \in Nat
  BY ChunksCounted DEF TypeOK
<1>2. CASE UNCHANGED vars
  BY <1>2, ChunksCounted DEF vars, CountInv
<1>3. CASE Begin
  BY <1>1, <1>3, ChunksCounted DEF Begin, Emit, CountInv
<1>11. CASE Opened
  <2>1. CASE Open(messages) /\ UNCHANGED log
    BY <1>1, <1>11, <2>1, ChunksCounted DEF Opened, Open, CountInv
  <2>2. CASE Close
    BY <1>1, <1>11, <2>2, ChunksCounted DEF Opened, Close, CountInv
  <2>. QED  BY <1>11, <2>1, <2>2 DEF Opened
<1>4. CASE CallsChunk \/ Resume \/ Dispatch \/ Finish \/ Cancelled
  <2>1. UNCHANGED << log, chunk_count, delivered >>
    BY <1>4 DEF CallsChunk, Resume, Dispatch, Finish, Cancelled
  <2>2. pc # "announcing" /\ pc' # "announcing"
    BY <1>4 DEF CallsChunk, Resume, Dispatch, Finish, Cancelled, Guarded, Suspensions
  <2>3. /\ pc' \in {"closing", "returned"} => pc \in {"closing", "returned"}
        /\ pc' \notin {"failing", "raised"} => pc \notin {"failing", "raised"}
    BY <1>4 DEF CallsChunk, Resume, Dispatch, Finish, Cancelled
  <2>. QED  BY <1>1, <2>1, <2>2, <2>3, ChunksCounted DEF CountInv
<1>5. CASE TextChunk
  BY <1>1, <1>5, ChunksCounted DEF TextChunk, Emit, CountInv
<1>6. CASE Yield
  <2>1. Len(delivered') = Len(delivered) + 1
    BY <1>6 DEF Yield, TypeOK
  <2>. QED  BY <1>1, <1>6, <2>1, ChunksCounted DEF Yield, CountInv
<1>7. CASE SessionEnds
  BY <1>1, <1>7, ChunksCounted DEF SessionEnds, Close, Emit, CountInv
<1>8. CASE ToolEnds
  BY <1>1, <1>8, ChunksCounted DEF ToolEnds, Emit, CountInv
<1>9. CASE ToolHandled
  BY <1>1, <1>9, ToolHandledTyped, ChunksCounted DEF Open, Close, Emit, CountInv
<1>10. CASE Raise
  BY <1>1, <1>10, ChunksCounted DEF Raise, CountInv
<1>. QED  BY <1>2, <1>3, <1>4, <1>5, <1>6, <1>7, <1>8, <1>9, <1>10, <1>11 DEF Next, Progress

-----------------------------------------------------------------------------

StreamInv == TypeOK /\ ListInv /\ LogInv /\ CountInv

LEMMA StreamInvariant == Spec => []StreamInv
<1>1. Init => StreamInv
  <2>1. SUFFICES ASSUME Init
                 PROVE  StreamInv
    OBVIOUS
  <2>2. {i \in 1 .. Len(log) : log[i] = Emitted("stream", "chunk")} = {}
    BY <2>1 DEF Init
  <2>3. Announced = 0
    BY <2>2, FS_EmptySet DEF Announced
  <2>4. LogInv /\ CountInv
    BY <2>1, <2>3 DEF Init, LogInv, CountInv
  <2>. QED  BY <2>1, <2>4, TypeInit, ListInit DEF StreamInv
<1>2. StreamInv /\ [Next]_vars => StreamInv'
  BY TypeStep, ListStep, LogStep, CountStep DEF StreamInv
<1>. QED  BY <1>1, <1>2, PTL DEF Spec

(* The variables of the stream keep their types.                           *)
THEOREM TypeCorrect == Spec => []TypeOK
<1>1. StreamInv => TypeOK
  BY DEF StreamInv
<1>. QED  BY <1>1, StreamInvariant, PTL

(* client.py, Aether.stream: each provider session is opened with a list   *)
(* that a provider accepts, whatever tools failed before.                  *)
THEOREM SessionsSendable == Spec => []RequestsResolved
<1>1. StreamInv => RequestsResolved
  BY DEF StreamInv, ListInv, RequestsResolved
<1>. QED  BY <1>1, StreamInvariant, PTL

(* README.md, "stream.start and stream.complete fire once across the whole *)
(* stream": one start, at most one end, and nothing behind it, wherever    *)
(* the stream is stopped; past its start it has exactly one end.           *)
THEOREM OneStream == Spec => []OneStreamInTheLog
<1>1. StreamInv => OneStreamInTheLog
  BY DEF StreamInv, LogInv, OneStreamInTheLog, Ended
<1>. QED  BY <1>1, StreamInvariant, PTL

(* The chunks announced are those delivered, but for the one under way     *)
(* when the stream stopped; stream.complete reports their number.          *)
THEOREM ChunksAreAnnounced == Spec => []ChunksAnnounced
<1>1. StreamInv => ChunksAnnounced
  BY DEF StreamInv, CountInv, ChunksAnnounced
<1>. QED  BY <1>1, StreamInvariant, PTL
=============================================================================
