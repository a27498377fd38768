------------------------- MODULE CompleteCallProofs -------------------------
(***************************************************************************)
(* Proofs about Aether.complete: first of its tool loop alone, for any     *)
(* replies and any bound on the iterations, and then of the loop together  *)
(* with the bus and the registry that it shares.                           *)
(***************************************************************************)
EXTENDS CompleteCall, ToolMessagesProofs

(* The suspensions in which a tool call is under way.                      *)
ToolSteps == {"tool_announcing", "dispatching", "tool_done", "tool_failed"}

-----------------------------------------------------------------------------
(* Types.                                                                  *)

LEMMA EmitTyped ==
    ASSUME TypeOK, NEW of \in {"request", "tool"}, NEW what \in {"start", "complete", "error"},
           Emit(of, what)
    PROVE  Emitted(of, what) \in Event /\ log' \in Seq(Event)
<1>1. Emitted(of, what) \in Event
  BY DEF Emitted, Event
<1>. QED  BY <1>1 DEF Emit, TypeOK

(* The step that puts the result of a tool into the list.                  *)
LEMMA ToolHandledTyped ==
    ASSUME TypeOK, ToolHandled
    PROVE  /\ pc \in {"tool_done", "tool_failed"} /\ UNCHANGED << tools, response >>
           /\ todo # << >> /\ Head(todo) \in CallIds
           /\ messages' = Append(messages, ToolResult(Head(todo))) /\ messages' \in Seq(Message)
           /\ todo' = Tail(todo) /\ todo' \in Seq(CallIds)
           /\ \/ Len(todo) > 1 /\ Emit("tool", "start") /\ pc' = "tool_announcing"
                               /\ UNCHANGED << request, round >>
              \/ Len(todo) = 1 /\ StartRequest(messages') /\ round' = round + 1
              \/ Len(todo) = 1 /\ pc' = "returned" /\ UNCHANGED << request, round, log >>
<1>. DEFINE list == Append(messages, ToolResult(Head(todo)))
<1>1. messages' = list /\ GoOn(list)
  BY DEF ToolHandled
<1>2. Len(todo) > 0
  BY <1>1 DEF GoOn, TypeOK
<1>3. todo # << >> /\ Head(todo) \in CallIds /\ Tail(todo) \in Seq(CallIds)
  BY <1>2 DEF TypeOK
<1>4. list \in Seq(Message)
  BY <1>3 DEF TypeOK, ToolResult, Message
<1>. QED  BY <1>1, <1>3, <1>4 DEF ToolHandled, GoOn

LEMMA TypeInit == Init => TypeOK
<1>1. UserTurn \in Message
  BY DEF UserTurn, Message
<1>. QED  BY <1>1 DEF Init, TypeOK

LEMMA TypeStep ==
    ASSUME TypeOK, [Next]_vars
    PROVE  TypeOK'
<1>. USE DEF Suspensions, Ended
<1>1. CASE UNCHANGED vars
  BY <1>1 DEF vars, TypeOK
<1>2. CASE Begin
  BY <1>2, EmitTyped DEF Begin, StartRequest, TypeOK
<1>3. CASE Ask \/ ErrorHandled \/ Return \/ Dispatch \/ Cancelled
  BY <1>3 DEF Ask, ErrorHandled, Return, Dispatch, Cancelled, TypeOK
<1>4. CASE Answer
  BY <1>4, EmitTyped, ToolLoopAssumption DEF Answer, TypeOK
<1>5. CASE AskRaises \/ ToolReturns \/ ToolRaises
  BY <1>5, EmitTyped DEF AskRaises, ToolReturns, ToolRaises, TypeOK
<1>6. CASE TakeCalls
  <2>1. ToolRequest(response) \in Message
    BY DEF TypeOK, ToolRequest, Message
  <2>. QED  BY <1>6, <2>1, EmitTyped DEF TakeCalls, TypeOK
<1>7. CASE ToolHandled
  BY <1>7, EmitTyped, ToolHandledTyped DEF StartRequest, TypeOK
<1>. QED  BY <1>1, <1>2, <1>3, <1>4, <1>5, <1>6, <1>7 DEF Next, Progress

-----------------------------------------------------------------------------
(* The working list.                                                       *)

(* The list lacks the results of the calls to do, and nothing else.  While *)
(* none is to do, it can be sent; a call that is stopped among its tools   *)
(* leaves them behind.                                                     *)
ListInv ==
    /\ ResolvedAfter(messages, todo) /\ Resolved(request)
    /\ pc \in ToolSteps => tools /\ todo # << >>
    /\ pc \notin ToolSteps \cup {"raised"} => todo = << >>

LEMMA ListInit == Init => ListInv
<1>. SUFFICES ASSUME Init
              PROVE  ListInv
  OBVIOUS
<1>1. messages \in Seq(Message)
  BY TypeInit DEF TypeOK
<1>2. Resolved(messages) /\ Resolved(request)
  BY DEF Init, Resolved, UserTurn
<1>. QED  BY <1>1, <1>2, NothingAfter DEF Init, ListInv, ToolSteps

LEMMA ListStep ==
    ASSUME TypeOK, ListInv, [Next]_vars
    PROVE  ListInv'
<1>. USE DEF ToolSteps
<1>1. messages \in Seq(Message) /\ response \in Seq(CallIds) /\ todo \in Seq(CallIds)
  BY DEF TypeOK
<1>2. todo = << >> => Resolved(messages)
  BY <1>1, NothingAfter DEF ListInv
<1>3. CASE UNCHANGED vars
  BY <1>3 DEF vars, ListInv
<1>4. CASE Begin
  BY <1>2, <1>4 DEF Begin, StartRequest, ListInv
<1>5. CASE Ask \/ Answer \/ AskRaises \/ ErrorHandled \/ Return
  BY <1>5 DEF Ask, Answer, AskRaises, ErrorHandled, Return, ListInv
<1>6. CASE TakeCalls
  <2>1. /\ Resolved(messages) /\ messages' = Append(messages, ToolRequest(response))
        /\ todo' = response /\ tools' /\ response # << >> /\ UNCHANGED request
        /\ pc' = "tool_announcing"
    BY <1>2, <1>6 DEF TakeCalls, ListInv
  <2>2. ResolvedAfter(messages', todo')
    BY <1>1, <2>1, RequestAppended
  <2>. QED  BY <2>1, <2>2 DEF ListInv
<1>7. CASE Dispatch \/ ToolReturns \/ ToolRaises
  BY <1>7 DEF Dispatch, ToolReturns, ToolRaises, ListInv
<1>8. CASE ToolHandled
  <2>1. ResolvedAfter(messages', todo')
    BY <1>1, <1>8, ToolHandledTyped, ResultAppended DEF ListInv
  <2>2. (Len(todo) = 1 => todo' = << >>) /\ (Len(todo) > 1 => todo' # << >>)
    BY <1>1, <1>8, ToolHandledTyped
  <2>3. todo' = << >> => Resolved(messages')
    BY <1>8, <2>1, ToolHandledTyped, NothingAfter
  <2>. QED  BY <1>8, <2>1, <2>2, <2>3, ToolHandledTyped DEF StartRequest, ListInv
<1>9. CASE Cancelled
  BY <1>9 DEF Cancelled, ListInv
<1>. QED  BY <1>3, <1>4, <1>5, <1>6, <1>7, <1>8, <1>9 DEF Next, Progress

-----------------------------------------------------------------------------
(* The events.                                                             *)

(* The end of what a call has started is still to be emitted while the     *)
(* call is where it can be: until the provider, or the tool, is done.      *)
EventInv ==
    /\ Bracketed(log)
    /\ pc \in {"announcing", "asking"} => Under(log, "request")
    /\ pc \in {"tool_announcing", "dispatching"} => Under(log, "tool")
    /\ pc \in {"idle", "answered", "failing", "tool_done", "tool_failed"} => Quiet(log)

LEMMA EmitKeeps ==
    ASSUME TypeOK, EventInv,
           NEW of \in {"request", "tool"}, NEW what \in {"start", "complete", "error"},
           Emit(of, what), IF what = "start" THEN Quiet(log) ELSE Under(log, of)
    PROVE  Bracketed(log') /\ (IF what = "start" THEN Under(log', of) ELSE Quiet(log'))
<1>1. Emitted(of, what) \in Event /\ log \in Seq(Event) /\ log' = Append(log, Emitted(of, what))
  BY EmitTyped DEF Emit, TypeOK
<1>2. Fits(log, Emitted(of, what))
  BY DEF Fits, Emitted
<1>3. Bracketed(log') /\ Last(log') = Emitted(of, what) /\ log' # << >>
  BY <1>1, <1>2, BracketAppended DEF EventInv
<1>. QED  BY <1>3 DEF Under, Quiet, Emitted

LEMMA EventStep ==
    ASSUME TypeOK, EventInv, [Next]_vars
    PROVE  EventInv'
<1>1. CASE UNCHANGED vars
  BY <1>1 DEF vars, EventInv
<1>2. CASE Begin
  BY <1>2, EmitKeeps DEF Begin, StartRequest, EventInv
<1>3. CASE Ask \/ ErrorHandled \/ Return \/ Dispatch \/ Cancelled
  BY <1>3 DEF Ask, ErrorHandled, Return, Dispatch, Cancelled, EventInv
<1>4. CASE Answer \/ AskRaises \/ ToolReturns \/ ToolRaises \/ TakeCalls
  BY <1>4, EmitKeeps DEF Answer, AskRaises, ToolReturns, ToolRaises, TakeCalls, EventInv
<1>5. CASE ToolHandled
  BY <1>5, ToolHandledTyped, EmitKeeps DEF StartRequest, EventInv
<1>. QED  BY <1>1, <1>2, <1>3, <1>4, <1>5 DEF Next, Progress

-----------------------------------------------------------------------------
(* The count of the tool calls.                                            *)

(* Each event other than the start of a tool leaves the count alone.       *)
LEMMA StartsCounted ==
    ASSUME TypeOK, NEW of \in {"request", "tool"}, NEW what \in {"start", "complete", "error"},
           Emit(of, what)
    PROVE  /\ ToolStarts \in Nat
           /\ ToolStarts' = IF of = "tool" /\ what = "start" THEN ToolStarts + 1 ELSE ToolStarts
<1>. DEFINE starts == {Emitted("tool", "start")}
<1>1. ToolStarts = Count(log, starts) /\ ToolStarts' = Count(log', starts)
  BY DEF ToolStarts, Count
<1>2. Emitted(of, what) \in starts <=> of = "tool" /\ what = "start"
  BY DEF Emitted
<1>3. Emitted(of, what) \in Event /\ log \in Seq(Event) /\ log' = Append(log, Emitted(of, what))
  BY EmitTyped DEF Emit, TypeOK
<1>. HIDE DEF starts
<1>. QED  BY <1>1, <1>2, <1>3, CountAppended

(* A list has one more answer with the result of a tool, and with nothing  *)
(* else that is added to it.                                               *)
LEMMA AnswersCounted ==
    ASSUME NEW list \in Seq(Message), NEW m \in Message
    PROVE  /\ Answered(list) \in Nat
           /\ Answered(Append(list, m)) = IF m.role = "tool" THEN Answered(list) + 1
                                                             ELSE Answered(list)
<1>. DEFINE results == {r \in Message : r.role = "tool"}
<1>1. ASSUME NEW l \in Seq(Message)
      PROVE  Answered(l) = Count(l, results)
  <2>1. \A i \in 1 .. Len(l) : l[i] \in Message
    OBVIOUS
  <2>. QED  BY <2>1 DEF Answered, Count
<1>2. Append(list, m) \in Seq(Message) /\ (m \in results <=> m.role = "tool")
  OBVIOUS
<1>. HIDE DEF results
<1>3. /\ Count(list, results) \in Nat
      /\ Count(Append(list, m), results) =
            IF m \in results THEN Count(list, results) + 1 ELSE Count(list, results)
  BY CountAppended
<1>. QED  BY <1>1, <1>2, <1>3

LEMMA CountInit == Init => ToolsRunOnce
<1>. SUFFICES ASSUME Init
              PROVE  ToolsRunOnce
  OBVIOUS
<1>1. {i \in 1 .. Len(log) : log[i] = Emitted("tool", "start")} = {}
  BY DEF Init
<1>2. {i \in 1 .. Len(messages) : messages[i].role = "tool"} = {}
  BY DEF Init, UserTurn
<1>3. ToolStarts = 0 /\ Answered(messages) = 0
  BY <1>1, <1>2, FS_EmptySet DEF ToolStarts, Answered
<1>. QED  BY <1>3 DEF Init, ToolsRunOnce

LEMMA CountStep ==
    ASSUME TypeOK, ToolsRunOnce, [Next]_vars
    PROVE  ToolsRunOnce'
<1>. USE DEF Suspensions
<1>1. ToolStarts \in Nat /\ Answered(messages) \in Nat
  <2>1. ToolStarts = Count(log, {Emitted("tool", "start")}) /\ Emitted("tool", "start") \in Event
    BY DEF ToolStarts, Count, Emitted, Event
  <2>2. UserTurn \in Message
    BY DEF UserTurn, Message
  <2>3. Answered(messages) \in Nat
    BY <2>2, AnswersCounted DEF TypeOK
  <2>4. log \in Seq(Event)
    BY DEF TypeOK
  <2>5. Count(log, {Emitted("tool", "start")}) \in Nat
    BY <2>1, <2>4, CountAppended
  <2>. QED  BY <2>1, <2>3, <2>5
<1>2. UNCHANGED log => ToolStarts' = ToolStarts
  BY DEF ToolStarts
<1>3. CASE UNCHANGED vars
  BY <1>2, <1>3 DEF vars, ToolsRunOnce
<1>4. CASE Begin
  BY <1>1, <1>2, <1>4, StartsCounted DEF Begin, StartRequest, ToolsRunOnce
<1>5. CASE Ask \/ ErrorHandled \/ Return \/ Dispatch \/ Cancelled
  BY <1>1, <1>2, <1>5 DEF Ask, ErrorHandled, Return, Dispatch, Cancelled, ToolsRunOnce
<1>6. CASE Answer \/ AskRaises \/ ToolReturns \/ ToolRaises
  BY <1>1, <1>6, StartsCounted DEF Answer, AskRaises, ToolReturns, ToolRaises, ToolsRunOnce
<1>7. CASE TakeCalls
  <2>1. ToolRequest(response) \in Message /\ ToolRequest(response).role # "tool"
    BY DEF TypeOK, ToolRequest, Message
  <2>2. Answered(messages') = Answered(messages)
    BY <1>7, <2>1, AnswersCounted DEF TakeCalls, TypeOK
  <2>. QED  BY <1>1, <1>7, <2>2, StartsCounted DEF TakeCalls, ToolsRunOnce
<1>8. CASE ToolHandled
  <2>1. /\ ToolResult(Head(todo)) \in Message /\ ToolResult(Head(todo)).role = "tool"
    BY <1>8, ToolHandledTyped DEF ToolResult, Message
  <2>2. Answered(messages') = Answered(messages) + 1
    BY <1>8, <2>1, ToolHandledTyped, AnswersCounted DEF TypeOK
  <2>3. ToolStarts = Answered(messages) + 1
    BY <1>1, <1>8, ToolHandledTyped DEF ToolsRunOnce
  <2>4. \/ pc' = "tool_announcing" /\ ToolStarts' = ToolStarts + 1
        \/ pc' \in {"announcing", "returned"} /\ ToolStarts' = ToolStarts
    BY <1>2, <1>8, ToolHandledTyped, StartsCounted DEF StartRequest
  <2>. QED  BY <1>1, <2>2, <2>3, <2>4 DEF ToolsRunOnce
<1>. QED  BY <1>3, <1>4, <1>5, <1>6, <1>7, <1>8 DEF Next, Progress

-----------------------------------------------------------------------------
(* The loop.                                                               *)

LoopInv == TypeOK /\ ListInv /\ EventInv /\ ToolsRunOnce

LEMMA LoopInit == Init => LoopInv
<1>1. Init => EventInv
  BY DEF Init, EventInv, Bracketed, Quiet
<1>. QED  BY <1>1, TypeInit, ListInit, CountInit DEF LoopInv

LEMMA LoopStep ==
    ASSUME LoopInv, [Next]_vars
    PROVE  LoopInv'
BY TypeStep, ListStep, EventStep, CountStep DEF LoopInv

-----------------------------------------------------------------------------
(* Lists of handlers.                                                      *)

(* h is the i-th of a list, and is there once.                             *)
At(list, h, i) == \A j \in 1 .. Len(list) : list[j] = h <=> j = i

Once(list, h) == \E i \in 1 .. Len(list) : At(list, h, i)

LEMMA SmallestExists ==
    ASSUME NEW S \in SUBSET Nat, S # {}
    PROVE  Min(S) \in S
<1>. DEFINE less == OpToRel(<, Nat)
<1>1. PICK x \in S : \A y \in S : ~ (<< y, x >> \in less)
  <2>. HIDE DEF less
  <2>. QED  BY NatLessThanWellFounded, WFMin DEF less
<1>2. ASSUME NEW y \in Nat, y < x
      PROVE  << y, x >> \in less
  <2>1. x \in Nat /\ << y, x >>[1] = y /\ << y, x >>[2] = x
    OBVIOUS
  <2>. QED  BY <1>2, <2>1, Zenon DEF OpToRel
<1>3. \A y \in S : x <= y
  <2>. HIDE DEF less
  <2>1. \A y \in S : y \in Nat /\ ~ (y < x)
    BY <1>1, <1>2, Zenon
  <2>. QED  BY <2>1
<1>. QED  BY <1>3 DEF Min

(* The sequence of a set has each of its elements once.                    *)
LEMMA ListsEach ==
    ASSUME NEW S, IsFiniteSet(S)
    PROVE  SetToSeq(S) \in Seq(S) /\ \A h \in S : Once(SetToSeq(S), h)
<1>. DEFINE n == Cardinality(S)
            list == SetToSeq(S)
<1>1. n \in Nat /\ Cardinality(1 .. n) = n /\ IsFiniteSet(1 .. n)
  BY FS_CardinalityType, FS_Interval
<1>2. ExistsBijection(1 .. n, S)
  BY FS_NatBijection, FS_CountingElements
<1>3. list \in [1 .. n -> S] /\ IsInjective(list)
  BY <1>2 DEF SetToSeq, ExistsBijection, Bijection, Injection
<1>. HIDE DEF list, n
<1>4. list \in Surjection(1 .. n, S)
  BY <1>1, <1>3, FS_Injection DEF Injection, n
<1>5. list \in Seq(S) /\ Len(list) = n /\ DOMAIN list = 1 .. n
  BY <1>1, <1>3
<1>6. \A h \in S : \E i \in 1 .. n : list[i] = h
  BY <1>4 DEF Surjection
<1>. QED  BY <1>3, <1>5, <1>6 DEF Once, At, IsInjective, list

(* Another handler may come and go: h keeps its place in the order.        *)
LEMMA OthersAppended ==
    ASSUME NEW list \in Seq(Handlers), NEW g \in Handlers, NEW h, g # h, Once(list, h)
    PROVE  Once(Append(list, g), h)
<1>1. PICK i \in 1 .. Len(list) : At(list, h, i)
  BY DEF Once
<1>2. /\ Len(Append(list, g)) = Len(list) + 1 /\ Append(list, g)[Len(list) + 1] = g
      /\ \A j \in 1 .. Len(list) : Append(list, g)[j] = list[j]
      /\ Len(list) \in Nat
  OBVIOUS
<1>3. At(Append(list, g), h, i) /\ i \in 1 .. Len(Append(list, g))
  BY <1>1, <1>2 DEF At
<1>. QED  BY <1>3 DEF Once

LEMMA OthersRemoved ==
    ASSUME NEW list \in Seq(Handlers), NEW g, Contains(list, g)
    PROVE  /\ RemoveFirst(list, g) \in Seq(Handlers)
           /\ \A h : g # h /\ Once(list, h) => Once(RemoveFirst(list, g), h)
<1>. DEFINE I == {j \in 1 .. Len(list) : list[j] = g}
            left == RemoveFirst(list, g)
<1>1. PICK p \in 1 .. Len(list) : list[p] = g /\ left = RemoveAt(list, p)
  <2>1. I # {} /\ I \in SUBSET Nat
    BY DEF Contains
  <2>2. left = RemoveAt(list, Min(I))
    BY <2>1 DEF RemoveFirst, SelectInSeq
  <2>3. Min(I) \in I
    BY <2>1, SmallestExists
  <2>. QED  BY <2>2, <2>3
<1>. HIDE DEF I, left
<1>. DEFINE before == SubSeq(list, 1, p - 1)
            after == SubSeq(list, p + 1, Len(list))
<1>2. /\ before \in Seq(Handlers) /\ Len(before) = p - 1
      /\ \A j \in 1 .. p - 1 : before[j] = list[j]
  OBVIOUS
<1>3. /\ after \in Seq(Handlers) /\ Len(after) = Len(list) - p
      /\ \A j \in 1 .. Len(list) - p : after[j] = list[p + j]
  OBVIOUS
<1>4. left = before \o after
  BY <1>1 DEF RemoveAt
<1>. HIDE DEF before, after
<1>5. /\ left \in Seq(Handlers) /\ Len(left) = Len(list) - 1
      /\ \A j \in 1 .. Len(list) - 1 : left[j] = IF j < p THEN list[j] ELSE list[j + 1]
  <2>1. Len(left) = Len(list) - 1 /\ left \in Seq(Handlers)
    BY <1>2, <1>3, <1>4
  <2>2. ASSUME NEW j \in 1 .. Len(list) - 1
        PROVE  left[j] = IF j < p THEN list[j] ELSE list[j + 1]
    <3>1. CASE j < p
      <4>1. j \in 1 .. Len(before)
        BY <1>2, <3>1
      <4>. QED  BY <1>2, <1>3, <1>4, <3>1, <4>1
    <3>2. CASE j >= p
      <4>1. j - (p - 1) \in 1 .. Len(after) /\ j - Len(before) = j - (p - 1)
        BY <1>2, <1>3, <3>2
      <4>2. left[j] = after[j - (p - 1)]
        BY <1>2, <1>3, <1>4, <3>2, <4>1
      <4>3. p + (j - (p - 1)) = j + 1
        OBVIOUS
      <4>. QED  BY <1>3, <3>2, <4>1, <4>2, <4>3
    <3>. QED  BY <3>1, <3>2
  <2>. QED  BY <2>1, <2>2
<1>6. ASSUME NEW h, g # h, NEW i \in 1 .. Len(list), At(list, h, i)
      PROVE  Once(left, h)
  <2>. DEFINE k == IF i < p THEN i ELSE i - 1
  <2>1. i # p
    BY <1>1, <1>6 DEF At
  <2>2. k \in 1 .. Len(left)
    BY <1>5, <2>1
  <2>3. \A j \in 1 .. Len(left) : left[j] = h <=> j = k
    <3>1. ASSUME NEW j \in 1 .. Len(left)
          PROVE  left[j] = h <=> j = k
      <4>1. j \in 1 .. Len(list) - 1 /\ j \in 1 .. Len(list) /\ j + 1 \in 1 .. Len(list)
        BY <1>5
      <4>2. left[j] = h <=> IF j < p THEN j = i ELSE j + 1 = i
        BY <1>5, <1>6, <4>1 DEF At
      <4>. QED  BY <2>1, <4>1, <4>2
    <3>. QED  BY <3>1
  <2>. HIDE DEF k
  <2>. QED  BY <2>2, <2>3 DEF Once, At
<1>. QED  BY <1>5, <1>6 DEF Once, left

-----------------------------------------------------------------------------
(* The bus.                                                                *)

(* A steady handler is once in every list.  It has heard everything as     *)
(* soon as its turn in the current emission has come.                      *)
Attentive(h) ==
    /\ \A e \in EventNames : Once(subscribers[e], h)
    /\ called > 0 =>
          \E i \in 1 .. Len(snapshot) :
             At(snapshot, h, i) /\ heard[h] = IF i <= called THEN log ELSE Front(log)
    /\ called = 0 =>
          \/ heard[h] = log
          \/ pc = "raised" /\ log # << >> /\ heard[h] = Front(log)

BusInv ==
    /\ subscribers \in [EventNames -> Seq(Handlers)]
    /\ snapshot \in Seq(Handlers) /\ called \in 0 .. Len(snapshot)
    /\ heard \in [Handlers -> Seq(Event)] /\ steady \subseteq Handlers
    /\ called > 0 => log # << >> /\ event = Last(log)
    /\ \A h \in steady : Attentive(h)

LEMMA BusInvInit == CallInit => BusInv
<1>. SUFFICES ASSUME CallInit
              PROVE  BusInv
  OBVIOUS
<1>1. PICK listening \in SUBSET Handlers :
         subscribers = [e \in EventNames |-> SetToSeq(listening)] /\ steady = listening
  BY DEF CallInit, BusInit
<1>2. IsFiniteSet(listening)
  BY EventBusAssumption, FS_Subset
<1>3. SetToSeq(listening) \in Seq(Handlers) /\ \A h \in listening : Once(SetToSeq(listening), h)
  <2>1. SetToSeq(listening) \in Seq(listening) /\ \A h \in listening : Once(SetToSeq(listening), h)
    BY <1>2, ListsEach
  <2>. QED  BY <2>1
<1>4. snapshot = << >> /\ called = 0 /\ heard = [h \in Handlers |-> << >>] /\ log = << >>
  BY DEF CallInit, BusInit, Init
<1>5. subscribers \in [EventNames -> Seq(Handlers)]
  BY <1>1, <1>3
<1>6. \A h \in steady : Attentive(h)
  BY <1>1, <1>3, <1>4 DEF Attentive
<1>. QED  BY <1>1, <1>4, <1>5, <1>6 DEF BusInv

(* What a step of the loop may emit, and when.                             *)
LEMMA LoopEmits ==
    ASSUME TypeOK, Progress
    PROVE  /\ pc # "raised"
           /\ \/ UNCHANGED log
              \/ \E of \in {"request", "tool"}, what \in {"start", "complete", "error"} :
                    Emit(of, what)
<1>1. CASE Begin \/ Answer \/ AskRaises \/ TakeCalls \/ ToolReturns \/ ToolRaises
  BY <1>1 DEF Begin, StartRequest, Answer, AskRaises, TakeCalls, ToolReturns, ToolRaises
<1>2. CASE Ask \/ ErrorHandled \/ Return \/ Dispatch
  BY <1>2 DEF Ask, ErrorHandled, Return, Dispatch
<1>3. CASE ToolHandled
  BY <1>3, ToolHandledTyped DEF StartRequest
<1>. QED  BY <1>1, <1>2, <1>3 DEF Progress

LEMMA HearsNext ==
    ASSUME BusInv, NEW g \in Handlers, NEW e \in Event, Hear(g, e)
    PROVE  /\ heard' \in [Handlers -> Seq(Event)]
           /\ \A h \in steady : heard'[h] = IF h = g THEN Append(heard[h], e) ELSE heard[h]
<1>1. heard \in [Handlers -> Seq(Event)] /\ steady \subseteq Handlers
  BY DEF BusInv
<1>2. Append(heard[g], e) \in Seq(Event)
  BY <1>1
<1>. QED  BY <1>1, <1>2 DEF Hear

(* A step of the loop comes when all who are to hear the last event have   *)
(* heard it, and has the first of them hear the next one.                  *)
LEMMA OnTheBusKeeps ==
    ASSUME TypeOK, BusInv, Progress, OnTheBus
    PROVE  BusInv'
<1>1. \A h \in steady : heard[h] = log
  BY LoopEmits DEF BusInv, Attentive, OnTheBus, Emitting, Iterated
<1>2. CASE UNCHANGED log
  <2>1. called' = 0 /\ snapshot' = << >> /\ UNCHANGED << subscribers, event, heard, steady >>
    BY <1>2 DEF OnTheBus, LeaveEmission
  <2>2. \A h \in steady' : Attentive(h)'
    BY <1>1, <1>2, <2>1 DEF BusInv, Attentive
  <2>. QED  BY <2>1, <2>2 DEF BusInv
<1>3. CASE log' # log
  <2>1. PICK of \in {"request", "tool"}, what \in {"start", "complete", "error"} :
           Emit(of, what)
    BY <1>3, LoopEmits
  <2>. DEFINE e == Emitted(of, what)
              list == subscribers[e]
  <2>2. e \in Event /\ log \in Seq(Event) /\ log' = Append(log, e) /\ e \in EventNames
    BY <2>1, EmitTyped, CompleteCallAssumption DEF Emit, TypeOK
  <2>. HIDE DEF e
  <2>3. Last(log') = e /\ log' # << >> /\ Front(log') = log /\ log' \in Seq(Event)
    BY <2>2 DEF Last, Front
  <2>4. StartEmission(e)
    BY <1>3, <2>3 DEF OnTheBus
  <2>5. /\ list \in Seq(Handlers) /\ \A h \in steady : Once(list, h)
    BY <2>2 DEF BusInv, Attentive
  <2>6. /\ event' = e /\ snapshot' = list /\ UNCHANGED << subscribers, steady >>
        /\ IF list = << >> THEN called' = 0 /\ UNCHANGED heard
                           ELSE called' = 1 /\ Hear(Head(list), e)
    BY <2>2, <2>4 DEF StartEmission, Listeners
  <2>. HIDE DEF list
  <2>7. CASE list = << >>
    <3>1. steady = {}
      BY <2>5, <2>7 DEF Once
    <3>. QED  BY <2>5, <2>6, <2>7, <3>1 DEF BusInv
  <2>8. CASE list # << >>
    <3>1. Head(list) \in Handlers /\ Head(list) = list[1] /\ Len(list) \in Nat \ {0}
      BY <2>5, <2>8
    <3>2. /\ heard' \in [Handlers -> Seq(Event)]
          /\ \A h \in steady : heard'[h] = IF h = list[1] THEN log' ELSE log
      <4>1. Hear(list[1], e)
        BY <2>6, <2>8, <3>1
      <4>2. /\ heard' \in [Handlers -> Seq(Event)]
            /\ \A h \in steady : heard'[h] = IF h = list[1] THEN Append(heard[h], e) ELSE heard[h]
        BY <2>2, <3>1, <4>1, HearsNext
      <4>. QED  BY <1>1, <2>2, <4>2
    <3>3. ASSUME NEW h \in steady
          PROVE  \E i \in 1 .. Len(list) :
                    At(list, h, i) /\ heard'[h] = IF i <= 1 THEN log' ELSE log
      <4>1. PICK i \in 1 .. Len(list) : At(list, h, i)
        BY <2>5 DEF Once
      <4>2. i <= 1 <=> h = list[1]
        BY <3>1, <4>1 DEF At
      <4>. QED  BY <3>2, <4>1, <4>2
    <3>4. \A h \in steady' : Attentive(h)'
      BY <2>3, <2>6, <2>8, <3>3 DEF BusInv, Attentive
    <3>. QED  BY <2>3, <2>5, <2>6, <2>8, <3>1, <3>2, <3>4 DEF BusInv
  <2>. QED  BY <2>7, <2>8
<1>. QED  BY <1>2, <1>3

(* The next handler hears what the others have heard.                      *)
LEMMA HandlerEndsKeeps ==
    ASSUME TypeOK, BusInv, HandlerEnds, UNCHANGED << log, pc >>
    PROVE  BusInv'
<1>1. /\ called > 0 /\ called < Len(snapshot) /\ called \in Nat /\ called' = called + 1
      /\ log # << >> /\ event = Last(log) /\ log \in Seq(Event)
      /\ UNCHANGED << subscribers, event, snapshot, steady >>
  BY DEF HandlerEnds, Emitting, Iterated, BusInv, TypeOK
<1>2. Append(Front(log), event) = log /\ event \in Event
  BY <1>1 DEF Front, Last
<1>3. snapshot[called + 1] \in Handlers
  BY <1>1 DEF BusInv
<1>4. /\ heard' \in [Handlers -> Seq(Event)]
      /\ \A h \in steady : heard'[h] = IF h = snapshot[called + 1] THEN Append(heard[h], event)
                                                                  ELSE heard[h]
  BY <1>2, <1>3, HearsNext DEF HandlerEnds, Iterated
<1>5. ASSUME NEW h \in steady
      PROVE  Attentive(h)'
  <2>1. PICK i \in 1 .. Len(snapshot) :
           At(snapshot, h, i) /\ heard[h] = IF i <= called THEN log ELSE Front(log)
    BY <1>1 DEF BusInv, Attentive
  <2>2. h = snapshot[called + 1] <=> i = called + 1
    BY <1>1, <2>1 DEF At, BusInv
  <2>3. heard'[h] = IF i <= called + 1 THEN log ELSE Front(log)
    <3>1. CASE i = called + 1
      <4>1. ~ (i <= called)
        BY <1>1, <3>1
      <4>2. heard[h] = Front(log) /\ h = snapshot[called + 1]
        BY <2>1, <2>2, <3>1, <4>1
      <4>3. heard'[h] = Append(Front(log), event)
        BY <1>4, <4>2
      <4>. QED  BY <1>1, <1>2, <3>1, <4>3
    <3>2. CASE i # called + 1
      <4>1. heard'[h] = heard[h] /\ (i <= called <=> i <= called + 1)
        BY <1>1, <1>4, <2>2, <3>2
      <4>. QED  BY <2>1, <4>1
    <3>. QED  BY <3>1, <3>2
  <2>. QED  BY <1>1, <2>1, <2>3 DEF BusInv, Attentive
<1>. QED  BY <1>1, <1>4, <1>5 DEF BusInv

(* Who comes or goes is not steady from then on.                           *)
LEMMA SubscribingKeeps ==
    ASSUME BusInv, NEW e \in EventNames, NEW g \in Handlers, On(e, g) \/ Off(e, g),
           UNCHANGED << log, pc >>
    PROVE  BusInv'
<1>1. /\ steady' = steady \ {g} /\ heard' = [heard EXCEPT ![g] = << >>]
      /\ UNCHANGED << event, snapshot, called >>
  BY DEF On, Off, Unsteady
<1>2. subscribers[e] \in Seq(Handlers)
  BY DEF BusInv
<1>3. PICK list \in Seq(Handlers) :
         /\ subscribers' = [subscribers EXCEPT ![e] = list]
         /\ \A h \in steady : h # g => Once(list, h)
  <2>1. CASE On(e, g)
    <3>1. Append(subscribers[e], g) \in Seq(Handlers)
      BY <1>2
    <3>2. \A h \in steady : h # g => Once(Append(subscribers[e], g), h)
      BY <1>2, OthersAppended DEF BusInv, Attentive
    <3>. QED  BY <2>1, <3>1, <3>2 DEF On
  <2>2. CASE Off(e, g)
    <3>1. /\ RemoveFirst(subscribers[e], g) \in Seq(Handlers)
          /\ \A h : g # h /\ Once(subscribers[e], h) => Once(RemoveFirst(subscribers[e], g), h)
      BY <1>2, <2>2, OthersRemoved DEF Off
    <3>2. \A h \in steady : h # g => Once(RemoveFirst(subscribers[e], g), h)
      BY <3>1 DEF BusInv, Attentive
    <3>. QED  BY <2>2, <3>1, <3>2 DEF Off
  <2>. QED  BY <2>1, <2>2
<1>4. /\ subscribers' \in [EventNames -> Seq(Handlers)]
      /\ heard' \in [Handlers -> Seq(Event)]
      /\ \A h \in steady : h # g => heard'[h] = heard[h]
  BY <1>1, <1>3 DEF BusInv
<1>5. ASSUME NEW h \in steady'
      PROVE  Attentive(h)'
  <2>1. h \in steady /\ h # g /\ heard'[h] = heard[h]
    BY <1>1, <1>4
  <2>2. \A d \in EventNames : Once(subscribers'[d], h)
    BY <1>3, <2>1 DEF BusInv, Attentive
  <2>. QED  BY <1>1, <2>1, <2>2 DEF BusInv, Attentive
<1>. QED  BY <1>1, <1>4, <1>5 DEF BusInv

-----------------------------------------------------------------------------
(* The registry.                                                           *)

(* No reply comes before each tool was described, no tool that was         *)
(* described is forgotten, and none is called in another way than it was   *)
(* described.                                                              *)
SchemaInv ==
    /\ registry \in [ToolNames -> Functions \cup {Unknown}]
    /\ offered \in [ToolNames -> Functions \cup {Unknown}]
    /\ \A name \in ToolNames : offered[name] \in Functions => registry[name] \in Functions
    /\ pc \in {"answered"} \cup ToolSteps => Offerable
    /\ pc = "dispatching" =>
          /\ call.offered \in Functions /\ call.func \in Functions
          /\ call.arguments \in Honouring(call.offered)

(* A function that can be called by name is described as it is.            *)
LEMMA DescribedAsCallable ==
    ASSUME NEW func \in Functions, Callable(func)
    PROVE  Describes(Schema(func), func)
<1>1. \A p \in DOMAIN func :
         func[p] \in Parameter /\ p # "self" /\ func[p].kind # "positional_only"
  BY ToolRegistryAssumption DEF Callable
<1>. QED  BY <1>1 DEF Describes, Schema, Parameter

(* What fits the schema of one function takes the calls that keep to it.   *)
LEMMA FittingTakesCalls ==
    ASSUME NEW told \in Functions, NEW func \in Functions, Describes(Schema(told), func),
           NEW arguments \in Honouring(told)
    PROVE  Accepts(func, arguments)
BY DEF Describes, Honouring, Accepts

-----------------------------------------------------------------------------
(* The call as a whole.                                                    *)

(* Whatever happens around it, the loop takes its own steps.               *)
LEMMA CallLoops ==
    ASSUME [CallNext]_callVars
    PROVE  /\ [Next]_vars
           /\ \/ Progress /\ OnTheBus
              \/ UNCHANGED vars
              \/ Cancelled /\ LeaveEmission
<1>1. CASE UNCHANGED callVars
  BY <1>1 DEF callVars
<1>2. CASE AskProvider \/ ProviderAnswers \/ DispatchTool \/ ToolSucceeds \/ OtherSteps
  BY <1>2 DEF AskProvider, ProviderAnswers, DispatchTool, ToolSucceeds, OtherSteps,
     Next, Progress
<1>3. CASE NextHandler \/ AskAgain \/ Change
  BY <1>3 DEF NextHandler, AskAgain, Change
<1>4. CASE CallCancelled
  BY <1>4 DEF CallCancelled, Next
<1>. QED  BY <1>1, <1>2, <1>3, <1>4 DEF CallNext, CallProgress

CallInv == LoopInv /\ BusInv /\ SchemaInv

LEMMA BusStep ==
    ASSUME TypeOK, BusInv, [CallNext]_callVars
    PROVE  BusInv'
<1>1. CASE Progress /\ OnTheBus
  BY <1>1, OnTheBusKeeps
<1>2. CASE UNCHANGED << vars, busVars >>
  BY <1>2 DEF vars, busVars, BusInv, Attentive
<1>3. CASE CallCancelled
  <2>1. /\ UNCHANGED << log, subscribers, event, heard, steady >>
        /\ called' = 0 /\ snapshot' = << >> /\ pc' = "raised"
    BY <1>3 DEF CallCancelled, Cancelled, LeaveEmission
  <2>2. \A h \in steady' : Attentive(h)'
    BY <2>1 DEF BusInv, Attentive
  <2>. QED  BY <2>1, <2>2 DEF BusInv
<1>4. CASE NextHandler
  BY <1>4, HandlerEndsKeeps DEF NextHandler, vars
<1>5. CASE Change
  <2>1. UNCHANGED << log, pc >>
    BY <1>5 DEF Change, vars
  <2>2. \/ \E e \in EventNames, h \in Handlers : On(e, h) \/ Off(e, h)
        \/ UNCHANGED << vars, busVars >>
    BY <1>5 DEF Change
  <2>. QED  BY <1>2, <2>1, <2>2, SubscribingKeeps
<1>6. CASE UNCHANGED callVars \/ AskAgain
  BY <1>2, <1>6 DEF callVars, AskAgain
<1>7. CASE AskProvider \/ ProviderAnswers \/ DispatchTool \/ ToolSucceeds \/ OtherSteps
  BY <1>1, <1>7 DEF AskProvider, ProviderAnswers, DispatchTool, ToolSucceeds, OtherSteps, Progress
<1>. QED  BY <1>3, <1>4, <1>5, <1>6, <1>7 DEF CallNext, CallProgress

LEMMA SchemaStep ==
    ASSUME LoopInv, SchemaInv, [CallNext]_callVars
    PROVE  SchemaInv'
<1>. USE DEF ToolSteps
<1>1. CASE UNCHANGED callVars
  BY <1>1 DEF callVars, vars, ownVars, SchemaInv, Offerable
<1>2. CASE AskProvider
  BY <1>2 DEF AskProvider, Ask, Offer, SchemaInv
<1>3. CASE AskAgain
  BY <1>3 DEF AskAgain, vars, Offer, SchemaInv
<1>4. CASE ProviderAnswers
  BY <1>4 DEF ProviderAnswers, Answer, ownVars, SchemaInv, Offerable
<1>5. CASE DispatchTool
  <2>1. PICK name \in ToolNames : \E arguments \in Honouring(offered[name]) :
           call' = [func |-> registry[name], offered |-> offered[name], arguments |-> arguments]
    BY <1>5 DEF DispatchTool
  <2>2. tools /\ offered[name] # Unknown
    BY <1>5 DEF DispatchTool, Dispatch, LoopInv, ListInv, SchemaInv, Offerable
  <2>3. offered[name] \in Functions /\ registry[name] \in Functions
    BY <2>2 DEF SchemaInv
  <2>. QED  BY <1>5, <2>1, <2>3 DEF DispatchTool, Dispatch, SchemaInv, Offerable
<1>6. CASE ToolSucceeds
  BY <1>6 DEF ToolSucceeds, ToolReturns, ownVars, SchemaInv, Offerable
<1>7. CASE OtherSteps
  <2>1. UNCHANGED << registry, offered, call, tools >>
    BY <1>7, ToolHandledTyped
    DEF OtherSteps, ownVars, Begin, AskRaises, ErrorHandled, Return, TakeCalls, ToolRaises, LoopInv
  <2>2. pc' # "dispatching" /\ (pc' \in ToolSteps \cup {"answered"} =>
                                    pc \in ToolSteps \cup {"answered"})
    BY <1>7, ToolHandledTyped
    DEF OtherSteps, Begin, StartRequest, AskRaises, ErrorHandled, Return, TakeCalls, ToolRaises,
        LoopInv
  <2>. QED  BY <2>1, <2>2 DEF SchemaInv, Offerable
<1>8. CASE NextHandler
  BY <1>8 DEF NextHandler, vars, ownVars, SchemaInv, Offerable
<1>9. CASE CallCancelled
  BY <1>9 DEF CallCancelled, Cancelled, ownVars, SchemaInv, Offerable
<1>10. CASE Change
  <2>1. /\ registry' \in [ToolNames -> Functions \cup {Unknown}]
        /\ \A name \in ToolNames :
              registry[name] \in Functions => registry'[name] \in Functions
    BY <1>10 DEF Change, RegisterTool, SchemaInv
  <2>. QED  BY <1>10, <2>1 DEF Change, vars, SchemaInv, Offerable
<1>. QED  BY <1>1, <1>2, <1>3, <1>4, <1>5, <1>6, <1>7, <1>8, <1>9, <1>10
          DEF CallNext, CallProgress

LEMMA CallInvariant == CallSpec => []CallInv
<1>1. CallInit => CallInv
  <2>1. CallInit => SchemaInv
    BY DEF CallInit, Init, RegistryInit, SchemaInv, ToolSteps
  <2>. QED  BY <2>1, LoopInit, BusInvInit DEF CallInit, CallInv
<1>2. CallInv /\ [CallNext]_callVars => CallInv'
  BY CallLoops, LoopStep, BusStep, SchemaStep DEF CallInv, LoopInv
<1>. QED  BY <1>1, <1>2, PTL DEF CallSpec

-----------------------------------------------------------------------------

LEMMA LoopInvariant == Spec => []LoopInv
<1>1. LoopInv /\ [Next]_vars => LoopInv'
  BY LoopStep
<1>. QED  BY <1>1, LoopInit, PTL DEF Spec

(* The variables of the tool loop keep their types.                        *)
THEOREM LoopTypeCorrect == Spec => []TypeOK
<1>1. LoopInv => TypeOK
  BY DEF LoopInv
<1>. QED  BY <1>1, LoopInvariant, PTL

(* client.py, Aether.complete: however its tools fail and however many     *)
(* calls a reply asks for, each request is a list that a provider accepts. *)
THEOREM RequestsSendable == Spec => []RequestsResolved
<1>1. LoopInv => RequestsResolved
  BY DEF LoopInv, ListInv, RequestsResolved
<1>. QED  BY <1>1, LoopInvariant, PTL

(* Each tool call that is announced is run once, and no other is.          *)
THEOREM EachCallOnce == Spec => []ToolsRunOnce
<1>1. LoopInv => ToolsRunOnce
  BY DEF LoopInv
<1>. QED  BY <1>1, LoopInvariant, PTL

(* README.md, "The 10 events": whenever the call is stopped, a subscriber  *)
(* has seen starts, each with its own end next to it.                      *)
THEOREM EventsInBrackets == Spec => []EventsBracketed
<1>1. LoopInv => EventsBracketed
  BY DEF LoopInv, EventInv, EventsBracketed
<1>. QED  BY <1>1, LoopInvariant, PTL

(* A call that shares its bus and its registry with the rest of the        *)
(* process is still an execution of the tool loop: what is proved of the   *)
(* loop holds of it, whoever subscribes and registers meanwhile.           *)
THEOREM CallRunsLoop == CallSpec => Spec
<1>1. CallInit => Init
  BY DEF CallInit
<1>2. [CallNext]_callVars => [Next]_vars
  BY CallLoops
<1>. QED  BY <1>1, <1>2, PTL DEF CallSpec, Spec

(* The caller's list can be sent again when the call is over, unless it    *)
(* was stopped within the calls of one reply.                              *)
THEOREM ListIsLeftWhole == CallSpec => []ListLeftWhole
<1>1. CallInv => ListLeftWhole
  <2>1. SUFFICES ASSUME CallInv, todo = << >>
                 PROVE  Resolved(messages)
    BY DEF ListLeftWhole
  <2>2. ResolvedAfter(messages, << >>) /\ messages \in Seq(Message)
    BY <2>1 DEF CallInv, LoopInv, ListInv, TypeOK
  <2>. QED  BY <2>2, NothingAfter
<1>. QED  BY <1>1, CallInvariant, PTL

(* tools/schema.py, dispatch_tool: the schema of a function that can be    *)
(* called by name fits it, and a call that keeps to the schema it was made *)
(* by is taken by whatever function has the name when it is dispatched, as *)
(* long as that one fits the schema too.  For any functions, and any       *)
(* registrations between the offer and the call.                           *)
THEOREM SchemasAreTrue == CallSpec => []SchemaTellsTheTruth
<1>1. CallInv => SchemaTellsTheTruth
  <2>1. SUFFICES ASSUME CallInv, pc = "dispatching"
                 PROVE  /\ call.func \in Functions
                        /\ Callable(call.offered) => Describes(Schema(call.offered), call.offered)
                        /\ Describes(Schema(call.offered), call.func)
                              => Accepts(call.func, call.arguments)
    BY DEF SchemaTellsTheTruth
  <2>2. /\ call.offered \in Functions /\ call.func \in Functions
        /\ call.arguments \in Honouring(call.offered)
    BY <2>1 DEF CallInv, SchemaInv
  <2>. QED  BY <2>2, DescribedAsCallable, FittingTakesCalls
<1>. QED  BY <1>1, CallInvariant, PTL

(* events.py, emit: a handler that listens to everything all the time      *)
(* hears all that is emitted, once and in order, whoever else subscribes,  *)
(* unsubscribes, or raises during the dispatch.                            *)
THEOREM SteadyHandlersHear == CallSpec => []SteadyHandlersHearAll
<1>1. CallInv => SteadyHandlersHearAll
  <2>1. SUFFICES ASSUME CallInv, NEW h \in steady
                 PROVE  \/ heard[h] = log
                        \/ /\ Emitting \/ pc = "raised"
                           /\ log # << >> /\ heard[h] = Front(log)
    BY DEF SteadyHandlersHearAll
  <2>2. Attentive(h) /\ called \in Nat /\ Len(snapshot) \in Nat
    BY <2>1 DEF CallInv, BusInv
  <2>3. CASE called = 0
    BY <2>2, <2>3 DEF Attentive
  <2>4. CASE called > 0
    <3>1. PICK i \in 1 .. Len(snapshot) : heard[h] = IF i <= called THEN log ELSE Front(log)
      BY <2>2, <2>4 DEF Attentive
    <3>2. i > called => Emitting /\ log # << >>
      BY <2>1, <2>2, <2>4 DEF Emitting, Iterated, CallInv, BusInv
    <3>. QED  BY <2>2, <3>1, <3>2
  <2>. QED  BY <2>2, <2>3, <2>4
<1>. QED  BY <1>1, CallInvariant, PTL
=============================================================================
