------------------------- MODULE ToolMessagesProofs -------------------------
(***************************************************************************)
(* Lemmas about message lists and event logs, for the proofs about the two *)
(* tool loops.                                                             *)
(***************************************************************************)
EXTENDS ToolMessages, FiniteSetTheorems, TLAPS

(* The results that the calls with these ids will have.                    *)
Results(ids) == [j \in 1 .. Len(ids) |-> ToolResult(ids[j])]

(* A list that will be Resolved as soon as todo has been done.             *)
ResolvedAfter(list, todo) == Resolved(list \o Results(todo))

(* The messages of a list, and the results that are to follow.             *)
LEMMA ElementsAfter ==
    ASSUME NEW list \in Seq(Message), NEW todo \in Seq(CallIds)
    PROVE  /\ Results(todo) \in Seq(Message) /\ Len(Results(todo)) = Len(todo)
           /\ list \o Results(todo) \in Seq(Message)
           /\ Len(list \o Results(todo)) = Len(list) + Len(todo)
           /\ \A i \in 1 .. Len(list) : (list \o Results(todo))[i] = list[i]
           /\ \A j \in 1 .. Len(todo) :
                 (list \o Results(todo))[Len(list) + j] = ToolResult(todo[j])
<1>1. \A j \in 1 .. Len(todo) : ToolResult(todo[j]) \in Message
  BY DEF ToolResult, Message
<1>2. Results(todo) \in Seq(Message) /\ Len(Results(todo)) = Len(todo)
  BY <1>1 DEF Results
<1>3. \A j \in 1 .. Len(todo) : Results(todo)[j] = ToolResult(todo[j])
  BY DEF Results
<1>. QED  BY <1>2, <1>3

(* Nothing is to follow.                                                   *)
LEMMA NothingAfter ==
    ASSUME NEW list \in Seq(Message)
    PROVE  ResolvedAfter(list, << >>) <=> Resolved(list)
<1>1. Results(<< >>) = << >>
  BY DEF Results
<1>2. list \o << >> = list
  OBVIOUS
<1>. QED  BY <1>1, <1>2 DEF ResolvedAfter

(* A request for tools makes a resolved list one that awaits its calls.    *)
LEMMA RequestAppended ==
    ASSUME NEW list \in Seq(Message), NEW calls \in Seq(CallIds), Resolved(list)
    PROVE  /\ Append(list, ToolRequest(calls)) \in Seq(Message)
           /\ ResolvedAfter(Append(list, ToolRequest(calls)), calls)
<1>. DEFINE n == Len(list)
            asked == Append(list, ToolRequest(calls))
            whole == asked \o Results(calls)
<1>1. /\ asked \in Seq(Message) /\ Len(asked) = n + 1 /\ n \in Nat
      /\ \A i \in 1 .. n : asked[i] = list[i]
      /\ asked[n + 1] = ToolRequest(calls)
  BY DEF ToolRequest, Message
<1>2. /\ Len(whole) = n + 1 + Len(calls) /\ Len(calls) \in Nat
      /\ \A i \in 1 .. n + 1 : whole[i] = asked[i]
      /\ \A j \in 1 .. Len(calls) : whole[n + 1 + j] = ToolResult(calls[j])
  <2>1. /\ Len(whole) = Len(asked) + Len(calls)
        /\ \A i \in 1 .. Len(asked) : whole[i] = asked[i]
        /\ \A j \in 1 .. Len(calls) : whole[Len(asked) + j] = ToolResult(calls[j])
    BY <1>1, ElementsAfter
  <2>. HIDE DEF asked, whole
  <2>. QED  BY <1>1, <2>1
<1>3. /\ \A i \in 1 .. n : whole[i] = list[i]
      /\ whole[n + 1].role = "assistant" /\ whole[n + 1].ids = calls
  BY <1>1, <1>2 DEF ToolRequest
<1>4. \A k \in 1 .. Len(whole) : k \in 1 .. n \/ k = n + 1 \/ k - (n + 1) \in 1 .. Len(calls)
  BY <1>1, <1>2
<1>. HIDE DEF whole, asked
<1>5. ASSUME NEW i \in 1 .. Len(whole), whole[i].role = "assistant",
             NEW j \in 1 .. Len(whole[i].ids)
      PROVE  i + j <= Len(whole) /\ whole[i + j] = ToolResult(whole[i].ids[j])
  <2>1. CASE i \in 1 .. n
    <3>1. whole[i] = list[i]
      BY <1>3, <2>1
    <3>2. list[i].role = "assistant" /\ j \in 1 .. Len(list[i].ids) /\ i \in 1 .. Len(list)
      BY <1>5, <2>1, <3>1
    <3>3. i + j <= n /\ list[i + j] = ToolResult(list[i].ids[j])
      BY <3>2 DEF Resolved
    <3>4. i + j \in 1 .. n
      BY <2>1, <3>2, <3>3, <1>1
    <3>. QED  BY <1>1, <1>2, <1>3, <3>1, <3>3, <3>4
  <2>2. CASE i = n + 1
    BY <1>2, <1>3, <2>2
  <2>3. CASE i - (n + 1) \in 1 .. Len(calls)
    <3>1. i = n + 1 + (i - (n + 1))
      BY <1>1
    <3>2. whole[i] = ToolResult(calls[i - (n + 1)])
      BY <1>2, <2>3, <3>1
    <3>. QED  BY <1>5, <3>2 DEF ToolResult
  <2>. QED  BY <1>4, <2>1, <2>2, <2>3
<1>6. ASSUME NEW k \in 1 .. Len(whole), whole[k].role = "tool"
      PROVE  \E i \in 1 .. k - 1 :
                whole[i].role = "assistant" /\ k <= i + Len(whole[i].ids)
  <2>1. CASE k \in 1 .. n
    <3>1. PICK i \in 1 .. k - 1 : list[i].role = "assistant" /\ k <= i + Len(list[i].ids)
      BY <1>1, <1>3, <1>6, <2>1 DEF Resolved
    <3>2. whole[i] = list[i]
      BY <1>1, <1>3, <2>1
    <3>. QED  BY <3>1, <3>2
  <2>2. CASE k = n + 1
    BY <1>3, <1>6, <2>2
  <2>3. CASE k - (n + 1) \in 1 .. Len(calls)
    <3>1. n + 1 \in 1 .. k - 1 /\ k <= n + 1 + Len(calls)
      BY <1>1, <1>2, <2>3
    <3>. QED  BY <1>3, <3>1
  <2>. QED  BY <1>4, <2>1, <2>2, <2>3
<1>7. Resolved(whole)
  BY <1>5, <1>6 DEF Resolved
<1>. QED  BY <1>1, <1>7 DEF ResolvedAfter, whole, asked

(* The result of the first of the calls to do is what the list awaits.     *)
LEMMA ResultAppended ==
    ASSUME NEW list \in Seq(Message), NEW todo \in Seq(CallIds), todo # << >>,
           ResolvedAfter(list, todo)
    PROVE  /\ Append(list, ToolResult(Head(todo))) \in Seq(Message)
           /\ Tail(todo) \in Seq(CallIds)
           /\ ResolvedAfter(Append(list, ToolResult(Head(todo))), Tail(todo))
<1>. DEFINE next == Append(list, ToolResult(Head(todo)))
            before == list \o Results(todo)
            after == next \o Results(Tail(todo))
<1>1. /\ next \in Seq(Message) /\ Len(next) = Len(list) + 1 /\ Len(list) \in Nat
      /\ \A i \in 1 .. Len(list) : next[i] = list[i]
      /\ next[Len(list) + 1] = ToolResult(todo[1])
  BY DEF ToolResult, Message
<1>2. /\ Tail(todo) \in Seq(CallIds) /\ Len(Tail(todo)) = Len(todo) - 1
      /\ \A j \in 1 .. Len(todo) - 1 : Tail(todo)[j] = todo[j + 1]
      /\ Len(todo) \in Nat \ {0}
  OBVIOUS
<1>3. /\ before \in Seq(Message) /\ Len(before) = Len(list) + Len(todo)
      /\ \A i \in 1 .. Len(list) : before[i] = list[i]
      /\ \A j \in 1 .. Len(todo) : before[Len(list) + j] = ToolResult(todo[j])
  BY ElementsAfter
<1>4. /\ after \in Seq(Message) /\ Len(after) = Len(next) + Len(Tail(todo))
      /\ \A i \in 1 .. Len(next) : after[i] = next[i]
      /\ \A j \in 1 .. Len(Tail(todo)) : after[Len(next) + j] = ToolResult(Tail(todo)[j])
  BY <1>1, <1>2, ElementsAfter
<1>. HIDE DEF next, before, after
<1>5. Len(after) = Len(before)
  BY <1>1, <1>2, <1>3, <1>4
<1>6. ASSUME NEW k \in 1 .. Len(before)
      PROVE  after[k] = before[k]
  <2>1. CASE k <= Len(list)
    BY <1>1, <1>3, <1>4, <2>1
  <2>2. CASE k = Len(list) + 1
    BY <1>1, <1>2, <1>3, <1>4, <2>2
  <2>3. CASE k > Len(list) + 1
    <3>. DEFINE j == k - (Len(list) + 1)
    <3>1. /\ j \in 1 .. Len(todo) - 1 /\ j + 1 \in 1 .. Len(todo)
          /\ k = Len(next) + j /\ k = Len(list) + (j + 1)
      BY <1>1, <1>2, <1>3, <2>3
    <3>. HIDE DEF j
    <3>2. after[k] = ToolResult(todo[j + 1])
      BY <1>2, <1>4, <3>1
    <3>3. before[k] = ToolResult(todo[j + 1])
      BY <1>3, <3>1
    <3>. QED  BY <3>2, <3>3
  <2>. QED  BY <1>1, <2>1, <2>2, <2>3
<1>7. after = before
  BY <1>3, <1>4, <1>5, <1>6
<1>. QED  BY <1>1, <1>2, <1>7 DEF ResolvedAfter, next, before, after

-----------------------------------------------------------------------------
(* Counting.                                                               *)

(* How many elements of a sequence are in S.                               *)
Count(s, S) == Cardinality({i \in 1 .. Len(s) : s[i] \in S})

LEMMA CountAppended ==
    ASSUME NEW T, NEW s \in Seq(T), NEW S, NEW e \in T
    PROVE  /\ Count(s, S) \in Nat
           /\ Count(Append(s, e), S) = IF e \in S THEN Count(s, S) + 1 ELSE Count(s, S)
<1>. DEFINE hits == {i \in 1 .. Len(s) : s[i] \in S}
            more == {i \in 1 .. Len(Append(s, e)) : Append(s, e)[i] \in S}
<1>1. IsFiniteSet(hits) /\ Cardinality(hits) \in Nat /\ Len(s) + 1 \notin hits
  <2>1. IsFiniteSet(1 .. Len(s)) /\ hits \subseteq 1 .. Len(s)
    BY FS_Interval
  <2>. QED  BY <2>1, FS_Subset, FS_CardinalityType
<1>2. more = IF e \in S THEN hits \cup {Len(s) + 1} ELSE hits
  <2>1. Append(s, e)[Len(s) + 1] = e /\ Len(Append(s, e)) = Len(s) + 1 /\ Len(s) \in Nat
    OBVIOUS
  <2>2. \A i \in 1 .. Len(s) : Append(s, e)[i] = s[i]
    OBVIOUS
  <2>3. 1 .. Len(s) + 1 = (1 .. Len(s)) \cup {Len(s) + 1} /\ Len(s) + 1 \notin 1 .. Len(s)
    BY <2>1
  <2>. QED  BY <2>1, <2>2, <2>3
<1>3. Cardinality(more) = IF e \in S THEN Cardinality(hits) + 1 ELSE Cardinality(hits)
  BY <1>1, <1>2, FS_AddElement
<1>. QED  BY <1>1, <1>3 DEF Count

LEMMA CountNone ==
    ASSUME NEW S
    PROVE  Count(<< >>, S) = 0
<1>1. {i \in 1 .. Len(<< >>) : << >>[i] \in S} = {}
  OBVIOUS
<1>. QED  BY <1>1, FS_EmptySet DEF Count

-----------------------------------------------------------------------------
(* Brackets.                                                               *)

(* The last event is the start of something, or nothing is under way.      *)
Under(log, of) == log # << >> /\ Last(log) = Emitted(of, "start")

Quiet(log) == log = << >> \/ Last(log).what # "start"

Fits(log, event) ==
    \/ Quiet(log) /\ event.what = "start"
    \/ \E of \in {"request", "tool", "stream"} :
          Under(log, of) /\ event \in {Emitted(of, "complete"), Emitted(of, "error")}

LEMMA BracketAppended ==
    ASSUME NEW log \in Seq(Event), NEW event \in Event, Bracketed(log), Fits(log, event)
    PROVE  /\ Append(log, event) \in Seq(Event) /\ Last(Append(log, event)) = event
           /\ Bracketed(Append(log, event))
<1>. DEFINE n == Len(log)
            more == Append(log, event)
<1>1. /\ more \in Seq(Event) /\ Len(more) = n + 1 /\ n \in Nat
      /\ \A i \in 1 .. n : more[i] = log[i]
      /\ more[n + 1] = event
  OBVIOUS
<1>. HIDE DEF more
<1>2. n > 0 => Last(log) = log[n] /\ log[n] \in Event /\ log # << >>
  BY DEF Last
<1>3. ASSUME NEW i \in 1 .. n + 1
      PROVE  /\ more[i].what = "start" /\ i < n + 1 =>
                   more[i + 1] \in {Emitted(more[i].of, "complete"), Emitted(more[i].of, "error")}
             /\ more[i].what # "start" =>
                   i > 1 /\ more[i - 1] = Emitted(more[i].of, "start")
  <2>1. CASE i < n
    <3>1. i \in 1 .. n /\ i + 1 \in 1 .. n /\ (i > 1 => i - 1 \in 1 .. n)
      BY <1>1, <2>1
    <3>. QED  BY <1>1, <2>1, <3>1 DEF Bracketed
  <2>2. CASE i = n
    <3>1. i \in 1 .. n /\ n > 0 /\ (i > 1 => i - 1 \in 1 .. n)
      BY <1>1, <2>2
    <3>2. more[i].what = "start" =>
             more[i + 1] \in {Emitted(more[i].of, "complete"), Emitted(more[i].of, "error")}
      BY <1>1, <1>2, <2>2, <3>1 DEF Fits, Under, Quiet, Emitted
    <3>. QED  BY <1>1, <3>1, <3>2 DEF Bracketed
  <2>3. CASE i = n + 1 /\ event.what # "start"
    <3>1. PICK of \in {"request", "tool", "stream"} :
             Under(log, of) /\ event \in {Emitted(of, "complete"), Emitted(of, "error")}
      BY <2>3 DEF Fits
    <3>2. n > 0 /\ log[n] = Emitted(of, "start") /\ event.of = of
      BY <1>1, <1>2, <3>1 DEF Under, Emitted
    <3>3. n \in 1 .. n
      BY <1>1, <3>2
    <3>. QED  BY <1>1, <2>3, <3>2, <3>3
  <2>4. CASE i = n + 1 /\ event.what = "start"
    BY <1>1, <2>4
  <2>. QED  BY <1>1, <2>1, <2>2, <2>3, <2>4
<1>4. Bracketed(more)
  BY <1>1, <1>3 DEF Bracketed
<1>. QED  BY <1>1, <1>4 DEF Last, more
=============================================================================
