--------------------------- MODULE RetryingProofs ---------------------------
(***************************************************************************)
(* Proofs about Retrying for any number of calls and attempts.  What they  *)
(* say of budgets and outcomes holds as long as no call starts while       *)
(* another is between its attempts: calls that overlap share the state of  *)
(* their retries.                                                          *)
(***************************************************************************)
EXTENDS Retrying, TLAPS

(* How the last attempt of a call ended.                                   *)
LastTried(c) == tried[c][Len(tried[c])]

(* One more attempt of c is on record.                                     *)
LEMMA TriedOnce ==
    ASSUME TypeOK, NEW c \in Calls, NEW result \in {"ok", "fatal"} \cup Retryable,
           tried' = [tried EXCEPT ![c] = Append(@, result)]
    PROVE  /\ tried' \in [Calls -> Seq({"ok", "fatal"} \cup Retryable)]
           /\ \A d \in Calls : d # c => tried'[d] = tried[d]
           /\ Len(tried'[c]) = Len(tried[c]) + 1
           /\ LastTried(c)' = result
           /\ \A i \in 1 .. Len(tried[c]) : tried'[c][i] = tried[c][i]
<1>1. tried[c] \in Seq({"ok", "fatal"} \cup Retryable)
  BY DEF TypeOK
<1>2. tried'[c] = Append(tried[c], result) /\ \A d \in Calls : d # c => tried'[d] = tried[d]
  BY DEF TypeOK
<1>3. tried' \in [Calls -> Seq({"ok", "fatal"} \cup Retryable)]
  <2>1. Append(tried[c], result) \in Seq({"ok", "fatal"} \cup Retryable)
    BY <1>1
  <2>. QED  BY <2>1 DEF TypeOK
<1>. QED  BY <1>1, <1>2, <1>3 DEF LastTried

-----------------------------------------------------------------------------
(* Types, for calls that overlap as well.                                  *)

(* Wherever the shared state leads a call, it stays within max_attempts,   *)
(* and only the call itself moves.                                         *)
LEMMA IterateTyped ==
    ASSUME TypeOK, NEW c \in Calls, NEW first \in BOOLEAN,
           NEW outcomes \in [Calls -> {"none", "ok", "fatal"} \cup Retryable],
           Iterate(c, outcomes, first)
    PROVE  /\ manager' \in [Calls -> Calls]
           /\ attempt' \in [Calls -> 1 .. MaxAttempts]
           /\ outcome' \in [Calls -> {"none", "ok", "fatal"} \cup Retryable]
           /\ \E location \in {"trying", "sleeping", "yielding", "raised", "nothing"} :
                 Goto(c, location)
<1>1. current \in Calls /\ manager \in [Calls -> Calls] /\ attempt \in [Calls -> 1 .. MaxAttempts]
  BY DEF TypeOK
<1>2. attempt[current] < MaxAttempts => attempt[current] + 1 \in 1 .. MaxAttempts
  BY <1>1, RetryingAssumption
<1>3. /\ manager' \in [Calls -> Calls]
      /\ outcome' \in [Calls -> {"none", "ok", "fatal"} \cup Retryable]
  BY <1>1 DEF Iterate
<1>4. attempt' \in [Calls -> 1 .. MaxAttempts]
  BY <1>1, <1>2 DEF Iterate, Budget
<1>5. \E location \in {"trying", "sleeping", "yielding", "raised", "nothing"} :
         Goto(c, location)
  BY DEF Iterate, LoopEnds, GiveUp
<1>. QED  BY <1>3, <1>4, <1>5

(* What going on does to the calls: only the call itself moves, and it was *)
(* not over.                                                               *)
LEMMA GoOnFrame ==
    ASSUME TypeOK, NEW c \in Calls, GoOn(c)
    PROVE  /\ TypeOK' /\ UNCHANGED kind
           /\ pc[c] \in {"trying", "sleeping", "yielding"} /\ pc'[c] # "idle"
           /\ \A d \in Calls : d # c => pc'[d] = pc[d] /\ tried'[d] = tried[d]
<1>1. ASSUME NEW location \in {"trying", "sleeping", "yielding", "returned", "raised",
                              "broken", "cancelled", "nothing"},
             Goto(c, location)
      PROVE  /\ pc' \in [Calls -> {"idle", "trying", "sleeping", "yielding", "returned",
                                   "broken", "raised", "cancelled", "nothing"}]
             /\ pc'[c] = location /\ \A d \in Calls : d # c => pc'[d] = pc[d]
  BY <1>1 DEF Goto, TypeOK
<1>2. ASSUME NEW result \in {"ok", "fatal"} \cup Retryable
      PROVE  Report(c, result) \in [Calls -> {"none", "ok", "fatal"} \cup Retryable]
  BY DEF Report, TypeOK
<1>3. CASE AttemptFails(c)
  <2>1. PICK failure \in Failures(c) :
           /\ tried' = [tried EXCEPT ![c] = Append(@, failure)]
           /\ Iterate(c, Report(c, failure), got[c])
           /\ UNCHANGED << kind, current, got >>
    BY <1>3 DEF AttemptFails
  <2>2. failure \in {"ok", "fatal"} \cup Retryable
    BY DEF Failures
  <2>3. pc[c] = "trying" /\ got[c] \in BOOLEAN
    BY <1>3 DEF AttemptFails, TypeOK
  <2>4. /\ manager' \in [Calls -> Calls]
        /\ attempt' \in [Calls -> 1 .. MaxAttempts]
        /\ outcome' \in [Calls -> {"none", "ok", "fatal"} \cup Retryable]
        /\ \E location \in {"trying", "sleeping", "yielding", "raised", "nothing"} :
              Goto(c, location)
    BY <1>2, <2>1, <2>2, <2>3, IterateTyped
  <2>5. /\ tried' \in [Calls -> Seq({"ok", "fatal"} \cup Retryable)]
        /\ \A d \in Calls : d # c => tried'[d] = tried[d]
    BY <2>1, <2>2, TriedOnce
  <2>. QED  BY <1>1, <2>1, <2>3, <2>4, <2>5 DEF TypeOK
<1>4. CASE Answered(c)
  BY <1>1, <1>2, <1>4, TriedOnce DEF Answered, TypeOK
<1>5. CASE FirstChunk(c)
  <2>1. /\ tried' = [tried EXCEPT ![c] = Append(@, "ok")]
        /\ got' = [got EXCEPT ![c] = TRUE]
        /\ Iterate(c, Report(c, "ok"), TRUE)
        /\ UNCHANGED << kind, current >> /\ pc[c] = "trying"
    BY <1>5 DEF FirstChunk
  <2>2. /\ manager' \in [Calls -> Calls]
        /\ attempt' \in [Calls -> 1 .. MaxAttempts]
        /\ outcome' \in [Calls -> {"none", "ok", "fatal"} \cup Retryable]
        /\ \E location \in {"trying", "sleeping", "yielding", "raised", "nothing"} :
              Goto(c, location)
    BY <1>2, <2>1, IterateTyped
  <2>3. /\ tried' \in [Calls -> Seq({"ok", "fatal"} \cup Retryable)]
        /\ \A d \in Calls : d # c => tried'[d] = tried[d]
    BY <2>1, TriedOnce
  <2>. QED  BY <1>1, <2>1, <2>2, <2>3 DEF TypeOK
<1>6. CASE Wake(c)
  <2>1. /\ Iterate(c, outcome, got[c]) /\ pc[c] = "sleeping"
        /\ UNCHANGED << kind, current, got, tried >>
    BY <1>6 DEF Wake
  <2>2. outcome \in [Calls -> {"none", "ok", "fatal"} \cup Retryable] /\ got[c] \in BOOLEAN
    BY DEF TypeOK
  <2>. QED  BY <1>1, <2>1, <2>2, IterateTyped DEF TypeOK
<1>7. CASE CancelSleep(c)
  BY <1>1, <1>7 DEF CancelSleep, TypeOK
<1>8. CASE Drain(c)
  <2>1. PICK end \in {"returned", "broken", "cancelled"} : Goto(c, end)
    BY <1>8 DEF Drain
  <2>. QED  BY <1>1, <1>8, <2>1 DEF Drain, TypeOK
<1>. QED  BY <1>3, <1>4, <1>5, <1>6, <1>7, <1>8 DEF GoOn

LEMMA TypeInit == Init => TypeOK
BY RetryingAssumption DEF Init, TypeOK

LEMMA TypeStep ==
    ASSUME TypeOK, [Next]_vars
    PROVE  TypeOK'
<1>1. CASE UNCHANGED vars
  BY <1>1 DEF vars, TypeOK
<1>2. ASSUME NEW c \in Calls, Begin(c)
      PROVE  TypeOK'
  BY <1>2 DEF Begin, Goto, TypeOK
<1>. QED  BY <1>1, <1>2, GoOnFrame DEF Next

(* The variables keep their types.  For the counts of attempts that is the *)
(* budget of max_attempts, whichever calls share them.                     *)
THEOREM TypeCorrect == Spec => []TypeOK
<1>1. TypeOK /\ [Next]_vars => TypeOK'
  BY TypeStep
<1>. QED  BY <1>1, TypeInit, PTL DEF Spec

-----------------------------------------------------------------------------
(* Calls one after the other.                                              *)

NoOverlap == ~ Overlap

(* A call that has not begun has tried nothing.  One that is between its   *)
(* attempts is the only one: the object's state is its own, and counts the *)
(* failures so far, each of which was worth another attempt.               *)
AttemptsCounted(c) ==
    /\ Len(tried[c]) <= MaxAttempts
    /\ pc[c] = "idle" =>
          tried[c] = << >> /\ attempt[c] = 1 /\ outcome[c] = "none" /\ ~ got[c]
    /\ Looping(c) =>
          /\ current = c /\ manager[c] = c
          /\ attempt[c] = Len(tried[c]) + 1 /\ outcome[c] = "none" /\ ~ got[c]
          /\ \A i \in 1 .. Len(tried[c]) : tried[c][i] \in Retryable

(* What is left of a call that has ended: its own last attempt.            *)
EndKept(c) ==
    /\ pc[c] \in {"yielding", "returned", "broken"} =>
          Len(tried[c]) > 0 /\ LastTried(c) = "ok"
    /\ pc[c] = "raised" =>
          /\ Len(tried[c]) > 0
          /\ \/ LastTried(c) = "fatal"
             \/ Len(tried[c]) = MaxAttempts /\ LastTried(c) = "error"
    /\ pc[c] = "nothing" => Len(tried[c]) = MaxAttempts /\ LastTried(c) = "empty"

RetryInv == TypeOK /\ \A c \in Calls : AttemptsCounted(c) /\ EndKept(c)

-----------------------------------------------------------------------------

(* The calls other than c are left as they are.                            *)
Others(c) ==
    \A d \in Calls \ {c} :
        /\ pc'[d] = pc[d] /\ manager'[d] = manager[d] /\ attempt'[d] = attempt[d]
        /\ outcome'[d] = outcome[d] /\ got'[d] = got[d] /\ tried'[d] = tried[d]
        /\ ~ Looping(d)

(* A step of c keeps the invariant if it keeps that of c.                  *)
LEMMA OwnStepKeeps ==
    ASSUME RetryInv, NEW c \in Calls, Others(c), TypeOK',
           AttemptsCounted(c)', EndKept(c)'
    PROVE  RetryInv'
<1>. SUFFICES ASSUME NEW d \in Calls, d # c
              PROVE  AttemptsCounted(d)' /\ EndKept(d)'
  BY DEF RetryInv
<1>. QED  BY DEF RetryInv, Others, AttemptsCounted, EndKept, LastTried, Looping

(* The attempt of a call that is alone goes on record, and either another  *)
(* one will follow it, or the call ends with it.                           *)
Again(c, failure) ==
    /\ failure \in Retryable /\ attempt[c] < MaxAttempts
    /\ pc' = [pc EXCEPT ![c] = "sleeping"]
    /\ attempt' = [attempt EXCEPT ![c] = @ + 1]
    /\ outcome' = [outcome EXCEPT ![c] = "none"]

ForGood(c, failure) ==
    /\ failure \notin Retryable \/ attempt[c] >= MaxAttempts
    /\ pc' = [pc EXCEPT ![c] = IF failure = "empty" THEN "nothing" ELSE "raised"]
    /\ outcome' = [outcome EXCEPT ![c] = failure]
    /\ UNCHANGED attempt

LEMMA FailureOutcome ==
    ASSUME RetryInv, NEW c \in Calls, AttemptFails(c)
    PROVE  \E failure \in Failures(c) :
              /\ tried' = [tried EXCEPT ![c] = Append(@, failure)]
              /\ UNCHANGED << kind, current, manager, got >>
              /\ Again(c, failure) \/ ForGood(c, failure)
<1>1. /\ pc[c] = "trying" /\ current = c /\ manager[c] = c /\ ~ got[c]
      /\ attempt[c] \in 1 .. MaxAttempts
  BY DEF RetryInv, TypeOK, AttemptsCounted, AttemptFails, Looping
<1>2. PICK failure \in Failures(c) :
         /\ tried' = [tried EXCEPT ![c] = Append(@, failure)]
         /\ Iterate(c, Report(c, failure), got[c])
         /\ UNCHANGED << kind, current, got >>
  BY DEF AttemptFails
<1>3. failure \notin {"none", "ok"}
  BY RetryingAssumption DEF Failures
<1>4. outcome \in [Calls -> {"none", "ok", "fatal"} \cup Retryable]
  BY DEF RetryInv, TypeOK
<1>5. Report(c, failure) = [outcome EXCEPT ![c] = failure] /\ Report(c, failure)[current] = failure
  BY <1>1, <1>4 DEF Report
<1>6. CASE Tries(failure) /\ Budget(attempt[current])
  <2>1. /\ Goto(c, "sleeping")
        /\ outcome' = [Report(c, failure) EXCEPT ![current] = "none"]
        /\ attempt' = [attempt EXCEPT ![current] = @ + 1]
        /\ UNCHANGED manager
    BY <1>2, <1>3, <1>5, <1>6 DEF Iterate
  <2>2. [[outcome EXCEPT ![c] = failure] EXCEPT ![c] = "none"] = [outcome EXCEPT ![c] = "none"]
    BY <1>4
  <2>3. Again(c, failure)
    BY <1>1, <1>5, <1>6, <2>1, <2>2 DEF Again, Goto, Tries, Budget
  <2>. QED  BY <1>2, <2>1, <2>3
<1>7. CASE ~ (Tries(failure) /\ Budget(attempt[current]))
  <2>1. /\ GiveUp(c, failure, got[c])
        /\ outcome' = Report(c, failure)
        /\ UNCHANGED << attempt, manager >>
    BY <1>2, <1>3, <1>5, <1>7 DEF Iterate
  <2>2. attempt[c] \in Nat /\ MaxAttempts \in Nat
    BY <1>1, RetryingAssumption
  <2>3. ForGood(c, failure)
    BY <1>1, <1>5, <1>7, <2>1, <2>2 DEF ForGood, GiveUp, LoopEnds, Goto, Tries, Budget
  <2>. QED  BY <1>2, <2>1, <2>3
<1>. QED  BY <1>6, <1>7

(* When a call is between attempts, no other one is.                       *)
LEMMA OnlyLooping ==
    ASSUME RetryInv, NEW c \in Calls, Looping(c), NEW d \in Calls, d # c
    PROVE  ~ Looping(d)
BY DEF RetryInv, AttemptsCounted

LEMMA RetryInit == Init => RetryInv
BY RetryingAssumption DEF Init, RetryInv, TypeOK, AttemptsCounted, EndKept, Looping

LEMMA RetryStep ==
    ASSUME NoOverlap, RetryInv, [Next]_vars
    PROVE  RetryInv'
<1>1. CASE UNCHANGED vars
  BY <1>1 DEF vars, RetryInv, TypeOK, AttemptsCounted, EndKept, LastTried, Looping
<1>2. ASSUME NEW c \in Calls, Begin(c)
      PROVE  RetryInv'
  <2>1. TypeOK' /\ \A d \in Calls \ {c} : ~ Looping(d)
    BY <1>2 DEF Begin, Goto, RetryInv, TypeOK, NoOverlap
  <2>2. Others(c)
    BY <1>2, <2>1 DEF Begin, Goto, RetryInv, TypeOK, Others
  <2>3. AttemptsCounted(c)' /\ EndKept(c)'
    BY <1>2 DEF Begin, Goto, RetryInv, TypeOK, AttemptsCounted, EndKept, Looping
  <2>. QED  BY <2>1, <2>2, <2>3, OwnStepKeeps
<1>3. ASSUME NEW c \in Calls, AttemptFails(c)
      PROVE  RetryInv'
  <2>1. /\ Looping(c) /\ attempt[c] = Len(tried[c]) + 1 /\ outcome[c] = "none"
        /\ \A i \in 1 .. Len(tried[c]) : tried[c][i] \in Retryable
        /\ Len(tried[c]) \in Nat /\ current = c /\ manager[c] = c /\ ~ got[c]
        /\ attempt[c] \in 1 .. MaxAttempts
    BY <1>3 DEF AttemptFails, Looping, RetryInv, AttemptsCounted, TypeOK
  <2>2. PICK failure \in Failures(c) :
              /\ tried' = [tried EXCEPT ![c] = Append(@, failure)]
              /\ UNCHANGED << kind, current, manager, got >>
              /\ Again(c, failure) \/ ForGood(c, failure)
    BY <1>3, FailureOutcome
  <2>3. failure = "fatal" \/ failure \in Retryable
    BY DEF Failures
  <2>4. /\ tried' \in [Calls -> Seq({"ok", "fatal"} \cup Retryable)]
        /\ \A d \in Calls : d # c => tried'[d] = tried[d]
        /\ Len(tried'[c]) = Len(tried[c]) + 1
        /\ LastTried(c)' = failure
        /\ \A i \in 1 .. Len(tried[c]) : tried'[c][i] = tried[c][i]
    BY <2>2, <2>3, TriedOnce DEF RetryInv
  <2>5. TypeOK'
    <3>1. CASE Again(c, failure)
      <4>1. attempt[c] + 1 \in 1 .. MaxAttempts
        BY <2>1, <3>1, RetryingAssumption DEF Again
      <4>. QED  BY <2>2, <2>4, <3>1, <4>1 DEF Again, RetryInv, TypeOK
    <3>2. CASE ForGood(c, failure)
      BY <2>2, <2>3, <2>4, <3>2 DEF ForGood, RetryInv, TypeOK
    <3>. QED  BY <2>2, <3>1, <3>2
  <2>6. Others(c)
    BY <2>1, <2>2, <2>4, OnlyLooping DEF RetryInv, TypeOK, Others, Again, ForGood
  <2>7. pc'[c] \in {"sleeping", "nothing", "raised"}
    BY <2>2 DEF RetryInv, TypeOK, Again, ForGood
  <2>8. AttemptsCounted(c)'
    <3>1. Len(tried'[c]) <= MaxAttempts
      BY <2>1, <2>4, RetryingAssumption
    <3>2. CASE pc'[c] = "sleeping"
      <4>1. /\ failure \in Retryable
            /\ attempt' = [attempt EXCEPT ![c] = @ + 1]
            /\ outcome' = [outcome EXCEPT ![c] = "none"]
        BY <2>2, <3>2 DEF RetryInv, TypeOK, Again, ForGood
      <4>2. \A i \in 1 .. Len(tried'[c]) : tried'[c][i] \in Retryable
        BY <2>1, <2>4, <4>1 DEF LastTried
      <4>3. attempt'[c] = Len(tried'[c]) + 1 /\ outcome'[c] = "none"
        BY <2>1, <2>4, <4>1 DEF RetryInv, TypeOK
      <4>. QED  BY <2>1, <2>2, <3>1, <3>2, <4>2, <4>3 DEF AttemptsCounted
    <3>3. CASE pc'[c] # "sleeping"
      BY <2>7, <3>1, <3>3 DEF AttemptsCounted, Looping
    <3>. QED  BY <3>2, <3>3
  <2>9. EndKept(c)'
    <3>1. CASE pc'[c] = "sleeping"
      BY <3>1 DEF EndKept
    <3>2. CASE pc'[c] # "sleeping"
      <4>1. /\ failure \notin Retryable \/ attempt[c] >= MaxAttempts
            /\ pc'[c] = IF failure = "empty" THEN "nothing" ELSE "raised"
        BY <2>2, <3>2 DEF RetryInv, TypeOK, Again, ForGood
      <4>2. failure = "fatal" \/ Len(tried'[c]) = MaxAttempts
        BY <2>1, <2>3, <2>4, <4>1, RetryingAssumption
      <4>3. failure \in {"fatal", "error", "empty"}
        BY <2>3, RetryingAssumption
      <4>4. Len(tried'[c]) > 0
        BY <2>1, <2>4
      <4>. QED  BY <2>4, <4>1, <4>2, <4>3, <4>4 DEF EndKept
    <3>. QED  BY <3>1, <3>2
  <2>. QED  BY <2>5, <2>6, <2>8, <2>9, OwnStepKeeps
<1>4. ASSUME NEW c \in Calls, Answered(c) \/ FirstChunk(c)
      PROVE  RetryInv'
  <2>1. /\ Looping(c) /\ attempt[c] = Len(tried[c]) + 1 /\ Len(tried[c]) \in Nat
        /\ current = c /\ manager[c] = c /\ attempt[c] \in 1 .. MaxAttempts
    <3>1. pc[c] = "trying"
      BY <1>4 DEF Answered, FirstChunk
    <3>. QED  BY <3>1 DEF Looping, RetryInv, AttemptsCounted, TypeOK
  <2>2. Report(c, "ok") = [outcome EXCEPT ![c] = "ok"] /\ Report(c, "ok")[current] = "ok"
    BY <2>1 DEF Report, RetryInv, TypeOK
  <2>3. /\ tried' = [tried EXCEPT ![c] = Append(@, "ok")]
        /\ outcome' = [outcome EXCEPT ![c] = "ok"]
        /\ \/ pc' = [pc EXCEPT ![c] = "returned"] /\ UNCHANGED got
           \/ pc' = [pc EXCEPT ![c] = "yielding"] /\ got' = [got EXCEPT ![c] = TRUE]
        /\ UNCHANGED << kind, current, manager, attempt >>
    BY <1>4, <2>2 DEF Answered, FirstChunk, Iterate, LoopEnds, Goto
  <2>4. /\ tried' \in [Calls -> Seq({"ok", "fatal"} \cup Retryable)]
        /\ \A d \in Calls : d # c => tried'[d] = tried[d]
        /\ Len(tried'[c]) = Len(tried[c]) + 1
        /\ LastTried(c)' = "ok"
    BY <2>3, TriedOnce DEF RetryInv
  <2>5. TypeOK'
    <3>1. /\ outcome' \in [Calls -> {"none", "ok", "fatal"} \cup Retryable]
          /\ got' \in [Calls -> BOOLEAN]
      BY <2>3 DEF RetryInv, TypeOK
    <3>2. pc' \in [Calls -> {"idle", "trying", "sleeping", "yielding", "returned",
                             "broken", "raised", "cancelled", "nothing"}]
      BY <2>3 DEF RetryInv, TypeOK
    <3>. QED BY <2>3, <2>4, <3>1, <3>2 DEF RetryInv, TypeOK
  <2>6. Others(c)
    BY <2>1, <2>3, <2>4, OnlyLooping DEF RetryInv, TypeOK, Others
  <2>7. pc'[c] \in {"returned", "yielding"}
    BY <2>3 DEF RetryInv, TypeOK
  <2>8. AttemptsCounted(c)' /\ EndKept(c)'
    BY <2>1, <2>4, <2>7, RetryingAssumption DEF AttemptsCounted, EndKept, Looping
  <2>. QED  BY <2>5, <2>6, <2>8, OwnStepKeeps
<1>5. ASSUME NEW c \in Calls, Wake(c)
      PROVE  RetryInv'
  <2>1. Looping(c) /\ current = c /\ manager[c] = c /\ outcome[current] = "none"
    BY <1>5 DEF Wake, Looping, RetryInv, AttemptsCounted
  <2>2. /\ pc' = [pc EXCEPT ![c] = "trying"] /\ manager' = [manager EXCEPT ![c] = c]
        /\ UNCHANGED << kind, current, attempt, outcome, got, tried >>
    BY <1>5, <2>1 DEF Wake, Iterate, Goto
  <2>3. TypeOK' /\ Others(c)
    BY <2>1, <2>2, OnlyLooping DEF RetryInv, TypeOK, Others
  <2>4. AttemptsCounted(c)' /\ EndKept(c)'
    BY <2>1, <2>2 DEF RetryInv, TypeOK, AttemptsCounted, EndKept, Looping
  <2>. QED  BY <2>3, <2>4, OwnStepKeeps
<1>6. ASSUME NEW c \in Calls, CancelSleep(c)
      PROVE  RetryInv'
  <2>1. Looping(c)
    BY <1>6 DEF CancelSleep, Looping
  <2>2. TypeOK' /\ Others(c)
    BY <1>6, <2>1, OnlyLooping DEF CancelSleep, Goto, RetryInv, TypeOK, Others
  <2>3. AttemptsCounted(c)' /\ EndKept(c)'
    BY <1>6 DEF CancelSleep, Goto, RetryInv, TypeOK, AttemptsCounted, EndKept, Looping
  <2>. QED  BY <2>2, <2>3, OwnStepKeeps
<1>7. ASSUME NEW c \in Calls, Drain(c)
      PROVE  RetryInv'
  <2>1. PICK end \in {"returned", "broken", "cancelled"} : pc' = [pc EXCEPT ![c] = end]
    BY <1>7 DEF Drain, Goto
  <2>2. /\ pc[c] = "yielding"
        /\ UNCHANGED << kind, current, manager, attempt, outcome, got, tried >>
    BY <1>7 DEF Drain
  <2>3. TypeOK'
    BY <2>1, <2>2 DEF RetryInv, TypeOK
  <2>4. \A d \in Calls : pc'[d] = IF d = c THEN end ELSE pc[d]
    BY <2>1 DEF RetryInv, TypeOK
  <2>5. ASSUME NEW d \in Calls
        PROVE  AttemptsCounted(d)' /\ EndKept(d)'
    BY <2>2, <2>4 DEF RetryInv, AttemptsCounted, EndKept, LastTried, Looping
  <2>. QED  BY <2>3, <2>5 DEF RetryInv
<1>. QED  BY <1>1, <1>2, <1>3, <1>4, <1>5, <1>6, <1>7 DEF Next, GoOn

LEMMA RetryInvariant ==
    ASSUME NoOverlap
    PROVE  Spec => []RetryInv
<1>1. RetryInv /\ [Next]_vars => RetryInv'
  BY NoOverlap, RetryStep
<1>. QED  BY <1>1, RetryInit, PTL DEF Spec

-----------------------------------------------------------------------------

(* retrying.py, one call after the other: no call is tried more than       *)
(* max_attempts times, nor after anything but a retryable failure.         *)
THEOREM RetriesBounded ==
    ASSUME NoOverlap
    PROVE  Spec => []RetriedOnlyAfterFailure
<1>1. RetryInv => RetriedOnlyAfterFailure
  BY RetryingAssumption DEF RetryInv, TypeOK, AttemptsCounted, RetriedOnlyAfterFailure, Looping
<1>. QED  BY NoOverlap, <1>1, RetryInvariant, PTL

(* Each call ends with the answer or the error of its own last attempt.    *)
THEOREM OutcomeIsOwn ==
    ASSUME NoOverlap
    PROVE  Spec => []EndsAsLastAttempt
<1>1. RetryInv => EndsAsLastAttempt
  BY RetryingAssumption DEF RetryInv, TypeOK, AttemptsCounted, EndKept, LastTried,
     EndsAsLastAttempt
<1>. QED  BY NoOverlap, <1>1, RetryInvariant, PTL
=============================================================================
