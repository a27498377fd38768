------------------------------ MODULE Retrying ------------------------------
(***************************************************************************)
(* aether/extensions/llm/retrying.py: one RetryingProvider and the calls   *)
(* made through it.  All of them iterate the same AsyncRetrying object,    *)
(* which keeps the state of "the" iteration in itself: whoever starts an   *)
(* iteration replaces it under the feet of those that are under way.       *)
(* AsyncRetrying is external (tenacity); Iterate says what it does next.   *)
(***************************************************************************)
EXTENDS SequencesExt, Naturals

CONSTANTS
    Calls,          \* The calls made, each of them once.
    MaxAttempts,    \* max_attempts
    Retryable,      \* How an attempt may fail in a way that is tried again:
                    \* "error", or "empty", a stream without any chunk.
    Overlap         \* FALSE: a call starts only when no other is between attempts.

ASSUME RetryingAssumption ==
    /\ MaxAttempts \in Nat \ {0}
    /\ Retryable \subseteq {"error", "empty"}
    /\ Overlap \in BOOLEAN

VARIABLES
    kind,           \* Is the call a complete() or a stream()?
    pc,             \* Where each call is suspended, or how it ended.
    current,        \* AsyncRetrying._retry_state, named by the call that made it.
    manager,        \* The state to which the attempt of a call reports its outcome.
    attempt,        \* RetryCallState.attempt_number
    outcome,        \* RetryCallState.outcome
    got,            \* Has the call assigned first_chunk?
    tried           \* History: how the attempts of each call ended.

vars == << kind, pc, current, manager, attempt, outcome, got, tried >>

Failures(c) ==
    {"fatal"} \cup {f \in Retryable : f = "empty" => kind[c] = "stream"}

Looping(c) == pc[c] \in {"trying", "sleeping"}

Init ==
    /\ kind \in [Calls -> {"complete", "stream"}]
    /\ pc = [c \in Calls |-> "idle"]
    /\ current \in Calls                    \* None; read only after a call has begun.
    /\ manager = [c \in Calls |-> c]
    /\ attempt = [c \in Calls |-> 1]
    /\ outcome = [c \in Calls |-> "none"]
    /\ got = [c \in Calls |-> FALSE]
    /\ tried = [c \in Calls |-> << >>]

Goto(c, location) == pc' = [pc EXCEPT ![c] = location]

(* `async for` is exhausted.  complete() falls off its end and returns     *)
(* None; stream() asserts that it has a first chunk, and yields it.        *)
LoopEnds(c, first) ==
    Goto(c, IF kind[c] = "stream" /\ first THEN "yielding" ELSE "nothing")

Report(c, result) == [outcome EXCEPT ![manager[c]] = result]

(* Slip: stop_after_attempt lets one attempt too many through.             *)
BudgetPlusOne(n) == n <= MaxAttempts

Budget(n) == n < MaxAttempts

(* Slip: without reraise, the loop just ends.                              *)
GiveUpQuietly(c, failure, first) == LoopEnds(c, first)

(* What an exhausted AsyncRetrying does: it raises the last exception, and *)
(* a StopAsyncIteration ends the loop that catches it.                     *)
GiveUp(c, failure, first) ==
    IF failure = "empty" THEN LoopEnds(c, first) ELSE Goto(c, "raised")

(* Slip: BaseException is tried again, and so are cancellations.           *)
TriesAll(failure) == failure # "none"

Tries(failure) == failure \in Retryable

(* AsyncRetrying.__anext__, up to the next await that suspends: it goes by *)
(* the state that is current now.                                          *)
Iterate(c, outcomes, first) ==
    LET last == outcomes[current] IN
    \/ /\ last = "none"
       /\ Goto(c, "trying")
       /\ manager' = [manager EXCEPT ![c] = current]
       /\ outcome' = outcomes
       /\ UNCHANGED attempt
    \/ /\ last = "ok"
       /\ LoopEnds(c, first)
       /\ outcome' = outcomes
       /\ UNCHANGED << manager, attempt >>
    \/ /\ last \notin {"none", "ok"} /\ Tries(last) /\ Budget(attempt[current])
       /\ Goto(c, "sleeping")
       /\ outcome' = [outcomes EXCEPT ![current] = "none"]
       /\ attempt' = [attempt EXCEPT ![current] = @ + 1]
       /\ UNCHANGED manager
    \/ /\ last \notin {"none", "ok"} /\ ~ (Tries(last) /\ Budget(attempt[current]))
       /\ GiveUp(c, last, first)
       /\ outcome' = outcomes
       /\ UNCHANGED << manager, attempt >>

-----------------------------------------------------------------------------

(* `async for` starts: a fresh state, and the first attempt.               *)
Begin(c) ==
    /\ pc[c] = "idle"
    /\ Overlap \/ \A d \in Calls : ~ Looping(d)
    /\ current' = c
    /\ manager' = [manager EXCEPT ![c] = c]
    /\ Goto(c, "trying")
    /\ UNCHANGED << kind, attempt, outcome, got, tried >>

(* The provider raises, or has no chunk, or the call is cancelled: `with   *)
(* attempt` swallows it, and the loop goes on.                             *)
AttemptFails(c) ==
    /\ pc[c] = "trying"
    /\ \E failure \in Failures(c) :
          /\ tried' = [tried EXCEPT ![c] = Append(@, failure)]
          /\ Iterate(c, Report(c, failure), got[c])
    /\ UNCHANGED << kind, current, got >>

(* complete() returns from inside the attempt.                             *)
Answered(c) ==
    /\ pc[c] = "trying" /\ kind[c] = "complete"
    /\ tried' = [tried EXCEPT ![c] = Append(@, "ok")]
    /\ outcome' = Report(c, "ok")
    /\ Goto(c, "returned")
    /\ UNCHANGED << kind, current, manager, attempt, got >>

(* stream() has its first chunk, and goes round the loop once more.        *)
FirstChunk(c) ==
    /\ pc[c] = "trying" /\ kind[c] = "stream"
    /\ tried' = [tried EXCEPT ![c] = Append(@, "ok")]
    /\ got' = [got EXCEPT ![c] = TRUE]
    /\ Iterate(c, Report(c, "ok"), TRUE)
    /\ UNCHANGED << kind, current >>

(* The backoff is over.                                                    *)
Wake(c) ==
    /\ pc[c] = "sleeping"
    /\ Iterate(c, outcome, got[c])
    /\ UNCHANGED << kind, current, got, tried >>

(* The call is cancelled in its backoff, where nothing catches it.         *)
CancelSleep(c) ==
    /\ pc[c] = "sleeping"
    /\ Goto(c, "cancelled")
    /\ UNCHANGED << kind, current, manager, attempt, outcome, got, tried >>

(* The rest of the stream is passed on, and ends, or breaks, or its        *)
(* consumer abandons it.                                                   *)
Drain(c) ==
    /\ pc[c] = "yielding"
    /\ \E end \in {"returned", "broken", "cancelled"} : Goto(c, end)
    /\ UNCHANGED << kind, current, manager, attempt, outcome, got, tried >>

(* What a call does once it has begun.                                     *)
GoOn(c) ==
    \/ AttemptFails(c) \/ Answered(c) \/ FirstChunk(c)
    \/ Wake(c) \/ CancelSleep(c) \/ Drain(c)

Next == \E c \in Calls : Begin(c) \/ GoOn(c)

Spec == Init /\ [][Next]_vars

-----------------------------------------------------------------------------

(* The values the variables may take.                                      *)
TypeOK ==
    /\ kind \in [Calls -> {"complete", "stream"}]
    /\ pc \in [Calls -> {"idle", "trying", "sleeping", "yielding", "returned",
                         "broken", "raised", "cancelled", "nothing"}]
    /\ current \in Calls
    /\ manager \in [Calls -> Calls]
    /\ attempt \in [Calls -> 1 .. MaxAttempts]
    /\ outcome \in [Calls -> {"none", "ok", "fatal"} \cup Retryable]
    /\ got \in [Calls -> BOOLEAN]
    /\ tried \in [Calls -> Seq({"ok", "fatal"} \cup Retryable)]

(* A call is tried at most max_attempts times, and only as long as each    *)
(* attempt failed in a way that is retried: no answer is asked for twice,  *)
(* no cancellation and no fatal error is answered with another attempt.    *)
RetriedOnlyAfterFailure ==
    \A c \in Calls :
        /\ Len(tried[c]) <= MaxAttempts
        /\ pc[c] = "trying" => \A i \in 1 .. Len(tried[c]) : tried[c][i] \in Retryable
        /\ pc[c] = "trying" => Len(tried[c]) < MaxAttempts

(* A call ends as its own last attempt did: with its answer, with the      *)
(* error that could not or no longer be retried, or, if the last stream    *)
(* was empty, with the assertion of retrying.py:62.                        *)
EndsAsLastAttempt ==
    \A c \in Calls :
        LET n == Len(tried[c]) IN
        /\ pc[c] \in {"yielding", "returned", "broken"} => n > 0 /\ tried[c][n] = "ok"
        /\ pc[c] = "raised" =>
              \/ n > 0 /\ tried[c][n] = "fatal"
              \/ n = MaxAttempts /\ tried[c][n] = "error"
        /\ pc[c] = "nothing" => n = MaxAttempts /\ tried[c][n] = "empty"

(* "tenacity guarantees these are set on success" (retrying.py:61): when   *)
(* the loop is over without an exception, the call has something to give.  *)
NeverEmptyHanded == \A c \in Calls : pc[c] # "nothing"
=============================================================================
