--------------------------- MODULE ProviderStack ---------------------------
(***************************************************************************)
(* The decorators of a provider that retries, as build_provider nests them *)
(* (extensions/llm/builder.py): cost tracking around the circuit breaker   *)
(* around the retries, or without the one or the other; or, in a provider  *)
(* that was built by hand, the breaker around cost tracking.  A call       *)
(* enters and leaves all of them without a suspension in between: it is    *)
(* admitted as it begins its first attempt, and its end as a retried call  *)
(* is at once a success or failure of the breaker, and is recorded or not. *)
(***************************************************************************)
EXTENDS Retrying, FiniteSets

CONSTANTS Threshold, Recovery, MaxCount                 \* See CircuitBreaker.

ASSUME StackAssumption ==
    /\ Threshold \in Nat /\ Recovery \in Nat
    /\ MaxCount \in Nat \ {0} /\ MaxCount >= Threshold

VARIABLES
    chain,          \* Aether._provider: what is around the retries, outermost first.
    state, failure_count, elapsed, admitted, doomed, healthy, backs, streak,
    metered,        \* The streams whose chunks carry model and token counts.
    requests        \* TokenUsage.requests, over all models.

Breaker == INSTANCE CircuitBreaker
    WITH Callers <- Calls, MaxBack <- 0, MaxBacks <- 0

breakerVars == << state, failure_count, elapsed, admitted, doomed, healthy, backs, streak >>
stackVars   == << vars, breakerVars, chain, metered, requests >>

(* What build_provider makes of its config, or the client of its flags.    *)
Built(with_circuit_breaker, with_cost_tracking) ==
    (IF with_cost_tracking THEN << "cost_tracking" >> ELSE << >>) \o
    (IF with_circuit_breaker THEN << "circuit_breaker" >> ELSE << >>)

StackInit ==
    /\ Init /\ Breaker!Init
    /\ \/ \E cb, ct \in BOOLEAN : chain = Built(cb, ct)
       \/ chain = << "circuit_breaker", "cost_tracking" >>
    /\ metered \in SUBSET Calls
    /\ requests = 0

-----------------------------------------------------------------------------

Has(decorator) == Contains(chain, decorator)

(* A step of the breaker, if there is one.                                 *)
InBreaker(Step) == IF Has("circuit_breaker") THEN Step ELSE UNCHANGED breakerVars

(* The circuit lets the call through, to its first attempt.                *)
Enter(c) ==
    /\ Begin(c)
    /\ InBreaker(Breaker!Admit(c))
    /\ UNCHANGED << chain, metered, requests >>

(* The call retries, waits, or yields a chunk: no decorator notices.       *)
StillRetrying(c) == pc'[c] \in {"trying", "sleeping", "yielding"}

(* Slip: the breaker is inside the retries, and sees every failed attempt. *)
ContinueCounted(c) ==
    /\ GoOn(c) /\ StillRetrying(c)
    /\ IF pc'[c] = "sleeping"
       THEN /\ failure_count' = Breaker!Count(failure_count)
            /\ state' = IF failure_count' >= Threshold THEN "OPEN" ELSE state
            /\ elapsed' = 0
            /\ UNCHANGED << admitted, doomed, healthy, backs, streak >>
       ELSE UNCHANGED breakerVars
    /\ UNCHANGED << chain, metered, requests >>

Continue(c) ==
    /\ GoOn(c) /\ StillRetrying(c)
    /\ UNCHANGED << breakerVars, chain, metered, requests >>

Usage(c) ==
    IF Has("cost_tracking") /\ (kind[c] = "complete" \/ c \in metered) THEN 1 ELSE 0

(* The whole answer has been passed on: _on_success, then _record.         *)
Deliver(c) ==
    /\ GoOn(c) /\ pc'[c] = "returned"
    /\ InBreaker(Breaker!Succeed(c))
    /\ requests' = requests + Usage(c)
    /\ UNCHANGED << chain, metered >>

(* A complete() that returns None is a success for the breaker; reading    *)
(* its model is what fails, within the breaker if that is outermost.  A    *)
(* stream() without a chunk is an error.                                   *)
Nothing(c) ==
    /\ GoOn(c) /\ pc'[c] = "nothing"
    /\ InBreaker(IF kind[c] = "complete" /\ chain # << "circuit_breaker", "cost_tracking" >>
                 THEN Breaker!Succeed(c) ELSE Breaker!Fail(c))
    /\ UNCHANGED << chain, metered, requests >>

(* RetryConfig leaves retry_exceptions at Exception, so that what is fatal *)
(* for the retries is a cancellation.                                      *)
RaisesCancellation == outcome'[current] = "fatal"

(* Slip: usage is recorded in a `finally`.                                 *)
RaiseRecorded(c) ==
    /\ GoOn(c)
    /\ \/ pc'[c] = "broken"
       \/ pc'[c] = "raised" /\ ~ RaisesCancellation
    /\ InBreaker(Breaker!Fail(c))
    /\ requests' = requests + Usage(c)
    /\ UNCHANGED << chain, metered >>

(* An Exception leaves the retries, or breaks the stream: _on_failure.     *)
Raise(c) ==
    /\ GoOn(c)
    /\ \/ pc'[c] = "broken"
       \/ pc'[c] = "raised" /\ ~ RaisesCancellation
    /\ InBreaker(Breaker!Fail(c))
    /\ UNCHANGED << chain, metered, requests >>

(* A cancellation, or a consumer that leaves, passes `except Exception`.   *)
Cancel(c) ==
    /\ GoOn(c)
    /\ \/ pc'[c] = "cancelled"
       \/ pc'[c] = "raised" /\ RaisesCancellation
    /\ InBreaker(Breaker!Abort(c))
    /\ UNCHANGED << chain, metered, requests >>

Tick ==
    /\ Has("circuit_breaker") /\ Breaker!Tick
    /\ UNCHANGED << vars, chain, metered, requests >>

(* client.usage walks down the chain to the first tracker, whose stats it  *)
(* returns; without one it returns an empty UsageStats.                    *)
UsageShown ==
    LET tracked == \E i \in 1 .. Len(chain) : chain[i] = "cost_tracking"
    IN  IF tracked THEN requests ELSE 0

(* A call that the open circuit fails fast changes nothing at all.         *)
StackNext ==
    \/ \E c \in Calls : \/ Enter(c) \/ Continue(c) \/ Deliver(c)
                        \/ Nothing(c) \/ Raise(c) \/ Cancel(c)
    \/ Tick

StackSpec == StackInit /\ [][StackNext]_stackVars

-----------------------------------------------------------------------------

(* "One retry-exhausted call counts as ONE breaker failure, not N"         *)
(* (builder.py:41-42): the circuit is only ever closed to callers because  *)
(* that many calls have failed for good, after all their attempts or in    *)
(* the middle of their stream, however many attempts failed elsewhere.     *)
FailedForGood(c) ==
    \/ pc[c] = "broken"
    \/ pc[c] \in {"raised", "nothing"} /\ Len(tried[c]) = MaxAttempts
                                       /\ tried[c][MaxAttempts] \in Retryable

OpenedByFailedCalls ==
    state # "CLOSED" => Cardinality({c \in Calls : FailedForGood(c)}) >= Threshold

(* "It only counts what actually billed (the final outcome, not each retry *)
(* attempt)" (builder.py:43-44): there is one record for each call whose   *)
(* answer was delivered to its end, and for no other, and client.usage     *)
(* shows them wherever in the chain the tracker is, or nothing at all.     *)
UsageIsWhatWasDelivered ==
    UsageShown =
        IF Has("cost_tracking")
        THEN Cardinality({c \in Calls : pc[c] = "returned"
                             /\ (kind[c] = "complete" \/ c \in metered)})
        ELSE 0
=============================================================================
