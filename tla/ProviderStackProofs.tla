------------------------- MODULE ProviderStackProofs -------------------------
(***************************************************************************)
(* Proofs about ProviderStack, for every chain of decorators and any       *)
(* number of calls, thresholds and attempts.  Those about failures assume  *)
(* that the retries of different calls do not overlap.                     *)
(***************************************************************************)
EXTENDS ProviderStack, RetryingProofs, FiniteSetTheorems

BreakerProofs == INSTANCE CircuitBreakerProofs
    WITH Callers <- Calls, MaxBack <- 0, MaxBacks <- 0

-----------------------------------------------------------------------------
(* The stack is a provider that retries, and its breaker is a breaker.     *)

LEMMA StackRetries ==
    ASSUME [StackNext]_stackVars
    PROVE  [Next]_vars
<1>1. CASE UNCHANGED stackVars
  BY <1>1 DEF stackVars
<1>2. CASE Tick
  BY <1>2 DEF Tick
<1>3. ASSUME NEW c \in Calls,
             \/ Enter(c) \/ Continue(c) \/ Deliver(c)
             \/ Nothing(c) \/ Raise(c) \/ Cancel(c)
      PROVE  Begin(c) \/ GoOn(c)
  BY <1>3 DEF Enter, Continue, Deliver, Nothing, Raise, Cancel
<1>. QED  BY <1>1, <1>2, <1>3 DEF StackNext, Next

LEMMA StackBreaks ==
    ASSUME [StackNext]_stackVars
    PROVE  [BreakerProofs!Next]_breakerVars
<1>. USE DEF InBreaker
<1>1. CASE UNCHANGED stackVars
  BY <1>1 DEF stackVars
<1>2. CASE Tick
  BY <1>2 DEF Tick, Breaker!Tick, BreakerProofs!Tick, BreakerProofs!Next
<1>3. ASSUME NEW c \in Calls,
             \/ Enter(c) \/ Continue(c) \/ Deliver(c)
             \/ Nothing(c) \/ Raise(c) \/ Cancel(c)
      PROVE  \/ Breaker!Admit(c) \/ Breaker!Succeed(c) \/ Breaker!Fail(c) \/ Breaker!Abort(c)
             \/ UNCHANGED breakerVars
  BY <1>3 DEF Enter, Continue, Deliver, Nothing, Raise, Cancel
<1>4. ASSUME NEW c \in Calls,
             Breaker!Admit(c) \/ Breaker!Succeed(c) \/ Breaker!Fail(c) \/ Breaker!Abort(c)
      PROVE  BreakerProofs!CallerStep(c)
  BY <1>4 DEF BreakerProofs!CallerStep,
     Breaker!Admit, Breaker!Succeed, Breaker!Fail, Breaker!Abort, Breaker!End,
     Breaker!Checked, Breaker!Count, Breaker!InFlight,
     BreakerProofs!Admit, BreakerProofs!Succeed, BreakerProofs!Fail, BreakerProofs!Abort,
     BreakerProofs!End, BreakerProofs!Checked, BreakerProofs!Count, BreakerProofs!InFlight
<1>. QED  BY <1>1, <1>2, <1>3, <1>4 DEF StackNext, BreakerProofs!Next

LEMMA BreakerInit == StackInit => BreakerProofs!Inv
<1>1. Breaker!Init => BreakerProofs!Init
  BY DEF Breaker!Init, BreakerProofs!Init
<1>2. BreakerProofs!Init => BreakerProofs!Inv
  BY StackAssumption, BreakerProofs!InvInit
<1>. QED  BY <1>1, <1>2 DEF StackInit

LEMMA BreakerStep ==
    ASSUME BreakerProofs!Inv, [StackNext]_stackVars
    PROVE  BreakerProofs!Inv'
<1>1. [BreakerProofs!Next]_(BreakerProofs!vars)
  BY StackBreaks DEF BreakerProofs!vars, breakerVars
<1>. QED  BY <1>1, StackAssumption, BreakerProofs!InvStep

-----------------------------------------------------------------------------
(* What a step does to the calls.                                          *)

(* If a call raises, the last outcome is what its last attempt was.        *)
LEMMA RaisedAsTried ==
    ASSUME RetryInv, NEW c \in Calls, GoOn(c), pc'[c] = "raised"
    PROVE  outcome'[current] = LastTried(c)'
<1>1. /\ pc \in [Calls -> {"idle", "trying", "sleeping", "yielding", "returned",
                           "broken", "raised", "cancelled", "nothing"}]
      /\ outcome \in [Calls -> {"none", "ok", "fatal"} \cup Retryable]
      /\ Looping(c) => current = c /\ manager[c] = c /\ outcome[current] = "none"
  BY DEF RetryInv, TypeOK, AttemptsCounted
<1>2. CASE AttemptFails(c)
  <2>1. Looping(c)
    BY <1>2 DEF AttemptFails, Looping
  <2>2. PICK failure \in Failures(c) :
           /\ tried' = [tried EXCEPT ![c] = Append(@, failure)]
           /\ Again(c, failure) \/ ForGood(c, failure)
    BY <1>2, FailureOutcome
  <2>3. failure \in {"ok", "fatal"} \cup Retryable
    BY DEF Failures
  <2>4. LastTried(c)' = failure
    BY <2>2, <2>3, TriedOnce DEF RetryInv
  <2>. QED  BY <1>1, <2>1, <2>2, <2>4 DEF Again, ForGood
<1>3. CASE Answered(c) \/ CancelSleep(c) \/ Drain(c)
  BY <1>1, <1>3 DEF Answered, CancelSleep, Drain, Goto
<1>4. CASE FirstChunk(c)
  <2>1. Report(c, "ok")[current] = "ok"
    BY <1>1, <1>4 DEF Report, FirstChunk, Looping
  <2>. QED  BY <1>1, <1>4, <2>1 DEF FirstChunk, Iterate, LoopEnds, Goto
<1>5. CASE Wake(c)
  BY <1>1, <1>5 DEF Wake, Iterate, Goto, Looping
<1>. QED  BY <1>2, <1>3, <1>4, <1>5 DEF GoOn

(* The calls that have begun: finitely many, whatever Calls is.            *)
Begun == {c \in Calls : pc[c] # "idle"}

(* Those that failed for good, and those that are to be charged.           *)
Failed == {c \in Calls : FailedForGood(c)}

Billed == {c \in Calls : pc[c] = "returned" /\ (kind[c] = "complete" \/ c \in metered)}

LEMMA BegunSubsets ==
    ASSUME IsFiniteSet(Begun)
    PROVE  /\ IsFiniteSet(Failed) /\ Cardinality(Failed) \in Nat
           /\ IsFiniteSet(Billed) /\ Cardinality(Billed) \in Nat
<1>1. Failed \subseteq Begun /\ Billed \subseteq Begun
  BY DEF Failed, FailedForGood, Billed, Begun
<1>. QED  BY <1>1, FS_Subset, FS_CardinalityType

(* A call that goes on is one of those that have begun already.            *)
LEMMA BegunKept ==
    ASSUME TypeOK, NEW c \in Calls, GoOn(c), IsFiniteSet(Begun)
    PROVE  IsFiniteSet(Begun')
<1>1. Begun' = Begun
  BY GoOnFrame DEF Begun
<1>. QED  BY <1>1

(* Only the call that goes on can join the failed calls.                   *)
LEMMA FailedKept ==
    ASSUME TypeOK, NEW c \in Calls, GoOn(c), IsFiniteSet(Begun)
    PROVE  Cardinality(Failed') =
              IF FailedForGood(c)' THEN Cardinality(Failed) + 1 ELSE Cardinality(Failed)
<1>1. ~ FailedForGood(c)
  BY GoOnFrame DEF FailedForGood
<1>2. \A d \in Calls : d # c => (FailedForGood(d)' <=> FailedForGood(d))
  BY GoOnFrame DEF FailedForGood
<1>3. Failed' = IF FailedForGood(c)' THEN Failed \cup {c} ELSE Failed
  BY <1>1, <1>2 DEF Failed
<1>4. c \notin Failed
  BY <1>1 DEF Failed
<1>. QED  BY <1>3, <1>4, BegunSubsets, FS_AddElement

(* Only the call that goes on can join the calls to be charged.            *)
LEMMA BilledKept ==
    ASSUME TypeOK, NEW c \in Calls, GoOn(c), IsFiniteSet(Begun), UNCHANGED metered
    PROVE  Cardinality(Billed') =
              IF pc'[c] = "returned" /\ (kind[c] = "complete" \/ c \in metered)
              THEN Cardinality(Billed) + 1 ELSE Cardinality(Billed)
<1>1. c \notin Billed
  BY GoOnFrame DEF Billed
<1>2. Billed' = IF pc'[c] = "returned" /\ (kind[c] = "complete" \/ c \in metered)
                THEN Billed \cup {c} ELSE Billed
  BY GoOnFrame DEF Billed
<1>. QED  BY <1>1, <1>2, BegunSubsets, FS_AddElement

-----------------------------------------------------------------------------
(* The inductive invariant.                                                *)

(* Every failure that the breaker counts is a call that failed for good.   *)
FailuresAreCalls == failure_count <= Cardinality(Failed)

RecordsAreAnswers ==
    requests = IF Has("cost_tracking") THEN Cardinality(Billed) ELSE 0

(* What is recorded does not depend on how the retries go.                 *)
ChargeInv == TypeOK /\ IsFiniteSet(Begun) /\ RecordsAreAnswers

StackInv == RetryInv /\ BreakerProofs!Inv /\ ChargeInv /\ FailuresAreCalls

LEMMA StackInvInit == StackInit => ChargeInv /\ StackInv
<1>. SUFFICES ASSUME StackInit
              PROVE  ChargeInv /\ StackInv
  OBVIOUS
<1>1. RetryInv /\ BreakerProofs!Inv
  BY RetryInit, BreakerInit DEF StackInit
<1>2. Begun = {} /\ Failed = {} /\ Billed = {}
  BY DEF StackInit, Init, Begun, Failed, FailedForGood, Billed
<1>3. failure_count = 0 /\ requests = 0
  BY DEF StackInit, Breaker!Init
<1>. QED
  BY <1>1, <1>2, <1>3, FS_EmptySet
  DEF ChargeInv, StackInv, RetryInv, FailuresAreCalls, RecordsAreAnswers

(* What the step of a call that goes on leaves alone, in every decorator.  *)
Ends(c) == Continue(c) \/ Deliver(c) \/ Nothing(c) \/ Raise(c) \/ Cancel(c)

LEMMA EndsFrame ==
    ASSUME TypeOK, NEW c \in Calls, Ends(c)
    PROVE  GoOn(c) /\ UNCHANGED << kind, chain, metered >>
BY GoOnFrame DEF Ends, Continue, Deliver, Nothing, Raise, Cancel

(* A call that enters has neither failed nor been answered.                *)
LEMMA EnterFrame ==
    ASSUME TypeOK, NEW c \in Calls, Enter(c)
    PROVE  Begun' = Begun \cup {c} /\ Failed' = Failed /\ Billed' = Billed
<1>1. /\ \A d \in Calls : pc'[d] = IF d = c THEN "trying" ELSE pc[d]
      /\ pc[c] = "idle" /\ UNCHANGED << kind, tried, metered >>
  BY DEF Enter, Begin, Goto, TypeOK
<1>. QED  BY <1>1 DEF Begun, Failed, FailedForGood, Billed

LEMMA IdleFrame ==
    ASSUME UNCHANGED stackVars \/ Tick
    PROVE  /\ UNCHANGED << failure_count, requests >>
           /\ Begun' = Begun /\ Failed' = Failed /\ Billed' = Billed
           /\ Has("cost_tracking")' = Has("cost_tracking")
<1>1. UNCHANGED << failure_count, requests, vars, chain, metered >>
  BY DEF stackVars, breakerVars, Tick, Breaker!Tick
<1>. QED  BY <1>1 DEF vars, Begun, Failed, FailedForGood, Billed, Has

LEMMA ChargeInvStep ==
    ASSUME ChargeInv, [StackNext]_stackVars
    PROVE  ChargeInv'
<1>. USE DEF ChargeInv
<1>1. TypeOK'
  BY StackRetries, TypeStep
<1>2. CASE UNCHANGED stackVars \/ Tick
  BY <1>1, <1>2, IdleFrame DEF RecordsAreAnswers
<1>3. ASSUME NEW c \in Calls, Enter(c)
      PROVE  ChargeInv'
  <2>1. IsFiniteSet(Begun') /\ Billed' = Billed
    BY <1>3, EnterFrame, FS_AddElement
  <2>2. UNCHANGED << chain, requests >>
    BY <1>3 DEF Enter
  <2>. QED  BY <1>1, <2>1, <2>2 DEF RecordsAreAnswers, Has
<1>4. ASSUME NEW c \in Calls, Ends(c)
      PROVE  ChargeInv'
  <2>1. GoOn(c) /\ UNCHANGED << kind, chain, metered >>
    BY <1>4, EndsFrame
  <2>2. IsFiniteSet(Begun') /\ Cardinality(Billed) \in Nat
    BY <2>1, BegunKept, BegunSubsets
  <2>3. Has("cost_tracking")' = Has("cost_tracking")
    BY <2>1 DEF Has
  <2>4. CASE Deliver(c)
    <3>1. pc'[c] = "returned" /\ requests' = requests + Usage(c)
      BY <2>4 DEF Deliver
    <3>. QED  BY <1>1, <2>1, <2>2, <2>3, <3>1, BilledKept DEF RecordsAreAnswers, Usage
  <2>5. CASE Continue(c) \/ Nothing(c) \/ Raise(c) \/ Cancel(c)
    <3>1. pc'[c] # "returned" /\ UNCHANGED requests
      BY <2>5 DEF Continue, StillRetrying, Nothing, Raise, Cancel
    <3>. QED  BY <1>1, <2>1, <2>2, <2>3, <3>1, BilledKept DEF RecordsAreAnswers
  <2>. QED  BY <1>4, <2>4, <2>5 DEF Ends
<1>. QED  BY <1>2, <1>3, <1>4 DEF StackNext, Ends

(* What the breaker makes of the end of a call, or does not notice.        *)
Unnoticed(c) ==
    \/ UNCHANGED breakerVars
    \/ Breaker!Admit(c) \/ Breaker!Succeed(c) \/ Breaker!Abort(c)

LEMMA CountKept ==
    ASSUME BreakerProofs!Inv, NEW c \in Calls
    PROVE  /\ Unnoticed(c) => failure_count' <= failure_count
           /\ Breaker!Fail(c) => failure_count' <= failure_count + 1
           /\ failure_count \in Nat
           /\ Unnoticed(c) \/ Breaker!Fail(c) => failure_count' \in Nat
<1>1. failure_count \in 0 .. MaxCount
  BY DEF BreakerProofs!Inv, BreakerProofs!TypeOK
<1>. QED
  BY <1>1, StackAssumption DEF Unnoticed, breakerVars, Breaker!Admit, Breaker!Succeed,
     Breaker!Abort, Breaker!Fail, Breaker!Count

LEMMA StackInvStep ==
    ASSUME NoOverlap, StackInv, [StackNext]_stackVars
    PROVE  StackInv'
<1>. USE DEF StackInv
<1>1. RetryInv' /\ BreakerProofs!Inv' /\ ChargeInv'
  BY StackRetries, RetryStep, BreakerStep, ChargeInvStep
<1>2. CASE UNCHANGED stackVars \/ Tick
  BY <1>1, <1>2, IdleFrame DEF FailuresAreCalls
<1>3. ASSUME NEW c \in Calls, Enter(c)
      PROVE  StackInv'
  <2>1. Unnoticed(c)
    BY <1>3 DEF Enter, InBreaker, Unnoticed
  <2>2. Failed' = Failed /\ Cardinality(Failed) \in Nat
    BY <1>3, EnterFrame, BegunSubsets DEF ChargeInv
  <2>. QED  BY <1>1, <2>1, <2>2, CountKept DEF FailuresAreCalls
<1>4. ASSUME NEW c \in Calls, Ends(c)
      PROVE  StackInv'
  <2>1. GoOn(c) /\ Cardinality(Failed) \in Nat
    BY <1>4, EndsFrame, BegunSubsets DEF ChargeInv
  <2>2. Cardinality(Failed') =
           IF FailedForGood(c)' THEN Cardinality(Failed) + 1 ELSE Cardinality(Failed)
    BY <2>1, FailedKept DEF ChargeInv
  <2>3. Len(tried'[c]) = MaxAttempts /\ LastTried(c)' \in {"error", "empty"} =>
           tried'[c][MaxAttempts] \in Retryable
    <3>1. tried'[c] \in Seq({"ok", "fatal"} \cup Retryable) /\ MaxAttempts \in Nat \ {0}
      BY <1>1, RetryingAssumption DEF RetryInv, TypeOK
    <3>2. Len(tried'[c]) = MaxAttempts => LastTried(c)' \in {"ok", "fatal"} \cup Retryable
      BY <3>1 DEF LastTried
    <3>. QED  BY <3>2 DEF LastTried
  <2>4. CASE Unnoticed(c)
    BY <1>1, <2>1, <2>2, <2>4, CountKept DEF FailuresAreCalls
  <2>5. CASE Breaker!Fail(c) /\ FailedForGood(c)'
    BY <1>1, <2>1, <2>2, <2>5, CountKept DEF FailuresAreCalls
  <2>6. CASE Nothing(c)
    <3>1. FailedForGood(c)'
      BY <1>1, <2>3, <2>6 DEF Nothing, RetryInv, EndKept, FailedForGood
    <3>. QED  BY <2>4, <2>5, <2>6, <3>1 DEF Nothing, InBreaker, Unnoticed
  <2>7. CASE Raise(c)
    <3>1. pc'[c] = "raised" => LastTried(c)' # "fatal"
      BY <2>1, <2>7, RaisedAsTried DEF Raise, RaisesCancellation
    <3>2. FailedForGood(c)'
      BY <1>1, <2>3, <2>7, <3>1 DEF Raise, RetryInv, EndKept, FailedForGood
    <3>. QED  BY <2>4, <2>5, <2>7, <3>2 DEF Raise, InBreaker, Unnoticed
  <2>8. CASE Continue(c) \/ Deliver(c) \/ Cancel(c)
    <3>1. Unnoticed(c)
      BY <2>8 DEF Continue, Deliver, Cancel, InBreaker, Unnoticed
    <3>. QED  BY <2>4, <3>1
  <2>. QED  BY <1>4, <2>6, <2>7, <2>8 DEF Ends
<1>. QED  BY <1>2, <1>3, <1>4 DEF StackNext, Ends

LEMMA StackInvariant ==
    ASSUME NoOverlap
    PROVE  StackSpec => []StackInv
<1>1. StackInv /\ [StackNext]_stackVars => StackInv'
  BY NoOverlap, StackInvStep
<1>. QED  BY <1>1, StackInvInit, PTL DEF StackSpec

-----------------------------------------------------------------------------

(* builder.py:41-42, "One retry-exhausted call counts as ONE breaker       *)
(* failure, not N": whenever the circuit is not closed, at least           *)
(* failure_threshold calls have failed for good, in every chain.           *)
THEOREM OnlyFailedCallsOpen ==
    ASSUME NoOverlap
    PROVE  StackSpec => []OpenedByFailedCalls
<1>1. StackInv => OpenedByFailedCalls
  <2>1. SUFFICES ASSUME StackInv, state # "CLOSED"
                 PROVE  Cardinality(Failed) >= Threshold
    BY DEF OpenedByFailedCalls, Failed
  <2>2. failure_count >= Threshold /\ failure_count \in Nat
    BY <2>1, StackAssumption
    DEF StackInv, BreakerProofs!Inv, BreakerProofs!TypeOK, BreakerProofs!CountMatchesState
  <2>. QED  BY <2>1, <2>2, BegunSubsets, StackAssumption DEF StackInv, ChargeInv, FailuresAreCalls
<1>. QED  BY NoOverlap, <1>1, StackInvariant, PTL

(* builder.py:43-44, "It only counts what actually billed": client.usage   *)
(* shows one request for each answer that was delivered to its end, and    *)
(* none for an attempt that was retried, failed, or was cancelled, even    *)
(* where the retries of several calls overlap.                             *)
THEOREM UsageCountsAnswers == StackSpec => []UsageIsWhatWasDelivered
<1>1. ChargeInv /\ [StackNext]_stackVars => ChargeInv'
  BY ChargeInvStep
<1>2. ChargeInv => UsageIsWhatWasDelivered
  BY DEF ChargeInv, RecordsAreAnswers, UsageIsWhatWasDelivered, UsageShown, Billed, Has, Contains
<1>. QED  BY <1>1, <1>2, StackInvInit, PTL DEF StackSpec

(* The variables of the retries keep their types within every chain, even  *)
(* where the retries of several calls overlap.                             *)
THEOREM StackTypeCorrect == StackSpec => []TypeOK
<1>1. ChargeInv /\ [StackNext]_stackVars => ChargeInv'
  BY ChargeInvStep
<1>2. ChargeInv => TypeOK
  BY DEF ChargeInv
<1>. QED  BY <1>1, <1>2, StackInvInit, PTL DEF StackSpec

(* What is proved of retries alone holds of them within every chain.       *)
THEOREM RetriesBoundedInStack ==
    ASSUME NoOverlap
    PROVE  StackSpec => [](RetriedOnlyAfterFailure /\ EndsAsLastAttempt)
<1>1. StackInv => RetriedOnlyAfterFailure /\ EndsAsLastAttempt
  BY RetryingAssumption DEF StackInv, RetryInv, TypeOK, AttemptsCounted, EndKept, LastTried,
     RetriedOnlyAfterFailure, EndsAsLastAttempt, Looping
<1>. QED  BY NoOverlap, <1>1, StackInvariant, PTL
=============================================================================
