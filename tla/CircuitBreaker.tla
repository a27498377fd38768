--------------------------- MODULE CircuitBreaker ---------------------------
(***************************************************************************)
(* aether/extensions/llm/circuit_breaker.py: one CircuitBreakerProvider    *)
(* and the calls, complete() or stream(), that are concurrently under way  *)
(* through it.  The state is read when a call is admitted and written when *)
(* the call ends, possibly much later and in another state.                *)
(***************************************************************************)
EXTENDS Integers

CONSTANTS
    Callers,        \* Each makes one call at a time, and then another.
    Threshold,      \* failure_threshold
    Recovery,       \* recovery_timeout, in ticks of the clock
    MaxCount,       \* Bound: where failure_count is cut off; nothing looks beyond Threshold.
    MaxBack,        \* Bound: how far before last_failure_time the wall clock may be set back,
    MaxBacks        \* Bound: and how often.

ASSUME BreakerAssumption ==
    /\ Threshold \in Nat /\ Recovery \in Nat
    /\ MaxCount \in Nat \ {0} /\ MaxCount >= Threshold
    /\ MaxBack \in Nat /\ MaxBacks \in Nat

VARIABLES
    state,          \* CircuitBreakerProvider.state
    failure_count,  \* CircuitBreakerProvider.failure_count, up to MaxCount
    elapsed,        \* time.time() - last_failure_time, up to Recovery
    admitted,       \* The state in which the call under way of each caller was admitted.
    doomed,         \* The callers whose call under way the provider is able to fail.
    healthy,        \* The provider has recovered for good.
    backs,          \* How often the wall clock was set back.
    streak          \* History: failures since the last success or the last closing.

vars == << state, failure_count, elapsed, admitted, doomed, healthy, backs, streak >>

States == {"CLOSED", "OPEN", "HALF_OPEN"}

InFlight(c) == admitted[c] # "none"

Count(n) == IF n < MaxCount THEN n + 1 ELSE n

Init ==
    /\ state = "CLOSED" /\ failure_count = 0
    /\ elapsed = Recovery                       \* last_failure_time is 0.0
    /\ admitted = [c \in Callers |-> "none"]
    /\ doomed = {} /\ healthy = FALSE /\ backs = 0 /\ streak = 0

-----------------------------------------------------------------------------

(* _check_state_transition, at the start of every call.                    *)
Checked ==
    IF state = "OPEN" /\ elapsed >= Recovery THEN "HALF_OPEN" ELSE state

Admit(c) ==
    /\ ~ InFlight(c) /\ Checked # "OPEN"
    /\ state' = Checked
    /\ admitted' = [admitted EXCEPT ![c] = Checked]
    /\ doomed' = IF healthy THEN doomed ELSE doomed \cup {c}
    /\ UNCHANGED << failure_count, elapsed, healthy, backs, streak >>

(* Slip: a call that is failed fast counts as one more failure.            *)
RejectAsFailure(c) ==
    /\ ~ InFlight(c) /\ Checked = "OPEN"
    /\ elapsed' = 0
    /\ UNCHANGED << state, failure_count, admitted, doomed, healthy, backs, streak >>

(* CircuitBreakerOpenException: nothing changes.                           *)
Reject(c) ==
    /\ ~ InFlight(c) /\ Checked = "OPEN"
    /\ UNCHANGED vars

End(c) ==
    /\ InFlight(c)
    /\ admitted' = [admitted EXCEPT ![c] = "none"]
    /\ doomed' = doomed \ {c}
    /\ UNCHANGED << healthy, backs >>

(* Slip: closing the circuit does not reset failure_count.                 *)
SucceedNoReset(c) ==
    /\ End(c)
    /\ state' = IF state = "HALF_OPEN" THEN "CLOSED" ELSE state
    /\ failure_count' = IF state = "CLOSED" THEN 0 ELSE failure_count
    /\ streak' = 0
    /\ UNCHANGED elapsed

(* Slip: a success takes back one failure instead of all of them.          *)
SucceedTakesOneBack(c) ==
    /\ End(c)
    /\ state' = IF state = "HALF_OPEN" THEN "CLOSED" ELSE state
    /\ failure_count' = IF state = "OPEN" THEN failure_count ELSE failure_count - 1
    /\ streak' = 0
    /\ UNCHANGED elapsed

(* _on_success: the call, or the whole stream, went through.               *)
Succeed(c) ==
    /\ End(c)
    /\ state' = IF state = "HALF_OPEN" THEN "CLOSED" ELSE state
    /\ failure_count' = IF state = "OPEN" THEN failure_count ELSE 0
    /\ streak' = 0
    /\ UNCHANGED elapsed

(* Slip: a failure in HALF_OPEN starts the count anew.                     *)
FailRestartsCount(c) ==
    /\ End(c) /\ c \in doomed
    /\ failure_count' = IF state = "HALF_OPEN" THEN 1 ELSE Count(failure_count)
    /\ elapsed' = 0
    /\ state' = IF state = "HALF_OPEN" \/ failure_count' >= Threshold THEN "OPEN" ELSE state
    /\ streak' = Count(streak)

(* _on_failure: the provider raised, in the middle of a stream perhaps.    *)
Fail(c) ==
    /\ End(c) /\ c \in doomed
    /\ failure_count' = Count(failure_count)
    /\ elapsed' = 0
    /\ state' = IF \/ state = "HALF_OPEN"
                   \/ state = "CLOSED" /\ failure_count' >= Threshold
                THEN "OPEN" ELSE state
    /\ streak' = Count(streak)

(* The call is cancelled, or the consumer abandons the stream: no          *)
(* `except Exception` sees that, and it is no success and no failure.      *)
Abort(c) ==
    /\ End(c)
    /\ UNCHANGED << state, failure_count, elapsed, streak >>

-----------------------------------------------------------------------------

(* time.time() is a wall clock: it goes on, and it may be set back.        *)
Tick ==
    /\ elapsed < Recovery
    /\ elapsed' = elapsed + 1
    /\ UNCHANGED << state, failure_count, admitted, doomed, healthy, backs, streak >>

SetBack ==
    /\ backs < MaxBacks
    /\ backs' = backs + 1
    /\ elapsed' \in -MaxBack .. elapsed
    /\ UNCHANGED << state, failure_count, admitted, doomed, healthy, streak >>

(* From now on every new call succeeds, if it is let through and ends.     *)
Recover ==
    /\ ~ healthy
    /\ healthy' = TRUE
    /\ UNCHANGED << state, failure_count, elapsed, admitted, doomed, backs, streak >>

CallerStep(c) ==
    Admit(c) \/ Reject(c) \/ Succeed(c) \/ Fail(c) \/ Abort(c)

Next ==
    \/ \E c \in Callers : CallerStep(c)
    \/ Tick \/ SetBack \/ Recover

Spec == Init /\ [][Next]_vars

(* Callers keep calling, calls end, time passes; a caller that is served   *)
(* again and again does not cancel every single time.                      *)
FairSpec ==
    /\ Spec
    /\ WF_vars(Tick)
    /\ \A c \in Callers : WF_vars(Admit(c)) /\ SF_vars(Succeed(c))

-----------------------------------------------------------------------------

(* The values the variables may take.                                      *)
TypeOK ==
    /\ state \in States
    /\ failure_count \in 0 .. MaxCount
    /\ elapsed \in -MaxBack .. Recovery
    /\ admitted \in [Callers -> {"none", "CLOSED", "HALF_OPEN"}]
    /\ doomed \subseteq Callers
    /\ healthy \in BOOLEAN
    /\ backs \in 0 .. MaxBacks
    /\ streak \in 0 .. MaxCount

(* However the ends of concurrent calls interleave with the transitions,   *)
(* the count says why the circuit is where it is: it is below the          *)
(* threshold while closed and has reached it otherwise.                    *)
CountMatchesState ==
    IF state = "CLOSED"
    THEN failure_count = 0 \/ failure_count < Threshold
    ELSE failure_count >= Threshold

(* The circuit opens after failure_threshold failures in a row, and not    *)
(* because of failures that a success or a recovery has since made void.   *)
OpensOnStreak ==
    state = "CLOSED" /\ state' = "OPEN" => streak' >= Threshold

OpensOnlyOnStreak == [][OpensOnStreak]_vars

(* Once the provider has recovered, the circuit closes and stays closed:   *)
(* late failures of old calls, cancelled probes, rejected calls and a      *)
(* clock that is set back delay that but do not prevent it.                *)
ClosesAfterRecovery == <>healthy => <>[](state = "CLOSED")
=============================================================================
