------------------------ MODULE CircuitBreakerProofs ------------------------
(***************************************************************************)
(* Proofs about CircuitBreaker for any callers, threshold and timeout.     *)
(***************************************************************************)
EXTENDS CircuitBreaker, TLAPS

(* In CLOSED, failure_count is the run of failures since the last success. *)
CountIsStreak == state = "CLOSED" => failure_count = streak

Inv == TypeOK /\ CountMatchesState /\ CountIsStreak

LEMMA CountBounded ==
    ASSUME NEW n \in 0 .. MaxCount
    PROVE  Count(n) \in 0 .. MaxCount /\ (Count(n) = n + 1 \/ Count(n) = MaxCount)
BY BreakerAssumption DEF Count

LEMMA InvInit == Init => Inv
<1>. SUFFICES ASSUME Init
              PROVE  Inv
  OBVIOUS
<1>1. Recovery \in -MaxBack .. Recovery /\ 0 \in 0 .. MaxCount /\ 0 \in 0 .. MaxBacks
  BY BreakerAssumption
<1>2. TypeOK
  BY <1>1 DEF Init, TypeOK, States
<1>. QED  BY <1>2 DEF Init, Inv, CountMatchesState, CountIsStreak

LEMMA EndTyped ==
    ASSUME TypeOK, NEW c \in Callers, End(c)
    PROVE  /\ admitted' \in [Callers -> {"none", "CLOSED", "HALF_OPEN"}]
           /\ doomed' \subseteq Callers
           /\ healthy' \in BOOLEAN
           /\ backs' \in 0 .. MaxBacks
BY DEF TypeOK, End

LEMMA InvStep == Inv /\ [Next]_vars => Inv'
<1>. SUFFICES ASSUME Inv, [Next]_vars
              PROVE  Inv'
  OBVIOUS
<1>. USE BreakerAssumption DEF Inv, CountMatchesState, CountIsStreak, States
<1>1. CASE UNCHANGED vars
  BY <1>1 DEF vars, TypeOK
<1>2. ASSUME NEW c \in Callers, CallerStep(c)
      PROVE  Inv'
  <2>1. CASE Admit(c)
    <3>1. Checked \in {"CLOSED", "HALF_OPEN"}
      BY <2>1 DEF Admit, Checked, TypeOK
    <3>2. TypeOK'
      BY <2>1, <3>1 DEF Admit, TypeOK
    <3>. QED  BY <2>1, <3>2 DEF Admit, Checked, TypeOK
  <2>2. CASE Reject(c)
    BY <2>2 DEF Reject, vars, TypeOK
  <2>3. CASE Succeed(c)
    <3>1. TypeOK'
      BY <2>3, EndTyped DEF Succeed, TypeOK
    <3>. QED  BY <2>3, <3>1 DEF Succeed, TypeOK
  <2>4. CASE Fail(c)
    <3>1. TypeOK'
      BY <2>4, EndTyped, CountBounded DEF Fail, TypeOK
    <3>2. /\ failure_count \in 0 .. MaxCount
          /\ failure_count' = failure_count + 1 \/ failure_count' = MaxCount
      BY <2>4, CountBounded DEF Fail, TypeOK
    <3>3. CountMatchesState'
      BY <2>4, <3>2 DEF Fail, TypeOK
    <3>4. CountIsStreak'
      BY <2>4 DEF Fail, TypeOK
    <3>. QED  BY <3>1, <3>3, <3>4
  <2>5. CASE Abort(c)
    BY <2>5, EndTyped DEF Abort, TypeOK
  <2>. QED  BY <1>2, <2>1, <2>2, <2>3, <2>4, <2>5 DEF CallerStep
<1>3. CASE Tick
  BY <1>3 DEF Tick, TypeOK
<1>4. CASE SetBack
  BY <1>4 DEF SetBack, TypeOK
<1>5. CASE Recover
  BY <1>5 DEF Recover, TypeOK
<1>. QED  BY <1>1, <1>2, <1>3, <1>4, <1>5 DEF Next

LEMMA Invariant == Spec => []Inv
BY InvInit, InvStep, PTL DEF Spec

(* The breaker's variables keep their types.                               *)
THEOREM TypeCorrect == Spec => []TypeOK
<1>1. Inv => TypeOK
  BY DEF Inv
<1>. QED  BY <1>1, Invariant, PTL

(* failure_count is below the threshold exactly while the circuit is       *)
(* closed, for any number of concurrent calls and any clock.               *)
THEOREM CountAlwaysMatches == Spec => []CountMatchesState
<1>1. Inv => CountMatchesState
  BY DEF Inv
<1>. QED  BY <1>1, Invariant, PTL

(* Only failure_threshold failures in a row open a closed circuit.         *)
THEOREM OpensOnlyAfterThreshold == Spec => OpensOnlyOnStreak
<1>1. Inv /\ [Next]_vars => [OpensOnStreak]_vars
  <2>. SUFFICES ASSUME Inv, Next, state = "CLOSED", state' = "OPEN"
                PROVE  streak' >= Threshold
    BY DEF OpensOnStreak
  <2>1. PICK c \in Callers : Fail(c)
    BY DEF Next, CallerStep, Admit, Checked, Reject, Succeed, Abort, Tick, SetBack, Recover, vars
  <2>2. failure_count' >= Threshold /\ failure_count' = Count(failure_count)
    BY <2>1 DEF Fail
  <2>3. streak' = failure_count'
    BY <2>1, <2>2 DEF Inv, CountIsStreak, Fail
  <2>. QED  BY <2>2, <2>3
<1>. QED  BY <1>1, Invariant, PTL DEF Spec, OpensOnlyOnStreak
=============================================================================
