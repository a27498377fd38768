------------------------------ MODULE EventBus ------------------------------
(***************************************************************************)
(* aether/events.py: the handlers of each event, and one emission at a     *)
(* time as the call that emits sees it.  Handlers are awaited one by one,  *)
(* and at each await anybody, the handler itself included, may subscribe   *)
(* and unsubscribe.  Calls that share a bus share nothing but its lists.   *)
(***************************************************************************)
EXTENDS SequencesExt, FiniteSets, Naturals

CONSTANTS
    Handlers,
    EventNames

ASSUME EventBusAssumption == IsFiniteSet(Handlers)

VARIABLES
    subscribers,    \* EventBus._subscribers
    event,          \* The event that was emitted last.
    snapshot,       \* The copy of its list that the emission iterates.
    called,         \* How many handlers were called so far; 0: no emission.
    heard,          \* History: what each steady handler was called with.
    steady          \* History: the handlers that listened to everything, always.

busVars == << subscribers, event, snapshot, called, heard, steady >>

(* Some handlers listen to everything, the others to nothing yet.          *)
BusInit ==
    /\ \E listening \in SUBSET Handlers :
          /\ subscribers = [e \in EventNames |-> SetToSeq(listening)]
          /\ steady = listening
    /\ event = CHOOSE e \in EventNames : TRUE
    /\ snapshot = << >> /\ called = 0
    /\ heard = [h \in Handlers |-> << >>]

(* Nobody listens to an event that is not there.                           *)
Listeners(e) == IF e \in EventNames THEN subscribers[e] ELSE << >>

(* Slip: the list itself is iterated, whatever is done to it meanwhile.    *)
IteratedLive == Listeners(event)

Iterated == snapshot

(* Handlers are left to be called.  (When the last one returns, what the   *)
(* caller of emit does next follows at once: it is one step.)              *)
Emitting == called > 0 /\ called < Len(Iterated)

Hear(h, e) ==
    heard' = IF h \in steady THEN [heard EXCEPT ![h] = Append(@, e)] ELSE heard

-----------------------------------------------------------------------------

(* emit: the list is copied and its first handler called at once.          *)
StartEmission(e) ==
    /\ event' = e
    /\ snapshot' = Listeners(e)
    /\ IF Listeners(e) = << >>
       THEN called' = 0 /\ UNCHANGED heard
       ELSE called' = 1 /\ Hear(Head(Listeners(e)), e)
    /\ UNCHANGED << subscribers, steady >>

(* A handler returned, or raised an Exception, which is logged; the next   *)
(* one is called.                                                          *)
HandlerEnds ==
    /\ Emitting
    /\ called' = called + 1
    /\ Hear(Iterated[called + 1], event)
    /\ UNCHANGED << subscribers, event, snapshot, steady >>

(* The last handler returned, or the rest is given up: a handler raised    *)
(* CancelledError, or the call was cancelled while it waited for one.      *)
LeaveEmission ==
    /\ called' = 0 /\ snapshot' = << >>
    /\ UNCHANGED << subscribers, event, heard, steady >>

Unsteady(h) ==
    /\ steady' = steady \ {h}
    /\ heard' = [heard EXCEPT ![h] = << >>]

On(e, h) ==
    /\ subscribers' = [subscribers EXCEPT ![e] = Append(@, h)]
    /\ Unsteady(h)
    /\ UNCHANGED << event, snapshot, called >>

(* off removes the first registration of a handler.                        *)
Off(e, h) ==
    /\ Contains(subscribers[e], h)
    /\ subscribers' = [subscribers EXCEPT ![e] = RemoveFirst(@, h)]
    /\ Unsteady(h)
    /\ UNCHANGED << event, snapshot, called >>
=============================================================================
