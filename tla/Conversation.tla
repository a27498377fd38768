---------------------------- MODULE Conversation ----------------------------
(***************************************************************************)
(* What one Session promises its callers, without locks, caches, coroutines*)
(* or half-done steps: a conversation that grows by whole turns, in one    *)
(* order, and a durable copy that is always the conversation as it was at  *)
(* some moment.  Session.tla is shown to implement it.                     *)
(***************************************************************************)
EXTENDS Transcript

CONSTANTS
    Opening,        \* What an empty conversation starts with: << >>, or the system prompt.
    SavedBefore     \* The conversations the store may hold at the start.

VARIABLES
    conv,           \* The conversation as the callers of the session see it.
    durable         \* The copy of it that survives a restart.

vars == << conv, durable >>

-----------------------------------------------------------------------------

(* The conversation that a saved copy stands for.                          *)
Recovered(saved) == IF saved = << >> THEN Opening ELSE saved

Init == /\ durable \in SavedBefore
        /\ conv = Recovered(durable)

(* A question and its answer enter the conversation together, and once.    *)
TakeTurn(c) == /\ ~ Has(conv, c, "user")
               /\ conv' = conv \o Turn(c)
               /\ UNCHANGED durable

Inject(c) == /\ ~ Has(conv, c, "note")
             /\ conv' = Append(conv, Note(c))
             /\ UNCHANGED durable

Clear == /\ conv' = Opening
         /\ UNCHANGED durable

(* Only the whole current conversation is ever written.                    *)
Persist == /\ durable' = conv
           /\ UNCHANGED conv

(* A new client starts from the durable copy.                              *)
Recover == /\ conv' = Recovered(durable)
           /\ UNCHANGED durable

(* The application deletes the durable copy; a conversation that is        *)
(* already in memory goes on.                                              *)
Forget == /\ durable' = << >>
          /\ conv' \in {conv, Opening}

Next == \/ \E c \in Calls : TakeTurn(c) \/ Inject(c)
        \/ Clear \/ Persist \/ Recover \/ Forget

Spec == Init /\ [][Next]_vars
=============================================================================
