------------------------------- MODULE Session -------------------------------
(***************************************************************************)
(* aether/memory/session.py: the Session objects of one session id, and    *)
(* the SessionStore they share.  Each client keeps its own Session object  *)
(* (Aether.session), so each element of Sessions is one client with its    *)
(* in-memory copy of the conversation; a restarted client starts from an   *)
(* unloaded Session again.                                                 *)
(*                                                                         *)
(* Calls are coroutines of asyncio: a step runs from one await that really *)
(* suspends to the next, and other calls run in between.  The store is     *)
(* external: all that is known of it is the Protocol of contracts.py.      *)
(***************************************************************************)
EXTENDS Transcript

CONSTANTS
    Sessions,       \* The Session objects, one per client, of this session id.
    Ops,            \* The operations that the callers use.
    WithSystem,     \* The sessions that were created with a system prompt.
    InMemory,       \* TRUE: the default store, whose coroutines never suspend nor fail.
    SavedBefore     \* The conversations the store may hold at the start.

LockedOps == {"complete", "stream", "add", "clear"}
TurnOps   == {"complete", "stream"}

ASSUME SessionAssumption ==
    /\ Ops \subseteq LockedOps \cup {"history", "delete"}
    /\ WithSystem \subseteq Sessions
    /\ InMemory \in BOOLEAN
    /\ SavedBefore \subseteq Seq(Message)
    /\ \A list \in SavedBefore :
          /\ WholeTurns(list)
          /\ \A i \in 1 .. Len(list) : list[i].by = Prior

VARIABLES
    store,          \* What the store holds under the session id; << >>: nothing.
    messages,       \* Session._messages
    loaded,         \* Session._loaded
    lock,           \* Session._lock: its holder, then the waiters in order of arrival.
    pc,             \* Where each call is suspended, or how it ended.
    op,             \* The operation that each call performs ...
    sess,           \* ... and the session it was made on.
    buf             \* The list a call has in its hands: as read from the store, as
                    \* sent to the client, as handed to the store, or as returned.

vars == << store, messages, loaded, lock, pc, op, sess, buf >>

-----------------------------------------------------------------------------

Ended == {"returned", "raised", "lost"}

(* A call holds the lock of its session when it is at the head of the      *)
(* queue.  (One that is woken or finds the lock free has not run yet while *)
(* it is still "waiting".)                                                 *)
Holds(c) == lock[sess[c]] # << >> /\ Head(lock[sess[c]]) = c

OnStore(c)  == pc[c] \in {"loading", "read", "saving", "applied"}
InTurn(c)   == pc[c] \in {"llm", "yielded"}

(* The in-memory store never suspends, so no other call runs meanwhile.    *)
Uninterrupted(c) == InMemory => \A d \in Calls \ {c} : ~ OnStore(d)

Prompt(s) == IF s \in WithSystem THEN << System >> ELSE << >>

(* Slip: the system prompt wins over the saved conversation.               *)
AfterLoadPromptFirst(s, existing) ==
    IF s \in WithSystem THEN Prompt(s)
    ELSE IF existing # << >> THEN existing ELSE messages[s]

(* Session._ensure_loaded: _messages once the store has answered; without  *)
(* a saved conversation or a system prompt it stays what it is.            *)
AfterLoad(s, existing) ==
    IF existing # << >> THEN existing
    ELSE IF s \in WithSystem THEN Prompt(s) ELSE messages[s]

Init ==
    /\ store \in SavedBefore
    /\ messages = [s \in Sessions |-> << >>]
    /\ loaded = [s \in Sessions |-> FALSE]
    /\ lock = [s \in Sessions |-> << >>]
    /\ pc = [c \in Calls |-> "idle"]
    /\ op \in [Calls -> Ops]
    /\ sess \in [Calls -> Sessions]
    /\ buf = [c \in Calls |-> << >>]

(* The call assigns _messages, holds that list, and goes on to a location. *)
Assign(c, list, location) ==
    /\ messages' = [messages EXCEPT ![sess[c]] = list]
    /\ buf' = [buf EXCEPT ![c] = list]
    /\ pc' = [pc EXCEPT ![c] = location]

(* The holder of the lock ends, and `async with` releases the lock.        *)
Release(c, outcome) ==
    /\ pc' = [pc EXCEPT ![c] = outcome]
    /\ lock' = [lock EXCEPT ![sess[c]] =
                  IF op[c] \in LockedOps THEN Tail(@) ELSE @]

(* What an operation does with the conversation it finds loaded.           *)
Proceed(c, current) ==
    \/ /\ op[c] \in TurnOps
       /\ Assign(c, Append(current, User(c)), "llm")
    \/ /\ op[c] = "add"
       /\ Assign(c, Append(current, Note(c)), "saving")
    \/ /\ op[c] = "history"
       /\ Assign(c, current, "returned")

-----------------------------------------------------------------------------

(* A caller starts an operation that takes the lock.                       *)
Request(c) ==
    /\ pc[c] = "idle" /\ op[c] \in LockedOps
    /\ pc' = [pc EXCEPT ![c] = "waiting"]
    /\ lock' = [lock EXCEPT ![sess[c]] = Append(@, c)]
    /\ UNCHANGED << store, messages, loaded, op, sess, buf >>

(* Slip: `async with self._lock` is forgotten.                             *)
EnterWithoutLock(c) ==
    /\ pc[c] = "waiting" /\ op[c] # "clear"
    /\ \/ /\ loaded[sess[c]]
          /\ Proceed(c, messages[sess[c]])
       \/ /\ ~ loaded[sess[c]]
          /\ pc' = [pc EXCEPT ![c] = "loading"]
          /\ UNCHANGED << messages, buf >>
    /\ UNCHANGED << store, loaded, lock, op, sess >>

(* Slip: _ensure_loaded is forgotten.                                      *)
EnterUnloaded(c) ==
    /\ pc[c] = "waiting" /\ Holds(c) /\ op[c] # "clear"
    /\ Proceed(c, messages[sess[c]])
    /\ loaded' = [loaded EXCEPT ![sess[c]] = TRUE]
    /\ UNCHANGED << store, lock, op, sess >>

(* The call gets the lock and runs up to its first suspension.             *)
Enter(c) ==
    /\ pc[c] = "waiting" /\ Holds(c)
    /\ \/ /\ op[c] = "clear"
          /\ Assign(c, Prompt(sess[c]), "saving")
          /\ loaded' = [loaded EXCEPT ![sess[c]] = TRUE]
       \/ /\ op[c] # "clear" /\ loaded[sess[c]]
          /\ Proceed(c, messages[sess[c]])
          /\ UNCHANGED loaded
       \/ /\ op[c] # "clear" /\ ~ loaded[sess[c]]
          /\ pc' = [pc EXCEPT ![c] = "loading"]
          /\ UNCHANGED << messages, loaded, buf >>
    /\ UNCHANGED << store, lock, op, sess >>

(* Session.history takes no lock.                                          *)
History(c) ==
    /\ pc[c] = "idle" /\ op[c] = "history"
    /\ \/ /\ loaded[sess[c]]
          /\ Proceed(c, messages[sess[c]])
       \/ /\ ~ loaded[sess[c]]
          /\ pc' = [pc EXCEPT ![c] = "loading"]
          /\ UNCHANGED << messages, buf >>
    /\ UNCHANGED << store, loaded, lock, op, sess >>

(* The store answers load(): first it reads, then the caller resumes.      *)
StoreLoad(c) ==
    /\ pc[c] = "loading"
    /\ buf' = [buf EXCEPT ![c] = store]
    /\ pc' = [pc EXCEPT ![c] = "read"]
    /\ UNCHANGED << store, messages, loaded, lock, op, sess >>

Loaded(c) ==
    /\ pc[c] = "read"
    /\ loaded' = [loaded EXCEPT ![sess[c]] = TRUE]
    /\ Proceed(c, AfterLoad(sess[c], buf[c]))
    /\ UNCHANGED << store, lock, op, sess >>

(* The client hands the consumer of a stream a chunk, and the generator    *)
(* stays suspended, with the lock, until the consumer asks for the next.   *)
Chunk(c) ==
    /\ pc[c] = "llm" /\ op[c] = "stream"
    /\ pc' = [pc EXCEPT ![c] = "yielded"]
    /\ UNCHANGED << store, messages, loaded, lock, op, sess, buf >>

Resume(c) ==
    /\ pc[c] = "yielded"
    /\ pc' = [pc EXCEPT ![c] = "llm"]
    /\ UNCHANGED << store, messages, loaded, lock, op, sess, buf >>

(* The client has answered, or the stream is exhausted.                    *)
Respond(c) ==
    /\ pc[c] = "llm"
    /\ Assign(c, Append(messages[sess[c]], Assistant(c)), "saving")
    /\ UNCHANGED << store, loaded, lock, op, sess >>

(* Slip: the rollback is forgotten.                                        *)
TurnRaisesNoRollback(c) ==
    /\ InTurn(c)
    /\ Release(c, "raised")
    /\ UNCHANGED << store, messages, loaded, op, sess, buf >>

(* Slip: the rollback goes back to what was last saved.                    *)
TurnRaisesReload(c) ==
    /\ InTurn(c)
    /\ messages' = [messages EXCEPT ![sess[c]] = store]
    /\ Release(c, "raised")
    /\ UNCHANGED << store, loaded, op, sess, buf >>

(* `except BaseException`: the client raises, the call is cancelled, or    *)
(* the consumer abandons the stream.  The last message is popped.          *)
TurnRaises(c) ==
    /\ InTurn(c)
    /\ messages' = [messages EXCEPT ![sess[c]] = Front(@)]
    /\ Release(c, "raised")
    /\ UNCHANGED << store, loaded, op, sess, buf >>

StoreSave(c) ==
    /\ pc[c] = "saving"
    /\ store' = buf[c]
    /\ pc' = [pc EXCEPT ![c] = "applied"]
    /\ UNCHANGED << messages, loaded, lock, op, sess, buf >>

SaveReturns(c) ==
    /\ pc[c] = "applied"
    /\ Release(c, "returned")
    /\ UNCHANGED << store, messages, loaded, op, sess, buf >>

(* Slip: the save is inside the `try`, so that its failure pops a message. *)
StoreRaisesPops(c) ==
    /\ OnStore(c) /\ ~ InMemory
    /\ messages' = [messages EXCEPT ![sess[c]] =
                       IF pc[c] \in {"saving", "applied"} THEN Front(@) ELSE @]
    /\ Release(c, "raised")
    /\ UNCHANGED << store, loaded, op, sess, buf >>

(* The store raises, before or after it did its work, or the call is       *)
(* cancelled while it waits for the store.  Nothing is undone.             *)
StoreRaises(c) ==
    /\ OnStore(c) /\ ~ InMemory
    /\ Release(c, "raised")
    /\ UNCHANGED << store, messages, loaded, op, sess, buf >>

(* Slip: a cancelled waiter stays in the queue of the lock.                *)
CancelWaitingStaysQueued(c) ==
    /\ pc[c] = "waiting"
    /\ pc' = [pc EXCEPT ![c] = "raised"]
    /\ UNCHANGED << store, messages, loaded, lock, op, sess, buf >>

(* The call is cancelled while it waits for the lock.                      *)
CancelWaiting(c) ==
    /\ pc[c] = "waiting"
    /\ \E i \in 1 .. Len(lock[sess[c]]) :
          /\ lock[sess[c]][i] = c
          /\ lock' = [lock EXCEPT ![sess[c]] = RemoveAt(@, i)]
    /\ pc' = [pc EXCEPT ![c] = "raised"]
    /\ UNCHANGED << store, messages, loaded, op, sess, buf >>

(* SessionStore.delete, called on the store by the application.            *)
Delete(c) ==
    /\ pc[c] = "idle" /\ op[c] = "delete"
    /\ store' = << >>
    /\ pc' = [pc EXCEPT ![c] = "returned"]
    /\ UNCHANGED << messages, loaded, lock, op, sess, buf >>

(* The client of session s goes away, and with it the calls it was making; *)
(* a new client takes its place.  With the in-memory store, which would go *)
(* with the process, a client is only replaced while it is idle.           *)
Active(c) == pc[c] \notin Ended \cup {"idle"}

Restart(s) ==
    /\ loaded[s] \/ \E c \in Calls : sess[c] = s /\ Active(c)
    /\ InMemory => \A c \in Calls : sess[c] = s => ~ Active(c)
    /\ messages' = [messages EXCEPT ![s] = << >>]
    /\ loaded' = [loaded EXCEPT ![s] = FALSE]
    /\ lock' = [lock EXCEPT ![s] = << >>]
    /\ pc' = [c \in Calls |-> IF sess[c] = s /\ Active(c) THEN "lost" ELSE pc[c]]
    /\ UNCHANGED << store, op, sess, buf >>

CallStep(c) ==
    \/ Request(c) \/ Enter(c) \/ History(c) \/ StoreLoad(c) \/ Loaded(c)
    \/ Chunk(c) \/ Resume(c) \/ Respond(c) \/ TurnRaises(c)
    \/ StoreSave(c) \/ SaveReturns(c) \/ StoreRaises(c)
    \/ CancelWaiting(c) \/ Delete(c)

Next ==
    \/ \E c \in Calls : Uninterrupted(c) /\ CallStep(c)
    \/ \E s \in Sessions : Restart(s)

Spec == Init /\ [][Next]_vars

(* The event loop runs every call that can run; the store and the client   *)
(* answer in the end, and a stream has a last chunk.  Nothing forces the   *)
(* consumer of a stream to ask for the next chunk, nor anybody to cancel.  *)
FairSpec ==
    /\ Spec
    /\ \A c \in Calls :
          /\ WF_vars(Uninterrupted(c) /\ Enter(c))
          /\ WF_vars(Uninterrupted(c) /\ (StoreLoad(c) \/ Loaded(c)))
          /\ SF_vars(Uninterrupted(c) /\ Respond(c))
          /\ WF_vars(Uninterrupted(c) /\ (StoreSave(c) \/ SaveReturns(c)))
=============================================================================
