---------------------------- MODULE SessionProps ----------------------------
(***************************************************************************)
(* What makes the sessions of Session.tla correct.                         *)
(***************************************************************************)
EXTENDS Session

(* The values the variables may take.                                      *)
TypeOK ==
    /\ store \in Seq(Message)
    /\ messages \in [Sessions -> Seq(Message)]
    /\ loaded \in [Sessions -> BOOLEAN]
    /\ lock \in [Sessions -> Seq(Calls)]
    /\ pc \in [Calls -> {"idle", "waiting", "loading", "read", "llm", "yielded",
                         "saving", "applied", "returned", "raised", "lost"}]
    /\ op \in [Calls -> Ops]
    /\ sess \in [Calls -> Sessions]
    /\ buf \in [Calls -> Seq(Message)]

(* The history is never corrupted: the saved conversation consists of      *)
(* whole turns, and so does the one in memory but for the question of a    *)
(* turn under way, which is its last message (session.py, rules 2 and 3).  *)
StoreWhole == WholeTurns(store)

MemoryWhole ==
    \A s \in Sessions :
        \/ WholeTurns(messages[s])
        \/ \E c \in Calls : /\ sess[c] = s /\ InTurn(c)
                            /\ AsksLast(messages[s], c)

ConversationsWhole == StoreWhole /\ MemoryWhole

(* The model is only ever asked whole turns followed by the new question:  *)
(* never a half-finished exchange of another call (session.py, rule 2).    *)
RequestsWhole == \A c \in Calls : InTurn(c) => AsksLast(buf[c], c)

(* A turn that fails takes back its own question and nothing else.         *)
RollbackExact ==
    \A c \in Calls :
        InTurn(c) /\ pc'[c] = "raised" =>
            messages[sess[c]] = Append(messages'[sess[c]], User(c))

RollbacksExact == [][RollbackExact]_vars

(* A call that the model never answered is in no conversation, neither in  *)
(* memory nor in the store, whatever happens afterwards.                   *)
FailedTurn(c) ==
    /\ op[c] \in TurnOps /\ pc[c] \in Ended
    /\ \/ buf[c] = << >>
       \/ Last(buf[c]) # Assistant(c)

NoTraceOfFailedTurns ==
    \A c \in Calls : FailedTurn(c) =>
        /\ ~ Has(store, c, "user")
        /\ \A s \in Sessions : ~ Has(messages[s], c, "user")

(* What an operation reported as done has been saved: it is in the store,  *)
(* and a restart does not lose it, unless the conversation is cleared or   *)
(* deleted.  (One client.)                                                 *)
Acknowledged(c) ==
    /\ pc[c] = "returned" /\ op[c] \in TurnOps \cup {"add"}
    /\ \A d \in Calls : op[d] \notin {"clear", "delete"}

Holding(list, c) ==
    IF op[c] = "add" THEN Has(list, c, "note") ELSE Has(list, c, "assistant")

AcknowledgedIsSaved == \A c \in Calls : Acknowledged(c) => Holding(store, c)

(* "The next call sees the full prior conversation" (session.py:4-5): the  *)
(* model is sent every turn and note that was acknowledged before.         *)
SeesPriorConversation ==
    \A c, d \in Calls : InTurn(c) /\ Acknowledged(d) => Holding(buf[c], d)

(* history() returns a conversation somebody could have had: whole turns,  *)
(* and at most the open question of one turn under way.                    *)
HistoryReadable ==
    \A c \in Calls : op[c] = "history" /\ pc[c] = "returned" =>
        \/ WholeTurns(buf[c])
        \/ \E d \in Calls : AsksLast(buf[c], d)

-----------------------------------------------------------------------------
(* The inductive invariants of SessionProofs.                              *)

Critical == {"loading", "read", "llm", "yielded", "saving", "applied"}

(* The lock is a lock: past "waiting", a call that takes it is at its head.*)
LockInv ==
    \A c \in Calls :
        /\ pc[c] \in {"waiting", "llm", "yielded", "saving", "applied"} => op[c] \in LockedOps
        /\ InTurn(c) => op[c] \in TurnOps
        /\ pc[c] \in {"loading", "read"} => op[c] # "delete"
        /\ pc[c] \in Critical /\ op[c] \in LockedOps => Holds(c)

(* Only the load of a session that is not loaded is under way, and what it *)
(* has read is whole.  A turn under way is on a loaded session, and nobody *)
(* has touched _messages since it asked.  What is being saved is whole.    *)
CallWhole(c) ==
    /\ pc[c] \in {"loading", "read"} => ~ loaded[sess[c]]
    /\ InTurn(c) => /\ loaded[sess[c]]
                    /\ messages[sess[c]] = buf[c]
                    /\ AsksLast(buf[c], c)
    /\ pc[c] \in {"read", "saving", "applied"} => WholeTurns(buf[c])

(* Between the turns of a session, its conversation is whole.              *)
SessionWhole(s) ==
    (\A c \in Calls : sess[c] = s => ~ InTurn(c)) => WholeTurns(messages[s])

WholeInv ==
    /\ StoreWhole
    /\ \A s \in Sessions : SessionWhole(s)
    /\ \A c \in Calls : CallWhole(c)

(* Only locked calls and, with a store that never suspends, one call at a  *)
(* time are between two steps of the store.                                *)
OneOnStore ==
    InMemory => \A c, d \in Calls : OnStore(c) /\ OnStore(d) => c = d

(* A session has nothing in memory before it is loaded, and what is being  *)
(* saved is what it has in memory.                                         *)
CacheInv ==
    /\ \A s \in Sessions : ~ loaded[s] => messages[s] = << >>
    /\ \A c \in Calls : pc[c] \in {"saving", "applied"} =>
          loaded[sess[c]] /\ messages[sess[c]] = buf[c]

(* A call that has said nothing yet, or whose question was taken back, is  *)
(* in no list that is or may become the conversation, but for the open     *)
(* question at the end of the conversation it is a turn of.                *)
Without(list, c) == \A i \in 1 .. Len(list) : list[i].by # c

Spoken(c) ==
    /\ pc[c] \in {"saving", "applied"} \cup Ended
    /\ op[c] \in TurnOps => buf[c] # << >> /\ Last(buf[c]) = Assistant(c)

Unheard(c) ==
    /\ Without(store, c)
    /\ \A d \in Calls :
          pc[d] \in {"read", "saving", "applied"} => Without(buf[d], c)
    /\ \A s \in Sessions :
          Without(IF InTurn(c) /\ s = sess[c] THEN Front(messages[s]) ELSE messages[s], c)

TraceInv == \A c \in Calls : ~ Spoken(c) => Unheard(c)

(* With one session that is neither cleared nor deleted, what a call has   *)
(* said is in memory when it is being saved, in the store once it is       *)
(* applied, and from its return on in every copy of the conversation.      *)
NeverCleared == \A d \in Calls : op[d] \notin {"clear", "delete"}

SavedInv ==
    NeverCleared =>
        \A c \in Calls : op[c] \in TurnOps \cup {"add"} =>
            /\ pc[c] \in {"saving", "applied"} => Holding(buf[c], c)
            /\ pc[c] = "applied" => store = buf[c]
            /\ pc[c] = "returned" =>
                  /\ Holding(store, c)
                  /\ \A s \in Sessions : loaded[s] => Holding(messages[s], c)
                  /\ \A d \in Calls : pc[d] = "read" => Holding(buf[d], c)

-----------------------------------------------------------------------------
(* Refinement: the only session as the abstract Conversation.  The conversation *)
(* its callers see leaves out the open question; before it is loaded, it   *)
(* is what the saved list stands for.                                      *)

TheSession == CHOOSE s \in Sessions : TRUE

Recovered(saved) == IF saved = << >> THEN Prompt(TheSession) ELSE saved

Seen ==
    IF loaded[TheSession]
    THEN IF \E c \in Calls : InTurn(c)
         THEN Front(messages[TheSession]) ELSE messages[TheSession]
    ELSE IF \E c \in Calls : pc[c] = "read"
         THEN Recovered(buf[CHOOSE c \in Calls : pc[c] = "read"])
         ELSE Recovered(store)

Abstract == INSTANCE Conversation
    WITH Opening <- Prompt(TheSession), conv <- Seen, durable <- store

(* With one client, a session is a Conversation: whatever the coroutines,  *)
(* the cancellations, the failures and the restarts do, its callers see it *)
(* grow by whole turns, and only whole conversations are written.          *)
ImplementsConversation == Abstract!Spec

-----------------------------------------------------------------------------
(* Every call that waits for the lock ends, unless the consumer of some    *)
(* stream stops asking for chunks and keeps the generator for ever.        *)
StreamHeld == <>[](\E d \in Calls : pc[d] = "yielded")

CallsEnd ==
    StreamHeld \/ \A c \in Calls : pc[c] = "waiting" ~> pc[c] \in Ended
=============================================================================
