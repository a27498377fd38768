---------------------------- MODULE SessionProofs ----------------------------
(***************************************************************************)
(* Proofs about Session for any number of clients, calls and saved         *)
(* conversations: lists of messages; types and the lock; whole             *)
(* conversations; what a step leaves alone; the store and the memory; no   *)
(* trace of failed turns; history(); and, for one client, that what was    *)
(* acknowledged is saved, and that Session implements Conversation.        *)
(***************************************************************************)
EXTENDS SessionProps, SequenceTheorems, TLAPS

-----------------------------------------------------------------------------
(* Lists of messages.                                                      *)

(* An empty conversation and a lone system prompt are whole.               *)
LEMMA PromptWhole ==
    ASSUME NEW s \in Sessions
    PROVE  Prompt(s) \in Seq(Message) /\ WholeTurns(Prompt(s))
<1>1. << >> \in Seq(Message) /\ WholeTurns(<< >>)
  BY DEF WholeTurns, QuestionsAnswered, AnswersAsked
<1>2. System \in Message /\ System.role = "system"
  BY DEF System, Message, Roles
<1>3. << System >> \in Seq(Message) /\ WholeTurns(<< System >>)
  BY <1>2 DEF WholeTurns, QuestionsAnswered, AnswersAsked
<1>. QED  BY <1>1, <1>3 DEF Prompt

(* All but the last message.                                               *)
LEMMA FrontOfList ==
    ASSUME NEW list \in Seq(Message), list # << >>
    PROVE  /\ Front(list) \in Seq(Message)
           /\ Len(Front(list)) = Len(list) - 1
           /\ \A i \in 1 .. Len(list) - 1 : Front(list)[i] = list[i]
<1>1. Len(list) \in Nat /\ Len(list) > 0
  OBVIOUS
<1>2. Front(list) = SubSeq(list, 1, Len(list) - 1)
  BY Zenon DEF Front
<1>3. \A i \in 1 .. Len(list) - 1 : list[i] \in Message
  BY <1>1
<1>. DEFINE n == Len(list) - 1
<1>4. n \in Nat /\ 1 \in Int
  BY <1>1
<1>. HIDE DEF n
<1>5. /\ SubSeq(list, 1, n) \in Seq(Message)
      /\ Len(SubSeq(list, 1, n)) = IF 1 <= n THEN n - 1 + 1 ELSE 0
      /\ \A i \in 1 .. n - 1 + 1 : SubSeq(list, 1, n)[i] = list[1 + i - 1]
  BY <1>3, <1>4, SubSeqProperties DEF n
<1>6. Len(SubSeq(list, 1, n)) = n
  BY <1>4, <1>5
<1>7. ASSUME NEW i \in 1 .. n
      PROVE  SubSeq(list, 1, n)[i] = list[i]
  BY <1>4, <1>5
<1>8. Front(list) = SubSeq(list, 1, n)
  BY <1>2 DEF n
<1>. QED  BY <1>5, <1>6, <1>7, <1>8 DEF n

(* Asking adds the open question.                                          *)
LEMMA AskedLast ==
    ASSUME NEW list \in Seq(Message), WholeTurns(list), NEW c \in Calls
    PROVE  /\ Append(list, User(c)) \in Seq(Message)
           /\ AsksLast(Append(list, User(c)), c)
<1>1. User(c) \in Message
  BY DEF User, Message, Roles
<1>2. Front(Append(list, User(c))) = list
  BY <1>1 DEF Front
<1>3. Append(list, User(c)) # << >> /\ Last(Append(list, User(c))) = User(c)
  BY <1>1 DEF Last
<1>. QED  BY <1>1, <1>2, <1>3 DEF AsksLast

(* Answering makes the last turn whole.                                    *)
LEMMA AnsweredWhole ==
    ASSUME NEW list \in Seq(Message), NEW c \in Calls, AsksLast(list, c)
    PROVE  /\ Append(list, Assistant(c)) \in Seq(Message)
           /\ WholeTurns(Append(list, Assistant(c)))
<1>. DEFINE n == Len(list)
            whole == Append(list, Assistant(c))
<1>1. Assistant(c) \in Message /\ Assistant(c).role = "assistant" /\ Assistant(c).by = c
  BY DEF Assistant, Message, Roles
<1>2. User(c).role = "user" /\ User(c).by = c
  BY DEF User
<1>3. /\ n \in Nat /\ n > 0
      /\ list[n] = User(c)
      /\ Len(whole) = n + 1
      /\ whole[n + 1] = Assistant(c)
      /\ \A i \in 1 .. n : whole[i] = list[i]
      /\ whole \in Seq(Message)
  BY <1>1 DEF AsksLast, Last
<1>4. /\ Len(Front(list)) = n - 1
      /\ \A i \in 1 .. n - 1 : Front(list)[i] = list[i]
  BY FrontOfList DEF AsksLast
<1>5. QuestionsAnswered(Front(list)) /\ AnswersAsked(Front(list))
  BY DEF AsksLast, WholeTurns
<1>6. QuestionsAnswered(whole)
  <2>1. SUFFICES ASSUME NEW i \in 1 .. n + 1, whole[i].role = "user"
                 PROVE  i < n + 1 /\ whole[i + 1] = Assistant(whole[i].by)
    BY <1>3 DEF QuestionsAnswered
  <2>2. CASE i = n + 1
    BY <2>1, <2>2, <1>1, <1>3
  <2>3. CASE i = n
    BY <2>3, <1>2, <1>3
  <2>4. CASE i < n
    <3>1. i \in 1 .. n - 1 /\ Front(list)[i].role = "user"
      BY <2>1, <2>4, <1>3, <1>4
    <3>2. i < n - 1 /\ Front(list)[i + 1] = Assistant(Front(list)[i].by)
      BY <3>1, <1>4, <1>5 DEF QuestionsAnswered
    <3>. QED  BY <3>1, <3>2, <1>3, <1>4
  <2>. QED  BY <2>2, <2>3, <2>4, <1>3
<1>7. AnswersAsked(whole)
  <2>1. SUFFICES ASSUME NEW i \in 1 .. n + 1, whole[i].role = "assistant"
                 PROVE  i > 1 /\ whole[i - 1] = User(whole[i].by)
    BY <1>3 DEF AnswersAsked
  <2>2. CASE i = n + 1
    BY <2>2, <1>1, <1>3
  <2>3. CASE i = n
    BY <2>1, <2>3, <1>2, <1>3
  <2>4. CASE i < n
    <3>1. i \in 1 .. n - 1 /\ Front(list)[i].role = "assistant"
      BY <2>1, <2>4, <1>3, <1>4
    <3>2. i > 1 /\ Front(list)[i - 1] = User(Front(list)[i].by)
      BY <3>1, <1>4, <1>5 DEF AnswersAsked
    <3>. QED  BY <3>1, <3>2, <1>3, <1>4
  <2>. QED  BY <2>2, <2>3, <2>4, <1>3
<1>. QED  BY <1>3, <1>6, <1>7 DEF WholeTurns

(* An injected message leaves the turns whole.                             *)
LEMMA NotedWhole ==
    ASSUME NEW list \in Seq(Message), WholeTurns(list), NEW c \in Calls
    PROVE  /\ Append(list, Note(c)) \in Seq(Message)
           /\ WholeTurns(Append(list, Note(c)))
<1>. DEFINE n == Len(list)
            noted == Append(list, Note(c))
<1>1. Note(c) \in Message /\ Note(c).role = "note"
  BY DEF Note, Message, Roles
<1>2. /\ n \in Nat
      /\ Len(noted) = n + 1
      /\ noted[n + 1] = Note(c)
      /\ \A i \in 1 .. n : noted[i] = list[i]
      /\ noted \in Seq(Message)
  BY <1>1
<1>3. QuestionsAnswered(noted)
  <2>1. SUFFICES ASSUME NEW i \in 1 .. n + 1, noted[i].role = "user"
                 PROVE  i < n + 1 /\ noted[i + 1] = Assistant(noted[i].by)
    BY <1>2 DEF QuestionsAnswered
  <2>2. i \in 1 .. n /\ list[i].role = "user"
    BY <2>1, <1>1, <1>2
  <2>3. i < n /\ list[i + 1] = Assistant(list[i].by)
    BY <2>2 DEF WholeTurns, QuestionsAnswered
  <2>. QED  BY <2>2, <2>3, <1>2
<1>4. AnswersAsked(noted)
  <2>1. SUFFICES ASSUME NEW i \in 1 .. n + 1, noted[i].role = "assistant"
                 PROVE  i > 1 /\ noted[i - 1] = User(noted[i].by)
    BY <1>2 DEF AnswersAsked
  <2>2. i \in 1 .. n /\ list[i].role = "assistant"
    BY <2>1, <1>1, <1>2
  <2>3. i > 1 /\ list[i - 1] = User(list[i].by)
    BY <2>2 DEF WholeTurns, AnswersAsked
  <2>. QED  BY <2>2, <2>3, <1>2
<1>. QED  BY <1>2, <1>3, <1>4 DEF WholeTurns

(* Rolling back undoes exactly the open question.                          *)
LEMMA RolledBack ==
    ASSUME NEW list \in Seq(Message), NEW c \in Calls, AsksLast(list, c)
    PROVE  /\ Front(list) \in Seq(Message)
           /\ WholeTurns(Front(list))
           /\ list = Append(Front(list), User(c))
<1>1. /\ Len(list) \in Nat /\ Len(list) > 0
      /\ list[Len(list)] = User(c)
      /\ User(c) \in Message
  BY DEF AsksLast, Last, User, Message, Roles
<1>2. /\ Front(list) \in Seq(Message)
      /\ Len(Front(list)) = Len(list) - 1
      /\ \A i \in 1 .. Len(list) - 1 : Front(list)[i] = list[i]
  BY FrontOfList DEF AsksLast
<1>3. list = Append(Front(list), User(c))
  BY <1>1, <1>2
<1>. QED  BY <1>2, <1>3 DEF AsksLast

-----------------------------------------------------------------------------
(* Types, and the lock.                                                    *)

(* A waiter leaves the queue; unless it was at the head, the head stays.   *)
LEMMA LeaveQueue ==
    ASSUME NEW S, NEW q \in Seq(S), NEW i \in 1 .. Len(q)
    PROVE  /\ RemoveAt(q, i) \in Seq(S)
           /\ i > 1 => RemoveAt(q, i) # << >> /\ Head(RemoveAt(q, i)) = Head(q)
<1>. DEFINE before == SubSeq(q, 1, i - 1)
            after  == SubSeq(q, i + 1, Len(q))
<1>1. before \in Seq(S) /\ Len(before) = i - 1 /\ (i > 1 => before[1] = q[1])
  OBVIOUS
<1>2. after \in Seq(S)
  OBVIOUS
<1>3. RemoveAt(q, i) = before \o after
  BY DEF RemoveAt
<1>. HIDE DEF before, after
<1>. QED  BY <1>1, <1>2, <1>3

(* A call that has got past the lock and now ends leaves the lock to the   *)
(* next waiter; no other call was past the lock of that session.           *)
LEMMA ReleaseKeepsLock ==
    ASSUME TypeOK, LockInv, NEW c \in Calls, NEW outcome \in Ended,
           pc[c] \in Critical, Release(c, outcome), UNCHANGED << op, sess >>
    PROVE  /\ lock' \in [Sessions -> Seq(Calls)]
           /\ LockInv'
<1>. USE DEF Release, Critical, InTurn, Ended
<1>1. op[c] \in LockedOps => Holds(c)
  BY DEF LockInv
<1>2. lock' \in [Sessions -> Seq(Calls)]
  BY <1>1 DEF TypeOK, Holds
<1>3. \A d \in Calls : d # c => pc'[d] = pc[d]
  BY DEF TypeOK
<1>4. pc'[c] = outcome
  BY DEF TypeOK
<1>5. ASSUME NEW d \in Calls, pc'[d] \in Critical, op'[d] \in LockedOps
      PROVE  Holds(d)'
  <2>1. d # c /\ pc[d] \in Critical /\ Holds(d)
    BY <1>3, <1>4, <1>5 DEF LockInv
  <2>2. lock'[sess[d]] = lock[sess[d]]
    BY <1>1, <2>1 DEF Holds, TypeOK
  <2>. QED  BY <2>1, <2>2 DEF Holds
<1>6. \A d \in Calls :
        /\ pc'[d] \in {"waiting", "llm", "yielded", "saving", "applied"} => op'[d] \in LockedOps
        /\ InTurn(d)' => op'[d] \in TurnOps
        /\ pc'[d] \in {"loading", "read"} => op'[d] # "delete"
  BY <1>3, <1>4 DEF LockInv
<1>. QED  BY <1>2, <1>5, <1>6 DEF LockInv

(* The locations to which a call that holds the lock may move on.          *)
LEMMA MoveKeepsLock ==
    ASSUME TypeOK, LockInv, NEW c \in Calls,
           NEW location \in Critical \cup Ended,
           pc' = [pc EXCEPT ![c] = location],
           UNCHANGED << lock, op, sess >>,
           op[c] \in LockedOps => Holds(c),
           location \in {"saving", "applied"} => op[c] \in LockedOps,
           location \in {"llm", "yielded"} => op[c] \in TurnOps,
           location \in {"loading", "read"} => op[c] # "delete"
    PROVE  LockInv'
<1>1. \A d \in Calls : pc'[d] = IF d = c THEN location ELSE pc[d]
  BY DEF TypeOK
<1>2. \A d \in Calls : Holds(d)' = Holds(d)
  BY DEF Holds
<1>. QED  BY <1>1, <1>2 DEF LockInv, InTurn, Critical, Ended, LockedOps, TurnOps

LEMMA ProceedKeepsLock ==
    ASSUME TypeOK, LockInv, NEW c \in Calls, NEW current \in Seq(Message),
           Proceed(c, current), UNCHANGED << lock, op, sess >>,
           op[c] \in LockedOps => Holds(c)
    PROVE  /\ messages' \in [Sessions -> Seq(Message)]
           /\ buf' \in [Calls -> Seq(Message)]
           /\ pc' \in [Calls -> {"idle", "waiting", "loading", "read", "llm", "yielded",
                                 "saving", "applied", "returned", "raised", "lost"}]
           /\ LockInv'
<1>0. User(c) \in Message /\ Note(c) \in Message
  BY DEF User, Note, Message, Roles
<1>1. /\ Append(current, User(c)) \in Seq(Message)
      /\ Append(current, Note(c)) \in Seq(Message)
  BY <1>0
<1>. USE DEF Critical, Ended, LockedOps, TurnOps
<1>2. CASE op[c] \in TurnOps /\ Assign(c, Append(current, User(c)), "llm")
  BY <1>1, <1>2, MoveKeepsLock DEF TypeOK, Assign
<1>3. CASE op[c] = "add" /\ Assign(c, Append(current, Note(c)), "saving")
  BY <1>1, <1>3, MoveKeepsLock DEF TypeOK, Assign
<1>4. CASE op[c] = "history" /\ Assign(c, current, "returned")
  BY <1>4, MoveKeepsLock DEF TypeOK, Assign
<1>. QED  BY <1>2, <1>3, <1>4 DEF Proceed

LEMMA TypeInit == Init => TypeOK /\ LockInv
BY SessionAssumption DEF Init, TypeOK, LockInv, InTurn, Critical

LEMMA TypeStep == TypeOK /\ LockInv /\ [Next]_vars => TypeOK' /\ LockInv'
<1>. SUFFICES ASSUME TypeOK, LockInv, [Next]_vars
              PROVE  TypeOK' /\ LockInv'
  OBVIOUS
<1>1. CASE UNCHANGED vars
  BY <1>1 DEF vars, TypeOK, LockInv, InTurn, Holds
<1>2. ASSUME NEW c \in Calls, CallStep(c)
      PROVE  TypeOK' /\ LockInv'
  <2>. USE DEF Critical, Ended, LockedOps, TurnOps
  <2>1. CASE Request(c)
    <3>1. TypeOK'
      BY <2>1 DEF Request, TypeOK
    <3>2. \A d \in Calls : d # c => pc'[d] = pc[d]
      BY <2>1 DEF Request, TypeOK
    <3>3. \A d \in Calls : Holds(d) => Holds(d)'
      BY <2>1 DEF Request, TypeOK, Holds
    <3>. QED  BY <2>1, <3>1, <3>2, <3>3 DEF Request, LockInv, InTurn, TypeOK
  <2>2. CASE Enter(c)
    <3>1. op[c] \in LockedOps /\ Holds(c) /\ sess[c] \in Sessions
      BY <2>2 DEF Enter, LockInv, TypeOK
    <3>2. CASE op[c] = "clear" /\ Assign(c, Prompt(sess[c]), "saving")
               /\ loaded' = [loaded EXCEPT ![sess[c]] = TRUE]
      BY <2>2, <3>1, <3>2, PromptWhole, MoveKeepsLock DEF Enter, Assign, TypeOK
    <3>3. CASE Proceed(c, messages[sess[c]]) /\ UNCHANGED loaded
      BY <2>2, <3>1, <3>3, ProceedKeepsLock DEF Enter, TypeOK
    <3>4. CASE pc' = [pc EXCEPT ![c] = "loading"]
               /\ UNCHANGED << messages, loaded, buf >>
      BY <2>2, <3>1, <3>4, MoveKeepsLock DEF Enter, TypeOK
    <3>. QED  BY <2>2, <3>2, <3>3, <3>4 DEF Enter
  <2>3. CASE History(c)
    <3>1. CASE Proceed(c, messages[sess[c]])
      BY <2>3, <3>1, ProceedKeepsLock DEF History, TypeOK
    <3>2. CASE pc' = [pc EXCEPT ![c] = "loading"] /\ UNCHANGED << messages, buf >>
      BY <2>3, <3>2, MoveKeepsLock DEF History, TypeOK
    <3>. QED  BY <2>3, <3>1, <3>2 DEF History
  <2>4. CASE StoreLoad(c)
    BY <2>4, MoveKeepsLock DEF StoreLoad, TypeOK, LockInv
  <2>5. CASE Loaded(c)
    <3>1. AfterLoad(sess[c], buf[c]) \in Seq(Message)
      BY <2>5, PromptWhole DEF AfterLoad, TypeOK
    <3>2. op[c] \in LockedOps => Holds(c)
      BY <2>5 DEF Loaded, LockInv
    <3>. QED  BY <2>5, <3>1, <3>2, ProceedKeepsLock DEF Loaded, TypeOK
  <2>6. CASE Chunk(c)
    BY <2>6, MoveKeepsLock DEF Chunk, TypeOK, LockInv
  <2>7. CASE Resume(c)
    BY <2>7, MoveKeepsLock DEF Resume, TypeOK, LockInv, InTurn
  <2>8. CASE Respond(c)
    <3>0. messages[sess[c]] \in Seq(Message) /\ Assistant(c) \in Message
      BY DEF TypeOK, Assistant, Message, Roles
    <3>1. Append(messages[sess[c]], Assistant(c)) \in Seq(Message)
      BY <3>0
    <3>. QED  BY <2>8, <3>1, MoveKeepsLock DEF Respond, Assign, TypeOK, LockInv, InTurn
  <2>9. CASE TurnRaises(c)
    <3>1. Front(messages[sess[c]]) \in Seq(Message)
      BY DEF TypeOK, Front
    <3>. QED  BY <2>9, <3>1, ReleaseKeepsLock DEF TurnRaises, InTurn, Release, TypeOK
  <2>10. CASE StoreSave(c)
    BY <2>10, MoveKeepsLock DEF StoreSave, TypeOK, LockInv
  <2>11. CASE SaveReturns(c)
    BY <2>11, ReleaseKeepsLock DEF SaveReturns, Release, TypeOK
  <2>12. CASE StoreRaises(c)
    BY <2>12, ReleaseKeepsLock DEF StoreRaises, OnStore, Release, TypeOK
  <2>13. CASE CancelWaiting(c)
    <3>1. PICK i \in 1 .. Len(lock[sess[c]]) :
             /\ lock[sess[c]][i] = c
             /\ lock' = [lock EXCEPT ![sess[c]] = RemoveAt(@, i)]
      BY <2>13 DEF CancelWaiting
    <3>2. RemoveAt(lock[sess[c]], i) \in Seq(Calls)
      BY LeaveQueue DEF TypeOK
    <3>3. \A d \in Calls : pc'[d] = IF d = c THEN "raised" ELSE pc[d]
      BY <2>13 DEF CancelWaiting, TypeOK
    <3>4. ASSUME NEW d \in Calls, d # c, Holds(d)
          PROVE  Holds(d)'
      <4>1. sess[d] = sess[c] => i > 1
        BY <3>1, <3>4 DEF Holds, TypeOK
      <4>2. lock[sess[c]] \in Seq(Calls)
        BY DEF TypeOK
      <4>3. i > 1 => /\ RemoveAt(lock[sess[c]], i) # << >>
                     /\ Head(RemoveAt(lock[sess[c]], i)) = Head(lock[sess[c]])
        BY <4>2, LeaveQueue
      <4>. QED  BY <2>13, <3>1, <3>4, <4>1, <4>3 DEF Holds, TypeOK, CancelWaiting
    <3>5. TypeOK'
      BY <2>13, <3>1, <3>2 DEF CancelWaiting, TypeOK
    <3>6. UNCHANGED << op, sess >>
      BY <2>13 DEF CancelWaiting
    <3>7. LockInv'
      BY <3>3, <3>4, <3>6 DEF LockInv, InTurn
    <3>. QED  BY <3>5, <3>7
  <2>14. CASE Delete(c)
    <3>1. << >> \in Seq(Message)
      OBVIOUS
    <3>2. TypeOK'
      BY <2>14, <3>1 DEF Delete, TypeOK
    <3>3. LockInv'
      BY <2>14, MoveKeepsLock DEF Delete
    <3>. QED  BY <3>2, <3>3
  <2>. QED  BY <1>2, <2>1, <2>2, <2>3, <2>4, <2>5, <2>6, <2>7, <2>8, <2>9,
               <2>10, <2>11, <2>12, <2>13, <2>14 DEF CallStep
<1>3. ASSUME NEW s \in Sessions, Restart(s)
      PROVE  TypeOK' /\ LockInv'
  <2>1. TypeOK'
    BY <1>3 DEF Restart, TypeOK
  <2>2. \A c \in Calls : pc'[c] = IF sess[c] = s /\ Active(c) THEN "lost" ELSE pc[c]
    BY <1>3 DEF Restart
  <2>3. ASSUME NEW c \in Calls, pc'[c] \in Critical, Holds(c)
        PROVE  Holds(c)'
    BY <1>3, <2>2, <2>3 DEF Restart, Active, Ended, Critical, Holds, TypeOK
  <2>. QED  BY <1>3, <2>1, <2>2, <2>3 DEF Restart, LockInv, InTurn, Critical
<1>. QED  BY <1>1, <1>2, <1>3 DEF Next

(* Type correctness of every behaviour; it rests on the lock being held by *)
(* its holder only, because a release takes the head off a queue that must *)
(* not be empty.                                                           *)
THEOREM TypeCorrect == Spec => []TypeOK
<1>1. Spec => [](TypeOK /\ LockInv)
  BY TypeInit, TypeStep, PTL DEF Spec
<1>. QED  BY <1>1, PTL

-----------------------------------------------------------------------------
(* Whole conversations.  history() reads the store without the lock, so    *)
(* this holds when nobody uses it, or when the store never suspends.       *)

HistorySafe == "history" \notin Ops \/ InMemory

(* While a call holds the lock, no other call of its session is past it.   *)
LEMMA Alone ==
    ASSUME HistorySafe, TypeOK, LockInv, NEW c \in Calls, Uninterrupted(c),
           op[c] \in LockedOps, Holds(c),
           NEW d \in Calls, d # c, sess[d] = sess[c]
    PROVE  pc[d] \notin Critical
<1>1. SUFFICES ASSUME pc[d] \in Critical
               PROVE  FALSE
  OBVIOUS
<1>2. op[d] \notin LockedOps
  BY <1>1 DEF LockInv, Holds
<1>3. op[d] = "history"
  BY <1>1, <1>2, SessionAssumption DEF TypeOK, LockInv, InTurn, Critical
<1>4. OnStore(d)
  BY <1>1, <1>2 DEF LockInv, OnStore, Critical
<1>. QED  BY <1>3, <1>4 DEF HistorySafe, Uninterrupted, TypeOK

(* A step of one call that keeps to itself, or has the session to itself.  *)
LEMMA OwnStep ==
    ASSUME TypeOK, WholeInv, NEW c \in Calls, StoreWhole',
           UNCHANGED sess,
           \A d \in Calls : d # c => pc'[d] = pc[d] /\ buf'[d] = buf[d],
           \A s \in Sessions : s # sess[c] =>
               messages'[s] = messages[s] /\ loaded'[s] = loaded[s],
           \/ /\ UNCHANGED << messages, loaded >>
              /\ InTurn(c) => InTurn(c)'
           \/ /\ \A d \in Calls : d # c /\ sess[d] = sess[c] => pc[d] \notin Critical
              /\ InTurn(c)' \/ WholeTurns(messages'[sess[c]]),
           CallWhole(c)'
    PROVE  WholeInv'
<1>1. ASSUME NEW d \in Calls
      PROVE  CallWhole(d)'
  <2>1. CASE d = c
    BY <2>1
  <2>2. CASE d # c /\ sess[d] # sess[c]
    BY <2>2 DEF WholeInv, CallWhole, InTurn, TypeOK
  <2>3. CASE d # c /\ sess[d] = sess[c]
    BY <2>3 DEF WholeInv, CallWhole, InTurn, TypeOK, Critical
  <2>. QED  BY <2>1, <2>2, <2>3
<1>2. ASSUME NEW s \in Sessions
      PROVE  SessionWhole(s)'
  <2>1. SUFFICES ASSUME \A d \in Calls : sess[d] = s => ~ InTurn(d)'
                 PROVE  WholeTurns(messages'[s])
    BY DEF SessionWhole, InTurn
  <2>2. CASE s # sess[c]
    <3>1. \A d \in Calls : sess[d] = s => ~ InTurn(d)
      BY <2>1, <2>2 DEF InTurn
    <3>. QED  BY <2>2, <3>1 DEF WholeInv, SessionWhole
  <2>3. CASE s = sess[c] /\ UNCHANGED << messages, loaded >> /\ (InTurn(c) => InTurn(c)')
    <3>1. \A d \in Calls : sess[d] = s => ~ InTurn(d)
      BY <2>1, <2>3 DEF InTurn
    <3>. QED  BY <2>3, <3>1 DEF WholeInv, SessionWhole
  <2>4. CASE s = sess[c] /\ (InTurn(c)' \/ WholeTurns(messages'[sess[c]]))
    BY <2>1, <2>4
  <2>. QED  BY <2>2, <2>3, <2>4
<1>. QED  BY <1>1, <1>2 DEF WholeInv

(* An operation that has the loaded, whole conversation and its session to *)
(* itself goes on to ask, to save or to return.                            *)
LEMMA ProceedWhole ==
    ASSUME TypeOK, WholeInv, NEW c \in Calls, NEW current \in Seq(Message),
           WholeTurns(current), Proceed(c, current), loaded'[sess[c]],
           UNCHANGED << store, sess, op >>,
           \A s \in Sessions : s # sess[c] => loaded'[s] = loaded[s],
           \A d \in Calls : d # c /\ sess[d] = sess[c] => pc[d] \notin Critical
    PROVE  WholeInv'
<1>1. \A list, location : Assign(c, list, location) =>
          /\ \A d \in Calls : d # c => pc'[d] = pc[d] /\ buf'[d] = buf[d]
          /\ \A s \in Sessions : s # sess[c] => messages'[s] = messages[s]
          /\ messages'[sess[c]] = list /\ buf'[c] = list /\ pc'[c] = location
  BY DEF Assign, TypeOK
<1>2. StoreWhole'
  BY DEF WholeInv, StoreWhole
<1>3. CASE op[c] \in TurnOps /\ Assign(c, Append(current, User(c)), "llm")
  <2>1. AsksLast(Append(current, User(c)), c)
    BY AskedLast
  <2>2. CallWhole(c)' /\ InTurn(c)'
    BY <1>1, <1>3, <2>1 DEF CallWhole, InTurn
  <2>. QED  BY <1>1, <1>2, <1>3, <2>2, OwnStep
<1>4. CASE op[c] = "add" /\ Assign(c, Append(current, Note(c)), "saving")
  <2>1. WholeTurns(Append(current, Note(c)))
    BY NotedWhole
  <2>2. CallWhole(c)' /\ WholeTurns(messages'[sess[c]])
    BY <1>1, <1>4, <2>1 DEF CallWhole, InTurn
  <2>. QED  BY <1>1, <1>2, <1>4, <2>2, OwnStep
<1>5. CASE op[c] = "history" /\ Assign(c, current, "returned")
  <2>1. CallWhole(c)' /\ WholeTurns(messages'[sess[c]])
    BY <1>1, <1>5 DEF CallWhole, InTurn
  <2>. QED  BY <1>1, <1>2, <1>5, <2>1, OwnStep
<1>. QED  BY <1>3, <1>4, <1>5 DEF Proceed

LEMMA WholeInit == TypeOK /\ Init => WholeInv
<1>. SUFFICES ASSUME TypeOK, Init
              PROVE  WholeInv
  OBVIOUS
<1>1. WholeTurns(<< >>)
  BY DEF WholeTurns, QuestionsAnswered, AnswersAsked
<1>2. StoreWhole
  BY SessionAssumption DEF Init, StoreWhole
<1>. QED  BY <1>1, <1>2 DEF Init, WholeInv, SessionWhole, CallWhole, InTurn

LEMMA WholeCallStep ==
    ASSUME HistorySafe, TypeOK, LockInv, WholeInv,
           NEW c \in Calls, Uninterrupted(c), CallStep(c)
    PROVE  WholeInv'
<1>. DEFINE s == sess[c]
<1>0. /\ s \in Sessions /\ messages[s] \in Seq(Message) /\ buf[c] \in Seq(Message)
      /\ CallWhole(c) /\ SessionWhole(s) /\ StoreWhole
  BY DEF TypeOK, WholeInv
<1>a. ASSUME op[c] \in LockedOps, Holds(c)
      PROVE  \A d \in Calls : d # c /\ sess[d] = s => pc[d] \notin Critical
  BY <1>a, Alone
<1>b. ASSUME ~ loaded[s]
      PROVE  WholeTurns(messages[s])
  <2>1. \A d \in Calls : sess[d] = s => ~ InTurn(d)
    BY <1>b DEF WholeInv, CallWhole
  <2>. QED  BY <1>0, <2>1 DEF SessionWhole
<1>1. CASE Request(c)
  <2>1. CallWhole(c)' /\ StoreWhole' /\ ~ InTurn(c)
    BY <1>0, <1>1 DEF Request, CallWhole, InTurn, StoreWhole, TypeOK
  <2>. QED  BY <1>1, <2>1, OwnStep DEF Request, TypeOK
<1>2. CASE Enter(c)
  <2>0. op[c] \in LockedOps /\ Holds(c)
    BY <1>2 DEF Enter, LockInv
  <2>1. CASE op[c] = "clear" /\ Assign(c, Prompt(s), "saving")
             /\ loaded' = [loaded EXCEPT ![s] = TRUE]
    <3>1. WholeTurns(Prompt(s))
      BY <1>0, PromptWhole
    <3>2. /\ CallWhole(c)' /\ StoreWhole' /\ WholeTurns(messages'[s])
          /\ \A d \in Calls : d # c => pc'[d] = pc[d] /\ buf'[d] = buf[d]
          /\ \A r \in Sessions : r # s => messages'[r] = messages[r] /\ loaded'[r] = loaded[r]
      BY <1>0, <1>2, <2>1, <3>1 DEF Enter, Assign, CallWhole, InTurn, StoreWhole, TypeOK
    <3>. QED  BY <1>2, <1>a, <2>0, <3>2, OwnStep DEF Enter
  <2>2. CASE loaded[s] /\ Proceed(c, messages[s]) /\ UNCHANGED loaded
    <3>1. \A d \in Calls : d # c /\ sess[d] = s => pc[d] \notin Critical
      BY <1>a, <2>0
    <3>2. \A d \in Calls : sess[d] = s => ~ InTurn(d)
      BY <1>2, <3>1 DEF Enter, InTurn, Critical
    <3>3. WholeTurns(messages[s])
      BY <1>0, <3>2 DEF SessionWhole
    <3>. QED  BY <1>0, <1>2, <2>2, <3>1, <3>3, ProceedWhole DEF Enter
  <2>3. CASE ~ loaded[s] /\ pc' = [pc EXCEPT ![c] = "loading"]
             /\ UNCHANGED << messages, loaded, buf >>
    <3>1. CallWhole(c)' /\ StoreWhole' /\ ~ InTurn(c)
      BY <1>0, <1>2, <2>3 DEF Enter, CallWhole, InTurn, StoreWhole, TypeOK
    <3>. QED  BY <1>2, <2>3, <3>1, OwnStep DEF Enter, TypeOK
  <2>. QED  BY <1>2, <2>1, <2>2, <2>3 DEF Enter
<1>3. CASE History(c)
  <2>1. CASE loaded[s] /\ Proceed(c, messages[s])
    <3>1. Assign(c, messages[s], "returned")
      BY <1>3, <2>1 DEF History, Proceed, TurnOps
    <3>2. messages' = messages /\ UNCHANGED loaded
      BY <1>0, <1>3, <3>1 DEF Assign, History, TypeOK
    <3>3. CallWhole(c)' /\ StoreWhole' /\ ~ InTurn(c)
      BY <1>0, <1>3, <3>1 DEF History, Assign, CallWhole, InTurn, StoreWhole, TypeOK
    <3>. QED  BY <1>3, <3>1, <3>2, <3>3, OwnStep DEF History, Assign, TypeOK
  <2>2. CASE ~ loaded[s] /\ pc' = [pc EXCEPT ![c] = "loading"]
             /\ UNCHANGED << messages, buf >>
    <3>1. CallWhole(c)' /\ StoreWhole' /\ ~ InTurn(c)
      BY <1>0, <1>3, <2>2 DEF History, CallWhole, InTurn, StoreWhole, TypeOK
    <3>. QED  BY <1>3, <2>2, <3>1, OwnStep DEF History, TypeOK
  <2>. QED  BY <1>3, <2>1, <2>2 DEF History
<1>4. CASE StoreLoad(c)
  <2>1. CallWhole(c)' /\ StoreWhole' /\ ~ InTurn(c)
    BY <1>0, <1>4 DEF StoreLoad, CallWhole, InTurn, StoreWhole, TypeOK
  <2>. QED  BY <1>4, <2>1, OwnStep DEF StoreLoad, TypeOK
<1>5. CASE Loaded(c)
  <2>1. ~ loaded[s] /\ WholeTurns(buf[c])
    BY <1>0, <1>5 DEF Loaded, CallWhole
  <2>2. /\ AfterLoad(s, buf[c]) \in Seq(Message)
        /\ WholeTurns(AfterLoad(s, buf[c]))
    BY <1>0, <1>b, <2>1, PromptWhole DEF AfterLoad
  <2>3. \A d \in Calls : d # c /\ sess[d] = s => pc[d] \notin Critical
    <3>1. CASE op[c] \in LockedOps
      BY <1>5, <1>a, <3>1 DEF Loaded, LockInv, Critical
    <3>2. CASE op[c] \notin LockedOps
      <4>1. op[c] = "history"
        BY <1>5, <3>2, SessionAssumption DEF Loaded, LockInv, TypeOK
      <4>2. InMemory
        BY <4>1 DEF HistorySafe, TypeOK
      <4>. QED  BY <2>1, <4>2 DEF Uninterrupted, OnStore, WholeInv, CallWhole, InTurn, Critical
    <3>. QED  BY <3>1, <3>2
  <2>4. loaded'[s] /\ \A r \in Sessions : r # s => loaded'[r] = loaded[r]
    BY <1>0, <1>5 DEF Loaded, TypeOK
  <2>5. Proceed(c, AfterLoad(s, buf[c])) /\ UNCHANGED << store, sess, op >>
    BY <1>5 DEF Loaded
  <2>. QED  BY <2>2, <2>3, <2>4, <2>5, ProceedWhole
<1>6. CASE Chunk(c)
  <2>1. CallWhole(c)' /\ StoreWhole' /\ InTurn(c)'
    BY <1>0, <1>6 DEF Chunk, CallWhole, InTurn, StoreWhole, TypeOK
  <2>. QED  BY <1>6, <2>1, OwnStep DEF Chunk, TypeOK
<1>7. CASE Resume(c)
  <2>1. CallWhole(c)' /\ StoreWhole' /\ InTurn(c)'
    BY <1>0, <1>7 DEF Resume, CallWhole, InTurn, StoreWhole, TypeOK
  <2>. QED  BY <1>7, <2>1, OwnStep DEF Resume, TypeOK
<1>8. CASE Respond(c)
  <2>0. op[c] \in LockedOps /\ Holds(c) /\ InTurn(c)
    BY <1>8 DEF Respond, LockInv, InTurn, Critical
  <2>1. WholeTurns(Append(messages[s], Assistant(c)))
    BY <1>0, <2>0, AnsweredWhole DEF CallWhole
  <2>2. /\ CallWhole(c)' /\ StoreWhole' /\ WholeTurns(messages'[s])
        /\ \A d \in Calls : d # c => pc'[d] = pc[d] /\ buf'[d] = buf[d]
        /\ \A r \in Sessions : r # s => messages'[r] = messages[r]
    BY <1>0, <1>8, <2>1 DEF Respond, Assign, CallWhole, InTurn, StoreWhole, TypeOK
  <2>. QED  BY <1>8, <1>a, <2>0, <2>2, OwnStep DEF Respond
<1>9. CASE TurnRaises(c)
  <2>0. op[c] \in LockedOps /\ Holds(c) /\ InTurn(c)
    BY <1>9 DEF TurnRaises, LockInv, InTurn, Critical
  <2>1. WholeTurns(Front(messages[s]))
    BY <1>0, <2>0, RolledBack DEF CallWhole
  <2>2. /\ CallWhole(c)' /\ StoreWhole' /\ WholeTurns(messages'[s])
        /\ \A d \in Calls : d # c => pc'[d] = pc[d] /\ buf'[d] = buf[d]
        /\ \A r \in Sessions : r # s => messages'[r] = messages[r]
    BY <1>0, <1>9, <2>1 DEF TurnRaises, Release, CallWhole, InTurn, StoreWhole, TypeOK
  <2>. QED  BY <1>9, <1>a, <2>0, <2>2, OwnStep DEF TurnRaises
<1>10. CASE StoreSave(c)
  <2>1. CallWhole(c)' /\ StoreWhole' /\ ~ InTurn(c)
    BY <1>0, <1>10 DEF StoreSave, CallWhole, InTurn, StoreWhole, TypeOK
  <2>. QED  BY <1>10, <2>1, OwnStep DEF StoreSave, TypeOK
<1>11. CASE SaveReturns(c)
  <2>1. CallWhole(c)' /\ StoreWhole' /\ ~ InTurn(c)
    BY <1>0, <1>11 DEF SaveReturns, Release, CallWhole, InTurn, StoreWhole, TypeOK
  <2>. QED  BY <1>11, <2>1, OwnStep DEF SaveReturns, Release, TypeOK
<1>12. CASE StoreRaises(c)
  <2>1. CallWhole(c)' /\ StoreWhole' /\ ~ InTurn(c)
    BY <1>0, <1>12 DEF StoreRaises, OnStore, Release, CallWhole, InTurn, StoreWhole, TypeOK
  <2>. QED  BY <1>12, <2>1, OwnStep DEF StoreRaises, Release, TypeOK
<1>13. CASE CancelWaiting(c)
  <2>1. CallWhole(c)' /\ StoreWhole' /\ ~ InTurn(c)
    BY <1>0, <1>13 DEF CancelWaiting, CallWhole, InTurn, StoreWhole, TypeOK
  <2>. QED  BY <1>13, <2>1, OwnStep DEF CancelWaiting, TypeOK
<1>14. CASE Delete(c)
  <2>1. WholeTurns(<< >>)
    BY DEF WholeTurns, QuestionsAnswered, AnswersAsked
  <2>2. CallWhole(c)' /\ StoreWhole' /\ ~ InTurn(c)
    BY <1>0, <1>14, <2>1 DEF Delete, CallWhole, InTurn, StoreWhole, TypeOK
  <2>. QED  BY <1>14, <2>2, OwnStep DEF Delete, TypeOK
<1>. QED  BY <1>1, <1>2, <1>3, <1>4, <1>5, <1>6, <1>7, <1>8, <1>9,
             <1>10, <1>11, <1>12, <1>13, <1>14 DEF CallStep

(* A restart forgets what the session had in memory, and its calls.        *)
LEMMA WholeRestart ==
    ASSUME TypeOK, WholeInv, NEW s \in Sessions, Restart(s)
    PROVE  WholeInv'
<1>1. \A c \in Calls : pc'[c] = IF sess[c] = s /\ Active(c) THEN "lost" ELSE pc[c]
  BY DEF Restart
<1>2. /\ messages'[s] = << >> /\ UNCHANGED << store, sess, buf >>
      /\ \A r \in Sessions : r # s => messages'[r] = messages[r] /\ loaded'[r] = loaded[r]
  BY DEF Restart, TypeOK
<1>3. WholeTurns(<< >>)
  BY DEF WholeTurns, QuestionsAnswered, AnswersAsked
<1>4. ASSUME NEW c \in Calls
      PROVE  CallWhole(c)'
  <2>1. CASE sess[c] = s
    BY <1>1, <2>1 DEF CallWhole, InTurn, Active, Ended, TypeOK
  <2>2. CASE sess[c] # s
    BY <1>1, <1>2, <2>2 DEF CallWhole, InTurn, WholeInv, TypeOK
  <2>. QED  BY <2>1, <2>2
<1>5. ASSUME NEW r \in Sessions
      PROVE  SessionWhole(r)'
  BY <1>1, <1>2, <1>3 DEF SessionWhole, InTurn, WholeInv
<1>. QED  BY <1>2, <1>4, <1>5 DEF WholeInv, StoreWhole

LEMMA WholeStep ==
    HistorySafe /\ TypeOK /\ LockInv /\ WholeInv /\ [Next]_vars => WholeInv'
<1>. SUFFICES ASSUME HistorySafe, TypeOK, LockInv, WholeInv, [Next]_vars
              PROVE  WholeInv'
  OBVIOUS
<1>1. CASE UNCHANGED vars
  BY <1>1 DEF vars, WholeInv, StoreWhole, SessionWhole, CallWhole, InTurn
<1>2. CASE \E c \in Calls : Uninterrupted(c) /\ CallStep(c)
  BY <1>2, WholeCallStep
<1>3. CASE \E s \in Sessions : Restart(s)
  BY <1>3, WholeRestart
<1>. QED  BY <1>1, <1>2, <1>3 DEF Next

LEMMA SessionInvariant ==
    ASSUME HistorySafe
    PROVE  Spec => [](TypeOK /\ LockInv /\ WholeInv)
<1>1. Init => TypeOK /\ LockInv /\ WholeInv
  BY TypeInit, WholeInit
<1>2. TypeOK /\ LockInv /\ WholeInv /\ [Next]_vars => TypeOK' /\ LockInv' /\ WholeInv'
  BY HistorySafe, TypeStep, WholeStep
<1>. QED  BY <1>1, <1>2, PTL DEF Spec

(* What is in memory is whole, but for the question of a turn under way.   *)
LEMMA MemoryIsWhole == WholeInv => ConversationsWhole
<1>1. SUFFICES ASSUME WholeInv, NEW s \in Sessions, ~ WholeTurns(messages[s])
               PROVE  \E c \in Calls : /\ sess[c] = s /\ InTurn(c)
                                       /\ AsksLast(messages[s], c)
  BY DEF WholeInv, ConversationsWhole, MemoryWhole
<1>2. PICK c \in Calls : sess[c] = s /\ InTurn(c)
  BY <1>1 DEF WholeInv, SessionWhole
<1>. QED  BY <1>1, <1>2 DEF WholeInv, CallWhole

(* Guarantees 2 and 3 of README.md:191-199, for any number of clients,     *)
(* calls, cancellations, store failures and restarts: what the store holds *)
(* is whole turns, and so is what each session has in memory but for the   *)
(* open question of the turn under way.                                    *)
THEOREM ConversationsNeverCorrupted ==
    ASSUME HistorySafe
    PROVE  Spec => []ConversationsWhole
BY HistorySafe, MemoryIsWhole, SessionInvariant, PTL

(* The model is never asked anything but whole turns and one question.     *)
THEOREM RequestsAlwaysWhole ==
    ASSUME HistorySafe
    PROVE  Spec => []RequestsWhole
<1>1. WholeInv => RequestsWhole
  BY DEF WholeInv, CallWhole, RequestsWhole
<1>. QED  BY HistorySafe, <1>1, SessionInvariant, PTL

(* A failed, cancelled or abandoned turn takes back exactly its question.  *)
THEOREM RollbacksAlwaysExact ==
    ASSUME HistorySafe
    PROVE  Spec => RollbacksExact
<1>1. TypeOK /\ LockInv /\ WholeInv /\ [Next]_vars => [RollbackExact]_vars
  <2>. SUFFICES ASSUME TypeOK, WholeInv, Next, NEW c \in Calls, InTurn(c), pc'[c] = "raised"
                PROVE  messages[sess[c]] = Append(messages'[sess[c]], User(c))
    BY DEF RollbackExact, vars
  <2>1. TurnRaises(c)
    <3>1. CASE \E s \in Sessions : Restart(s)
      BY <3>1 DEF Restart, InTurn
    <3>2. ASSUME NEW d \in Calls, d # c, CallStep(d)
          PROVE  pc'[c] = pc[c]
      BY <3>2 DEF CallStep, Request, Enter, History, StoreLoad, Loaded, Chunk, Resume,
           Respond, TurnRaises, StoreSave, SaveReturns, StoreRaises, CancelWaiting,
           Delete, Proceed, Assign, Release, TypeOK
    <3>3. CASE CallStep(c)
      BY <3>3 DEF CallStep, Request, Enter, History, StoreLoad, Loaded, Chunk, Resume,
           Respond, StoreSave, SaveReturns, StoreRaises, OnStore, CancelWaiting,
           Delete, Assign, InTurn, TypeOK
    <3>. QED  BY <3>1, <3>2, <3>3 DEF Next, InTurn
  <2>2. messages[sess[c]] \in Seq(Message) /\ AsksLast(messages[sess[c]], c)
    BY DEF WholeInv, CallWhole, TypeOK
  <2>3. messages'[sess[c]] = Front(messages[sess[c]])
    BY <2>1 DEF TurnRaises, TypeOK
  <2>. QED  BY <2>2, <2>3, RolledBack
<1>. QED  BY HistorySafe, <1>1, SessionInvariant, PTL DEF Spec, RollbacksExact

-----------------------------------------------------------------------------
(* What a step of one call leaves alone.                                   *)

(* It moves no other call, and touches no other session.                   *)
LEMMA OthersStay ==
    ASSUME TypeOK, NEW c \in Calls, CallStep(c)
    PROVE  /\ UNCHANGED << op, sess >>
           /\ \A d \in Calls : d # c => pc'[d] = pc[d] /\ buf'[d] = buf[d]
           /\ \A s \in Sessions : s # sess[c] =>
                 messages'[s] = messages[s] /\ loaded'[s] = loaded[s]
<1>. USE DEF TypeOK
<1>1. CASE Request(c)
  BY <1>1 DEF Request
<1>2. CASE Enter(c)
  BY <1>2 DEF Enter, Proceed, Assign
<1>3. CASE History(c)
  BY <1>3 DEF History, Proceed, Assign
<1>4. CASE StoreLoad(c)
  BY <1>4 DEF StoreLoad
<1>5. CASE Loaded(c)
  BY <1>5 DEF Loaded, Proceed, Assign
<1>6. CASE Chunk(c) \/ Resume(c)
  BY <1>6 DEF Chunk, Resume
<1>7. CASE Respond(c)
  BY <1>7 DEF Respond, Assign
<1>8. CASE TurnRaises(c)
  BY <1>8 DEF TurnRaises, Release
<1>9. CASE StoreSave(c) \/ SaveReturns(c)
  BY <1>9 DEF StoreSave, SaveReturns, Release
<1>10. CASE StoreRaises(c) \/ CancelWaiting(c) \/ Delete(c)
  BY <1>10 DEF StoreRaises, CancelWaiting, Delete, Release
<1>. QED  BY <1>1, <1>2, <1>3, <1>4, <1>5, <1>6, <1>7, <1>8, <1>9, <1>10 DEF CallStep

(* What a call has assigned, and where an operation proceeds to.           *)
LEMMA Assigned ==
    ASSUME TypeOK, NEW c \in Calls, NEW list, NEW location, Assign(c, list, location)
    PROVE  messages'[sess[c]] = list /\ buf'[c] = list /\ pc'[c] = location
BY DEF Assign, TypeOK

LEMMA Proceeded ==
    ASSUME TypeOK, NEW c \in Calls, NEW current, Proceed(c, current)
    PROVE  /\ messages'[sess[c]] = buf'[c]
           /\ \/ /\ op[c] \in TurnOps /\ pc'[c] = "llm"
                 /\ buf'[c] = Append(current, User(c))
              \/ /\ op[c] = "add" /\ pc'[c] = "saving"
                 /\ buf'[c] = Append(current, Note(c))
              \/ /\ op[c] = "history" /\ pc'[c] = "returned"
                 /\ buf'[c] = current
BY Assigned DEF Proceed

(* Only a call that has its session to itself changes what is in memory.   *)
LEMMA ChangesAlone ==
    ASSUME HistorySafe, TypeOK, LockInv, WholeInv,
           NEW c \in Calls, Uninterrupted(c), CallStep(c)
    PROVE  \/ UNCHANGED << messages, loaded >>
           \/ \A d \in Calls : d # c /\ sess[d] = sess[c] => pc[d] \notin Critical
<1>1. SUFFICES ASSUME ~ UNCHANGED << messages, loaded >>
               PROVE  \A d \in Calls : d # c /\ sess[d] = sess[c] => pc[d] \notin Critical
  OBVIOUS
<1>2. CASE op[c] \in LockedOps /\ Holds(c)
  BY <1>2, Alone
<1>3. CASE ~ (op[c] \in LockedOps /\ Holds(c))
  <2>1. pc[c] \in Critical => op[c] \notin LockedOps
    BY <1>3 DEF LockInv
  <2>2. CASE Loaded(c)
    <3>1. op[c] = "history"
      BY <2>1, <2>2, SessionAssumption DEF Loaded, LockInv, Critical, TypeOK
    <3>2. InMemory
      BY <3>1 DEF HistorySafe, TypeOK
    <3>3. ~ loaded[sess[c]]
      BY <2>2 DEF Loaded, WholeInv, CallWhole
    <3>. QED  BY <3>2, <3>3
               DEF Uninterrupted, OnStore, WholeInv, CallWhole, InTurn, Critical, LockInv
  <2>3. CASE History(c)
    BY <1>1, <2>3 DEF History, Proceed, Assign, TurnOps, TypeOK
  <2>4. CASE Enter(c)
    BY <1>3, <2>4 DEF Enter, LockInv
  <2>5. CASE Respond(c)
    BY <2>1, <2>5 DEF Respond, LockInv, Critical
  <2>6. CASE TurnRaises(c)
    BY <2>1, <2>6 DEF TurnRaises, InTurn, LockInv, Critical
  <2>. QED  BY <1>1, <2>2, <2>3, <2>4, <2>5, <2>6
             DEF CallStep, Request, StoreLoad, Chunk, Resume, StoreSave, SaveReturns,
                 StoreRaises, CancelWaiting, Delete
<1>. QED  BY <1>2, <1>3

(* A store that never suspends serves one call at a time.                  *)
LEMMA OneOnStoreInit == Init => OneOnStore
BY DEF Init, OneOnStore, OnStore

LEMMA OneOnStoreStep == TypeOK /\ OneOnStore /\ [Next]_vars => OneOnStore'
<1>. SUFFICES ASSUME TypeOK, OneOnStore, [Next]_vars, InMemory
              PROVE  \A c, d \in Calls : OnStore(c)' /\ OnStore(d)' => c = d
  BY DEF OneOnStore
<1>1. CASE UNCHANGED vars
  BY <1>1 DEF vars, OneOnStore, OnStore
<1>2. ASSUME NEW c \in Calls, Uninterrupted(c), CallStep(c)
      PROVE  \A d, e \in Calls : OnStore(d)' /\ OnStore(e)' => d = e
  <2>1. \A d \in Calls : d # c => ~ OnStore(d)
    BY <1>2 DEF Uninterrupted
  <2>2. \A d \in Calls : d # c => ~ OnStore(d)'
    BY <1>2, <2>1, OthersStay DEF OnStore
  <2>. QED  BY <2>2
<1>3. ASSUME NEW s \in Sessions, Restart(s)
      PROVE  \A c, d \in Calls : OnStore(c)' /\ OnStore(d)' => c = d
  BY <1>3 DEF Restart, OneOnStore, OnStore, TypeOK
<1>. QED  BY <1>1, <1>2, <1>3 DEF Next

-----------------------------------------------------------------------------
(* What is in memory, and what is being saved.                             *)

LEMMA CacheInit == Init => CacheInv
BY DEF Init, CacheInv

(* For the lists of the other calls, see OthersStay and ChangesAlone.      *)
LEMMA OwnCache ==
    ASSUME HistorySafe, TypeOK, LockInv, WholeInv, CacheInv,
           NEW c \in Calls, Uninterrupted(c), CallStep(c),
           ~ loaded'[sess[c]] => messages'[sess[c]] = << >>,
           pc'[c] \in {"saving", "applied"} =>
               loaded'[sess[c]] /\ messages'[sess[c]] = buf'[c]
    PROVE  CacheInv'
<1>1. ASSUME NEW s \in Sessions, ~ loaded'[s]
      PROVE  messages'[s] = << >>
  BY <1>1, OthersStay DEF CacheInv
<1>2. ASSUME NEW d \in Calls, pc'[d] \in {"saving", "applied"}
      PROVE  loaded'[sess'[d]] /\ messages'[sess'[d]] = buf'[d]
  <2>0. sess[d] \in Sessions /\ sess' = sess
    BY OthersStay DEF TypeOK
  <2>1. CASE d = c
    BY <1>2, <2>0, <2>1
  <2>2. CASE d # c
    <3>1. pc[d] \in {"saving", "applied"} /\ buf'[d] = buf[d]
      BY <1>2, <2>2, OthersStay
    <3>2. loaded[sess[d]] /\ messages[sess[d]] = buf[d]
      BY <3>1 DEF CacheInv
    <3>3. CASE sess[d] # sess[c]
      BY <2>0, <3>1, <3>2, <3>3, OthersStay
    <3>4. CASE sess[d] = sess[c]
      BY <2>0, <2>2, <3>1, <3>2, <3>4, ChangesAlone DEF Critical
    <3>. QED  BY <3>3, <3>4
  <2>. QED  BY <2>1, <2>2
<1>. QED  BY <1>1, <1>2 DEF CacheInv

LEMMA CacheCallStep ==
    ASSUME HistorySafe, TypeOK, LockInv, WholeInv, CacheInv,
           NEW c \in Calls, Uninterrupted(c), CallStep(c)
    PROVE  CacheInv'
<1>. DEFINE s == sess[c]
<1>0. /\ s \in Sessions
      /\ ~ loaded[s] => messages[s] = << >>
      /\ pc[c] \in {"saving", "applied"} => loaded[s] /\ messages[s] = buf[c]
      /\ InTurn(c) => loaded[s]
  BY DEF TypeOK, CacheInv, WholeInv, CallWhole
<1>1. SUFFICES /\ ~ loaded'[s] => messages'[s] = << >>
               /\ pc'[c] \in {"saving", "applied"} => loaded'[s] /\ messages'[s] = buf'[c]
  BY OwnCache
<1>. USE DEF TypeOK
<1>2. CASE Enter(c)
  <2>1. CASE Assign(c, Prompt(s), "saving") /\ loaded' = [loaded EXCEPT ![s] = TRUE]
    BY <1>0, <2>1, Assigned
  <2>2. CASE loaded[s] /\ Proceed(c, messages[s]) /\ UNCHANGED loaded
    BY <1>0, <2>2, Proceeded
  <2>3. CASE pc' = [pc EXCEPT ![c] = "loading"] /\ UNCHANGED << messages, loaded, buf >>
    BY <1>0, <2>3
  <2>. QED  BY <1>2, <2>1, <2>2, <2>3 DEF Enter
<1>3. CASE History(c)
  <2>1. CASE loaded[s] /\ Proceed(c, messages[s]) /\ UNCHANGED loaded
    BY <1>0, <2>1, Proceeded
  <2>2. CASE pc' = [pc EXCEPT ![c] = "loading"] /\ UNCHANGED << messages, loaded, buf >>
    BY <1>0, <2>2
  <2>. QED  BY <1>3, <2>1, <2>2 DEF History
<1>4. CASE Loaded(c)
  <2>1. loaded'[s] /\ Proceed(c, AfterLoad(s, buf[c]))
    BY <1>0, <1>4 DEF Loaded
  <2>. QED  BY <2>1, Proceeded
<1>5. CASE Respond(c)
  <2>1. loaded'[s] /\ Assign(c, Append(messages[s], Assistant(c)), "saving")
    BY <1>0, <1>5 DEF Respond, InTurn
  <2>. QED  BY <2>1, Assigned
<1>6. CASE TurnRaises(c)
  BY <1>0, <1>6 DEF TurnRaises, Release
<1>7. CASE Request(c) \/ StoreLoad(c) \/ Chunk(c) \/ Resume(c)
  BY <1>0, <1>7 DEF Request, StoreLoad, Chunk, Resume
<1>8. CASE StoreSave(c) \/ SaveReturns(c)
  BY <1>0, <1>8 DEF StoreSave, SaveReturns, Release
<1>9. CASE StoreRaises(c) \/ CancelWaiting(c) \/ Delete(c)
  BY <1>0, <1>9 DEF StoreRaises, CancelWaiting, Delete, Release
<1>. QED  BY <1>2, <1>3, <1>4, <1>5, <1>6, <1>7, <1>8, <1>9 DEF CallStep

LEMMA CacheStep ==
    HistorySafe /\ TypeOK /\ LockInv /\ WholeInv /\ CacheInv /\ [Next]_vars => CacheInv'
<1>. SUFFICES ASSUME HistorySafe, TypeOK, LockInv, WholeInv, CacheInv, [Next]_vars
              PROVE  CacheInv'
  OBVIOUS
<1>1. CASE UNCHANGED vars
  BY <1>1 DEF vars, CacheInv
<1>2. CASE \E c \in Calls : Uninterrupted(c) /\ CallStep(c)
  BY <1>2, CacheCallStep
<1>3. ASSUME NEW s \in Sessions, Restart(s)
      PROVE  CacheInv'
  <2>1. /\ \A c \in Calls : pc'[c] = IF sess[c] = s /\ Active(c) THEN "lost" ELSE pc[c]
        /\ \A r \in Sessions : r # s => messages'[r] = messages[r] /\ loaded'[r] = loaded[r]
        /\ messages'[s] = << >> /\ UNCHANGED << sess, buf >>
    BY <1>3 DEF Restart, TypeOK
  <2>. QED  BY <2>1 DEF CacheInv, Active, Ended, TypeOK
<1>. QED  BY <1>1, <1>2, <1>3 DEF Next

-----------------------------------------------------------------------------
(* No trace of failed turns.                                               *)

LEMMA WithoutAppend ==
    ASSUME NEW list \in Seq(Message), NEW m \in Message, NEW a,
           Without(list, a), m.by # a
    PROVE  Without(Append(list, m), a)
BY DEF Without

LEMMA WithoutFront ==
    ASSUME NEW list \in Seq(Message), list # << >>, NEW a, Without(list, a)
    PROVE  Without(Front(list), a)
<1>1. /\ Len(list) \in Nat
      /\ Len(Front(list)) = Len(list) - 1
      /\ \A i \in 1 .. Len(list) - 1 : Front(list)[i] = list[i]
  BY FrontOfList
<1>. QED  BY <1>1 DEF Without

LEMMA WithoutPrompt ==
    ASSUME NEW s, NEW a \in Calls
    PROVE  Without(<< >>, a) /\ Without(Prompt(s), a)
BY PriorAssumption DEF Without, Prompt, System

(* The conversation that AfterLoad finds.                                  *)
LEMMA FoundAfterLoad ==
    ASSUME TypeOK, CacheInv, NEW c \in Calls, ~ loaded[sess[c]]
    PROVE  AfterLoad(sess[c], buf[c]) =
             IF buf[c] # << >> THEN buf[c] ELSE Prompt(sess[c])
BY DEF AfterLoad, Prompt, CacheInv, TypeOK

(* What was said cannot be unsaid.                                         *)
LEMMA SpokenStays ==
    ASSUME TypeOK, NEW c \in Calls, CallStep(c), NEW a \in Calls, Spoken(a)
    PROVE  Spoken(a)'
<1>1. CASE a # c
  BY <1>1, OthersStay DEF Spoken
<1>2. CASE a = c
  <2>1. pc[c] \in {"saving", "applied"} \cup Ended
    BY <1>2 DEF Spoken
  <2>2. StoreSave(c) \/ SaveReturns(c) \/ StoreRaises(c)
    BY <2>1 DEF CallStep, Request, Enter, History, StoreLoad, Loaded, Chunk, Resume,
        Respond, TurnRaises, CancelWaiting, Delete, InTurn, Ended
  <2>3. pc'[c] \in {"saving", "applied"} \cup Ended /\ UNCHANGED << buf, op >>
    BY <2>2 DEF StoreSave, SaveReturns, StoreRaises, Release, Ended, TypeOK
  <2>. QED  BY <1>2, <2>3 DEF Spoken
<1>. QED  BY <1>1, <1>2

LEMMA OwnTrace ==
    ASSUME TypeOK, NEW c \in Calls, CallStep(c), NEW a \in Calls, Unheard(a),
           Without(store', a),
           pc'[c] \in {"read", "saving", "applied"} => Without(buf'[c], a),
           Without(IF InTurn(a)' /\ sess[a] = sess[c]
                   THEN Front(messages'[sess[c]]) ELSE messages'[sess[c]], a)
    PROVE  Unheard(a)'
<1>1. ASSUME NEW d \in Calls, pc'[d] \in {"read", "saving", "applied"}
      PROVE  Without(buf'[d], a)
  BY <1>1, OthersStay DEF Unheard
<1>2. ASSUME NEW s \in Sessions
      PROVE  Without(IF InTurn(a)' /\ s = sess[a]
                     THEN Front(messages'[s]) ELSE messages'[s], a)
  <2>1. CASE s = sess[c]
    BY <2>1
  <2>2. CASE s # sess[c]
    <3>1. messages'[s] = messages[s] /\ (s = sess[a] => InTurn(a)' = InTurn(a))
      BY <2>2, OthersStay DEF InTurn
    <3>2. Without(IF InTurn(a) /\ s = sess[a] THEN Front(messages[s]) ELSE messages[s], a)
      BY DEF Unheard
    <3>. QED  BY <3>1, <3>2
  <2>. QED  BY <2>1, <2>2
<1>3. sess' = sess
  BY OthersStay
<1>. QED  BY <1>1, <1>2, <1>3 DEF Unheard

(* An operation proceeds from a conversation without a.                    *)
LEMMA ProceedTrace ==
    ASSUME TypeOK, NEW c \in Calls, CallStep(c), NEW a \in Calls, Unheard(a),
           ~ Spoken(a)', UNCHANGED store,
           NEW current \in Seq(Message), Without(current, a), Proceed(c, current),
           \A d \in Calls : d # c /\ sess[d] = sess[c] => pc[d] \notin Critical
    PROVE  Unheard(a)'
<1>1. Without(store', a)
  BY DEF Unheard
<1>2. User(c) \in Message /\ User(c).by = c /\ Note(c) \in Message /\ Note(c).by = c
  BY DEF User, Note, Message, Roles
<1>3. a # c /\ sess[a] = sess[c] => ~ InTurn(a)'
  BY OthersStay DEF InTurn, Critical
<1>4. CASE op[c] \in TurnOps /\ pc'[c] = "llm" /\ buf'[c] = Append(current, User(c))
  <2>1. messages'[sess[c]] = Append(current, User(c))
    BY <1>4, Proceeded
  <2>2. Front(Append(current, User(c))) = current
    BY <1>2 DEF Front
  <2>3. a = c => InTurn(a)'
    BY <1>4 DEF InTurn
  <2>4. a # c => Without(Append(current, User(c)), a)
    BY <1>2, WithoutAppend
  <2>. QED  BY <1>1, <1>3, <1>4, <2>1, <2>2, <2>3, <2>4, OwnTrace
<1>5. CASE op[c] = "add" /\ pc'[c] = "saving" /\ buf'[c] = Append(current, Note(c))
  <2>1. messages'[sess[c]] = Append(current, Note(c))
    BY <1>5, Proceeded
  <2>2. op' = op
    BY OthersStay
  <2>3. a # c
    BY <1>5, <2>2 DEF Spoken, TurnOps
  <2>4. Without(Append(current, Note(c)), a)
    BY <1>2, <2>3, WithoutAppend
  <2>. QED  BY <1>1, <1>3, <1>5, <2>1, <2>3, <2>4, OwnTrace
<1>6. CASE op[c] = "history" /\ pc'[c] = "returned" /\ buf'[c] = current
  <2>1. messages'[sess[c]] = current
    BY <1>6, Proceeded
  <2>2. ~ (InTurn(a)' /\ sess[a] = sess[c])
    BY <1>3, <1>6 DEF InTurn
  <2>. QED  BY <1>1, <1>6, <2>1, <2>2, OwnTrace
<1>. QED  BY <1>4, <1>5, <1>6, Proceeded

LEMMA TraceInit == TypeOK /\ Init => TraceInv
<1>. SUFFICES ASSUME TypeOK, Init, NEW a \in Calls
              PROVE  Unheard(a)
  BY DEF TraceInv
<1>1. store \in SavedBefore
  BY DEF Init
<1>2. Without(store, a)
  BY <1>1, SessionAssumption, PriorAssumption DEF Without
<1>3. \A s \in Sessions : messages[s] = << >> /\ ~ InTurn(a)
  BY DEF Init, InTurn
<1>4. Without(<< >>, a)
  BY DEF Without
<1>5. \A d \in Calls : pc[d] \notin {"read", "saving", "applied"}
  BY DEF Init
<1>. QED  BY <1>2, <1>3, <1>4, <1>5 DEF Unheard

LEMMA TraceCallStep ==
    ASSUME HistorySafe, TypeOK, LockInv, WholeInv, CacheInv, TraceInv,
           NEW c \in Calls, Uninterrupted(c), CallStep(c)
    PROVE  TraceInv'
<1>. SUFFICES ASSUME NEW a \in Calls, ~ Spoken(a)'
              PROVE  Unheard(a)'
  BY DEF TraceInv
<1>. DEFINE s == sess[c]
<1>0. /\ s \in Sessions /\ messages[s] \in Seq(Message) /\ buf[c] \in Seq(Message)
      /\ Unheard(a)
  BY SpokenStays DEF TypeOK, TraceInv
<1>a. /\ Without(store, a)
      /\ pc[c] \in {"read", "saving", "applied"} => Without(buf[c], a)
      /\ Without(IF InTurn(a) /\ sess[a] = s THEN Front(messages[s]) ELSE messages[s], a)
  BY <1>0 DEF Unheard
<1>b. Without(<< >>, a) /\ Without(Prompt(s), a) /\ Prompt(s) \in Seq(Message)
  BY <1>0, WithoutPrompt, PromptWhole
<1>c. ASSUME messages'[s] = messages[s],
             a = c => InTurn(a)' = InTurn(a),
             Without(store', a),
             pc'[c] \in {"read", "saving", "applied"} => Without(buf'[c], a)
      PROVE  Unheard(a)'
  <2>1. InTurn(a)' = InTurn(a)
    BY <1>c, OthersStay DEF InTurn
  <2>. QED  BY <1>0, <1>a, <1>c, <2>1, OwnTrace
<1>d. ASSUME op[c] \in LockedOps, Holds(c)
      PROVE  /\ \A d \in Calls : d # c /\ sess[d] = s => pc[d] \notin Critical
             /\ a # c => Without(messages[s], a) /\ ~ (InTurn(a)' /\ sess[a] = s)
  <2>1. \A d \in Calls : d # c /\ sess[d] = s => pc[d] \notin Critical
    BY <1>d, Alone
  <2>2. a # c => ~ (InTurn(a) /\ sess[a] = s) /\ ~ (InTurn(a)' /\ sess[a] = s)
    BY <2>1, OthersStay DEF InTurn, Critical
  <2>. QED  BY <1>a, <2>1, <2>2
<1>1. CASE Enter(c)
  <2>0. op[c] \in LockedOps /\ Holds(c) /\ ~ InTurn(c) /\ UNCHANGED store
    BY <1>1 DEF Enter, LockInv, InTurn
  <2>1. CASE op[c] = "clear" /\ Assign(c, Prompt(s), "saving")
    <3>1. messages'[s] = Prompt(s) /\ buf'[c] = Prompt(s) /\ pc'[c] = "saving"
      BY <2>1, Assigned
    <3>2. ~ (InTurn(a)' /\ sess[a] = s)
      BY <1>d, <2>0, <3>1 DEF InTurn
    <3>. QED  BY <1>0, <1>a, <1>b, <2>0, <3>1, <3>2, OwnTrace
  <2>2. CASE Proceed(c, messages[s])
    BY <1>0, <1>a, <1>d, <2>0, <2>2, ProceedTrace
  <2>3. CASE pc' = [pc EXCEPT ![c] = "loading"] /\ UNCHANGED << messages, buf >>
    BY <1>a, <1>c, <2>0, <2>3 DEF TypeOK, InTurn
  <2>. QED  BY <1>1, <2>1, <2>2, <2>3 DEF Enter
<1>2. CASE History(c)
  <2>1. UNCHANGED << messages, store >> /\ pc'[c] \in {"returned", "loading"} /\ pc[c] = "idle"
    BY <1>2 DEF History, Proceed, Assign, TurnOps, TypeOK
  <2>. QED  BY <1>a, <1>c, <2>1 DEF InTurn
<1>3. CASE Loaded(c)
  <2>0. /\ pc[c] = "read" /\ ~ loaded[s] /\ UNCHANGED store /\ loaded'[s]
        /\ Proceed(c, AfterLoad(s, buf[c]))
    BY <1>0, <1>3 DEF Loaded, WholeInv, CallWhole, TypeOK
  <2>1. AfterLoad(s, buf[c]) = IF buf[c] # << >> THEN buf[c] ELSE Prompt(s)
    BY <2>0, FoundAfterLoad
  <2>2. AfterLoad(s, buf[c]) \in Seq(Message) /\ Without(AfterLoad(s, buf[c]), a)
    BY <1>0, <1>a, <1>b, <2>0, <2>1
  <2>3. \A d \in Calls : d # c /\ sess[d] = s => pc[d] \notin Critical
    BY <2>0, ChangesAlone
  <2>. QED  BY <1>0, <2>0, <2>2, <2>3, ProceedTrace
<1>4. CASE Respond(c)
  <2>0. op[c] \in LockedOps /\ Holds(c) /\ UNCHANGED << store, op >>
    BY <1>4 DEF Respond, LockInv, Critical
  <2>1. Assistant(c) \in Message /\ Assistant(c).by = c
    BY DEF Assistant, Message, Roles
  <2>. DEFINE whole == Append(messages[s], Assistant(c))
  <2>2. whole # << >> /\ Last(whole) = Assistant(c)
    BY <1>0, <2>1 DEF Last
  <2>3. messages'[s] = whole /\ buf'[c] = whole /\ pc'[c] = "saving"
    BY <1>4, Assigned DEF Respond
  <2>. HIDE DEF whole
  <2>4. a # c
    BY <2>2, <2>3 DEF Spoken
  <2>5. Without(whole, a)
    BY <1>0, <1>d, <2>0, <2>1, <2>4, WithoutAppend DEF whole
  <2>. QED  BY <1>0, <1>a, <1>d, <2>0, <2>3, <2>4, <2>5, OwnTrace
<1>5. CASE TurnRaises(c)
  <2>0. /\ op[c] \in LockedOps /\ Holds(c) /\ UNCHANGED store /\ InTurn(c)
        /\ messages'[s] = Front(messages[s]) /\ pc'[c] = "raised"
    BY <1>5 DEF TurnRaises, InTurn, LockInv, Critical, Release, TypeOK
  <2>1. messages[s] # << >>
    BY <2>0 DEF WholeInv, CallWhole, AsksLast
  <2>2. Without(Front(messages[s]), a)
    BY <1>0, <1>a, <1>d, <2>0, <2>1, WithoutFront
  <2>3. ~ (InTurn(a)' /\ sess[a] = s)
    BY <1>d, <2>0 DEF InTurn
  <2>. QED  BY <1>0, <1>a, <2>0, <2>2, <2>3, OwnTrace
<1>6. CASE Request(c)
  BY <1>a, <1>c, <1>6 DEF Request, TypeOK, InTurn
<1>7. CASE StoreLoad(c)
  BY <1>a, <1>c, <1>7 DEF StoreLoad, TypeOK, InTurn
<1>8. CASE Chunk(c) \/ Resume(c)
  BY <1>a, <1>c, <1>8 DEF Chunk, Resume, TypeOK, InTurn
<1>9. CASE StoreSave(c)
  BY <1>a, <1>c, <1>9 DEF StoreSave, TypeOK, InTurn
<1>10. CASE SaveReturns(c) \/ StoreRaises(c)
  BY <1>a, <1>c, <1>10 DEF SaveReturns, StoreRaises, OnStore, Release, TypeOK, InTurn
<1>11. CASE CancelWaiting(c)
  BY <1>a, <1>c, <1>11 DEF CancelWaiting, TypeOK, InTurn
<1>12. CASE Delete(c)
  BY <1>a, <1>b, <1>c, <1>12 DEF Delete, TypeOK, InTurn
<1>. QED  BY <1>1, <1>2, <1>3, <1>4, <1>5, <1>6, <1>7, <1>8, <1>9, <1>10,
             <1>11, <1>12 DEF CallStep

LEMMA TraceStep ==
    /\ HistorySafe /\ TypeOK /\ LockInv /\ WholeInv /\ CacheInv /\ TraceInv
    /\ [Next]_vars
    => TraceInv'
<1>. SUFFICES ASSUME HistorySafe, TypeOK, LockInv, WholeInv, CacheInv, TraceInv, [Next]_vars
              PROVE  TraceInv'
  OBVIOUS
<1>1. CASE UNCHANGED vars
  BY <1>1 DEF vars, TraceInv, Unheard, Spoken, InTurn, Without
<1>2. CASE \E c \in Calls : Uninterrupted(c) /\ CallStep(c)
  BY <1>2, TraceCallStep
<1>3. ASSUME NEW r \in Sessions, Restart(r), NEW a \in Calls, ~ Spoken(a)'
      PROVE  Unheard(a)'
  <2>1. /\ \A c \in Calls : pc'[c] = IF sess[c] = r /\ Active(c) THEN "lost" ELSE pc[c]
        /\ \A s \in Sessions : s # r => messages'[s] = messages[s]
        /\ messages'[r] = << >> /\ UNCHANGED << store, sess, op, buf >>
    BY <1>3 DEF Restart, TypeOK
  <2>2. ~ Spoken(a)
    BY <1>3, <2>1 DEF Spoken, Ended
  <2>3. Unheard(a)
    BY <2>2 DEF TraceInv
  <2>4. sess[a] # r => InTurn(a)' = InTurn(a)
    BY <2>1 DEF InTurn
  <2>5. sess[a] = r => ~ InTurn(a)'
    BY <2>1 DEF InTurn, Active, Ended
  <2>6. ASSUME NEW s \in Sessions
        PROVE  Without(IF InTurn(a)' /\ s = sess[a]
                       THEN Front(messages'[s]) ELSE messages'[s], a)
    <3>1. CASE s = r
      BY <2>1, <2>5, <3>1 DEF Without
    <3>2. CASE s # r
      BY <2>1, <2>3, <2>4, <3>2 DEF Unheard
    <3>. QED  BY <3>1, <3>2
  <2>7. /\ Without(store', a)
        /\ \A d \in Calls : pc'[d] \in {"read", "saving", "applied"} => Without(buf'[d], a)
    BY <2>1, <2>3 DEF Unheard
  <2>. QED  BY <2>1, <2>6, <2>7 DEF Unheard
<1>4. CASE \E r \in Sessions : Restart(r)
  BY <1>3, <1>4 DEF TraceInv
<1>. QED  BY <1>1, <1>2, <1>4 DEF Next

-----------------------------------------------------------------------------
(* Acknowledged is saved.                                                  *)

OneSession == \E s : Sessions = {s}

LEMMA HasAppend ==
    ASSUME NEW list \in Seq(Message), NEW m \in Message, NEW a, NEW role,
           Has(list, a, role) \/ m = [role |-> role, by |-> a]
    PROVE  Has(Append(list, m), a, role)
<1>1. /\ Len(list) \in Nat /\ Len(Append(list, m)) = Len(list) + 1
      /\ Append(list, m)[Len(list) + 1] = m
      /\ \A i \in 1 .. Len(list) : Append(list, m)[i] = list[i]
  OBVIOUS
<1>2. CASE Has(list, a, role)
  BY <1>1, <1>2 DEF Has
<1>3. CASE m = [role |-> role, by |-> a]
  <2>1. Len(list) + 1 \in 1 .. Len(Append(list, m))
    BY <1>1
  <2>. QED  BY <1>1, <1>3, <2>1 DEF Has
<1>. QED  BY <1>2, <1>3

LEMMA HasFront ==
    ASSUME NEW list \in Seq(Message), NEW c, AsksLast(list, c),
           NEW a, NEW role, role # "user", Has(list, a, role)
    PROVE  Has(Front(list), a, role)
<1>1. /\ Len(list) \in Nat
      /\ Len(Front(list)) = Len(list) - 1
      /\ \A i \in 1 .. Len(list) - 1 : Front(list)[i] = list[i]
  BY FrontOfList DEF AsksLast
<1>2. list[Len(list)].role = "user"
  BY DEF AsksLast, Last, User
<1>3. PICK i \in 1 .. Len(list) : list[i] = [role |-> role, by |-> a]
  BY DEF Has
<1>4. list[i].role = role
  BY <1>3
<1>5. i # Len(list)
  BY <1>2, <1>4
<1>6. i \in 1 .. Len(list) - 1
  BY <1>1, <1>5
<1>. QED  BY <1>1, <1>3, <1>6 DEF Has

(* The role of what a has said.                                            *)
Voice(a) == IF op[a] = "add" THEN "note" ELSE "assistant"

LEMMA HoldingVoice ==
    ASSUME NEW a, NEW list
    PROVE  Holding(list, a) <=> Has(list, a, Voice(a))
BY DEF Holding, Voice

LEMMA SavedInit == Init => SavedInv
BY DEF Init, SavedInv

(* In memory, what a returned call has said stays.                         *)
LEMMA MemoryKeeps ==
    ASSUME HistorySafe, TypeOK, LockInv, WholeInv, CacheInv,
           NEW c \in Calls, Uninterrupted(c), CallStep(c), NeverCleared,
           NEW a \in Calls,
           loaded[sess[c]] => Has(messages[sess[c]], a, Voice(a)),
           pc[c] = "read" => Has(buf[c], a, Voice(a)),
           loaded'[sess[c]]
    PROVE  Has(messages'[sess[c]], a, Voice(a))
<1>. DEFINE s == sess[c]
            role == Voice(a)
<1>0. /\ s \in Sessions /\ messages[s] \in Seq(Message) /\ buf[c] \in Seq(Message)
      /\ op[c] # "clear"
      /\ Assistant(c) \in Message /\ User(c) \in Message /\ Note(c) \in Message
  BY DEF TypeOK, NeverCleared, Assistant, User, Note, Message, Roles
<1>a. role # "user"
  BY DEF Voice
<1>. HIDE DEF role
<1>b. ASSUME NEW current \in Seq(Message), Has(current, a, role), Proceed(c, current)
      PROVE  Has(messages'[s], a, role)
  <2>1. messages'[s] \in {Append(current, User(c)), Append(current, Note(c)), current}
    BY <1>b, Proceeded
  <2>. QED  BY <1>0, <1>b, <2>1, HasAppend
<1>1. CASE Enter(c)
  <2>1. \/ loaded[s] /\ Proceed(c, messages[s])
        \/ ~ loaded[s] /\ loaded' = loaded
    BY <1>0, <1>1 DEF Enter
  <2>. QED  BY <1>0, <1>b, <2>1 DEF role
<1>2. CASE History(c)
  <2>1. \/ loaded[s] /\ Proceed(c, messages[s])
        \/ ~ loaded[s] /\ loaded' = loaded
    BY <1>2 DEF History
  <2>. QED  BY <1>0, <1>b, <2>1 DEF role
<1>3. CASE Loaded(c)
  <2>1. pc[c] = "read" /\ ~ loaded[s] /\ Proceed(c, AfterLoad(s, buf[c]))
    BY <1>3 DEF Loaded, WholeInv, CallWhole
  <2>2. Has(buf[c], a, role)
    BY <2>1 DEF role
  <2>3. buf[c] # << >>
    BY <2>2 DEF Has
  <2>4. AfterLoad(s, buf[c]) = buf[c]
    BY <2>1, <2>3, FoundAfterLoad
  <2>. QED  BY <1>0, <1>b, <2>1, <2>2, <2>4 DEF role
<1>4. CASE Respond(c)
  <2>1. messages'[s] = Append(messages[s], Assistant(c))
    BY <1>4, Assigned DEF Respond
  <2>2. loaded[s]
    BY <1>4 DEF Respond
  <2>. QED  BY <1>0, <2>1, <2>2, HasAppend DEF role
<1>5. CASE TurnRaises(c)
  <2>1. messages'[s] = Front(messages[s]) /\ loaded[s] /\ InTurn(c)
    BY <1>0, <1>5 DEF TurnRaises, TypeOK
  <2>2. AsksLast(messages[s], c)
    BY <2>1 DEF WholeInv, CallWhole
  <2>. QED  BY <1>0, <1>a, <2>1, <2>2, HasFront DEF role
<1>6. CASE UNCHANGED << messages, loaded >>
  BY <1>6 DEF role
<1>. QED  BY <1>1, <1>2, <1>3, <1>4, <1>5, <1>6
           DEF CallStep, Request, StoreLoad, Chunk, Resume, StoreSave, SaveReturns,
               StoreRaises, CancelWaiting, Delete, role

(* What is saved is what the call has said, and it is what the store holds *)
(* when the save was applied.                                              *)
LEMMA SavingKept ==
    ASSUME HistorySafe, OneSession, TypeOK, LockInv, WholeInv, SavedInv, NeverCleared,
           NEW c \in Calls, Uninterrupted(c), CallStep(c),
           NEW a \in Calls, op[a] \in TurnOps \cup {"add"}
    PROVE  /\ pc'[a] \in {"saving", "applied"} => Has(buf'[a], a, Voice(a))
           /\ pc'[a] = "applied" => store' = buf'[a]
<1>0. /\ pc[a] \in {"saving", "applied"} => Has(buf[a], a, Voice(a))
      /\ pc[a] = "applied" => store = buf[a]
      /\ op[c] \notin {"clear", "delete"}
      /\ sess[a] = sess[c]
      /\ messages[sess[c]] \in Seq(Message) /\ buf[c] \in Seq(Message)
  BY HoldingVoice DEF SavedInv, NeverCleared, OneSession, TypeOK
<1>1. CASE a # c
  <2>1. pc'[a] = pc[a] /\ buf'[a] = buf[a]
    BY <1>1, OthersStay
  <2>2. store' # store => StoreSave(c)
    BY <1>0 DEF CallStep, Request, Enter, History, StoreLoad, Loaded, Chunk, Resume,
        Respond, TurnRaises, SaveReturns, StoreRaises, CancelWaiting, Delete
  <2>3. StoreSave(c) => pc[a] # "applied"
    <3>1. StoreSave(c) => op[c] \in LockedOps /\ Holds(c)
      BY DEF StoreSave, LockInv, Critical
    <3>. QED  BY <1>0, <1>1, <3>1, Alone DEF Critical
  <2>. QED  BY <1>0, <2>1, <2>2, <2>3
<1>2. CASE a = c
  <2>1. CASE Respond(c)
    <3>1. Assistant(c) \in Message /\ Voice(c) = "assistant"
      BY <2>1, <1>0, <1>2 DEF Assistant, Message, Roles, Voice, Respond, LockInv, InTurn, TurnOps
    <3>2. pc'[c] = "saving" /\ buf'[c] = Append(messages[sess[c]], Assistant(c))
      BY <2>1, Assigned DEF Respond
    <3>. QED  BY <1>0, <1>2, <3>1, <3>2, HasAppend DEF Assistant
  <2>2. CASE StoreSave(c)
    BY <1>0, <1>2, <2>2 DEF StoreSave, TypeOK
  <2>3. ASSUME NEW current \in Seq(Message), Proceed(c, current)
        PROVE  /\ pc'[a] \in {"saving", "applied"} => Has(buf'[a], a, Voice(a))
               /\ pc'[a] # "applied"
    <3>1. Note(c) \in Message
      BY DEF Note, Message, Roles
    <3>2. pc'[c] \in {"saving", "applied"} =>
             pc'[c] = "saving" /\ op[c] = "add" /\ buf'[c] = Append(current, Note(c))
      BY <2>3, Proceeded
    <3>. QED  BY <1>2, <2>3, <3>1, <3>2, HasAppend DEF Note, Voice
  <2>4. CASE Enter(c) \/ History(c)
    <3>1. \/ Proceed(c, messages[sess[c]])
          \/ pc'[c] = "loading"
      BY <1>0, <2>4 DEF Enter, History, TypeOK
    <3>. QED  BY <1>0, <1>2, <2>3, <3>1
  <2>5. CASE Loaded(c)
    <3>1. AfterLoad(sess[c], buf[c]) \in Seq(Message)
      BY <2>5, PromptWhole DEF AfterLoad, TypeOK
    <3>. QED  BY <1>2, <2>3, <2>5, <3>1 DEF Loaded
  <2>6. pc[c] \in {"saving", "applied"} /\ ~ StoreSave(c) => pc'[c] \notin {"saving", "applied"}
    BY DEF CallStep, Request, Enter, History, StoreLoad, Loaded, Chunk, Resume, InTurn,
        Respond, TurnRaises, SaveReturns, StoreRaises, Release, Ended, CancelWaiting, Delete, TypeOK
  <2>7. CASE pc[c] \notin {"saving", "applied"} /\ ~ Respond(c) /\ ~ Enter(c)
             /\ ~ History(c) /\ ~ Loaded(c)
    <3>1. pc'[c] \notin {"saving", "applied"}
      BY <2>7 DEF CallStep, Request, StoreLoad, Chunk, Resume,
        StoreSave, SaveReturns, TurnRaises, StoreRaises, Release, CancelWaiting, Delete, TypeOK
    <3>. QED  BY <1>2, <3>1
  <2>. QED  BY <1>2, <2>1, <2>2, <2>4, <2>5, <2>6, <2>7
<1>. QED  BY <1>1, <1>2

(* From its return on, what a call has said is in every copy.              *)
LEMMA ReturnedKept ==
    ASSUME HistorySafe, OneSession, TypeOK, LockInv, WholeInv, CacheInv, SavedInv, NeverCleared,
           NEW c \in Calls, Uninterrupted(c), CallStep(c),
           NEW a \in Calls, op[a] \in TurnOps \cup {"add"}, pc'[a] = "returned"
    PROVE  /\ Has(store', a, Voice(a))
           /\ loaded'[sess[c]] => Has(messages'[sess[c]], a, Voice(a))
           /\ \A d \in Calls : pc'[d] = "read" => Has(buf'[d], a, Voice(a))
<1>. DEFINE s == sess[c]
            role == Voice(a)
<1>0. /\ s \in Sessions /\ sess[a] = s /\ \A d \in Calls : sess[d] = s
      /\ op[c] \notin {"clear", "delete"}
  BY DEF NeverCleared, OneSession, TypeOK
<1>1. CASE pc[a] = "returned"
  <2>1. /\ Has(store, a, role)
        /\ loaded[s] => Has(messages[s], a, role)
        /\ \A d \in Calls : pc[d] = "read" => Has(buf[d], a, role)
    BY <1>0, <1>1, HoldingVoice DEF SavedInv
  <2>2. loaded'[s] => Has(messages'[s], a, role)
    BY <2>1, MemoryKeeps
  <2>3. Has(store', a, role)
    <3>1. CASE StoreSave(c)
      <4>1. store' = buf[c] /\ pc[c] = "saving"
        BY <3>1 DEF StoreSave
      <4>. QED  BY <2>1, <4>1 DEF CacheInv
    <3>2. CASE ~ StoreSave(c)
      <4>1. store' = store
        BY <1>0, <3>2 DEF CallStep, Request, Enter, History, StoreLoad, Loaded, Chunk, Resume,
          Respond, TurnRaises, SaveReturns, StoreRaises, CancelWaiting, Delete
      <4>. QED  BY <2>1, <4>1
    <3>. QED  BY <3>1, <3>2
  <2>4. ASSUME NEW d \in Calls, pc'[d] = "read"
        PROVE  Has(buf'[d], a, role)
    <3>1. CASE d # c
      BY <2>1, <2>4, <3>1, OthersStay
    <3>2. CASE d = c
      <4>1. ASSUME NEW current, Proceed(c, current)
            PROVE  pc'[c] # "read"
        BY <4>1, Proceeded
      <4>2. CASE Enter(c) \/ History(c) \/ Loaded(c)
        BY <1>0, <2>4, <3>2, <4>1, <4>2 DEF Enter, History, Loaded, TypeOK
      <4>3. CASE ~ (Enter(c) \/ History(c) \/ Loaded(c))
        <5>1. StoreLoad(c)
          BY <2>4, <3>2, <4>3 DEF CallStep, Request, Chunk, Resume, Respond, Assign,
            TurnRaises, StoreSave, SaveReturns, StoreRaises, Release, Ended, CancelWaiting, Delete, TypeOK
        <5>2. buf'[c] = store
          BY <5>1 DEF StoreLoad, TypeOK
        <5>. QED  BY <2>1, <3>2, <5>2
      <4>. QED  BY <4>2, <4>3
    <3>. QED  BY <3>1, <3>2
  <2>. QED  BY <2>2, <2>3, <2>4
<1>2. CASE pc[a] # "returned"
  <2>1. a = c
    BY <1>2, OthersStay
  <2>2. ASSUME NEW current, Proceed(c, current)
        PROVE  pc'[c] # "returned"
    BY <2>1, <2>2, Proceeded DEF TurnOps
  <2>3. CASE Enter(c) \/ History(c) \/ Loaded(c)
    BY <1>0, <2>1, <2>2, <2>3 DEF Enter, History, Loaded, TypeOK
  <2>4. CASE ~ (Enter(c) \/ History(c) \/ Loaded(c))
    <3>1. SaveReturns(c)
      BY <1>0, <1>2, <2>1, <2>4 DEF CallStep, Request, StoreLoad, Chunk, Resume, Respond, Assign,
        TurnRaises, StoreSave, StoreRaises, Release, CancelWaiting, Delete, TypeOK
    <3>2. pc[c] = "applied" /\ UNCHANGED << store, messages, loaded, buf >>
      BY <3>1 DEF SaveReturns
    <3>3. store = buf[c] /\ messages[s] = buf[c] /\ Has(buf[c], a, role)
      BY <2>1, <3>2, HoldingVoice DEF SavedInv, CacheInv
    <3>4. op[c] \in LockedOps /\ Holds(c)
      BY <3>2 DEF LockInv, Critical
    <3>5. \A d \in Calls : d # c => pc[d] # "read"
      BY <1>0, <3>4, Alone DEF Critical
    <3>6. \A d \in Calls : pc'[d] # "read"
      BY <2>1, <3>5, OthersStay
    <3>. QED  BY <3>2, <3>3, <3>6
  <2>. QED  BY <2>3, <2>4
<1>. QED  BY <1>1, <1>2

LEMMA SavedStep ==
    /\ HistorySafe /\ OneSession /\ TypeOK /\ LockInv /\ WholeInv /\ CacheInv /\ SavedInv
    /\ [Next]_vars
    => SavedInv'
<1>. SUFFICES ASSUME HistorySafe, OneSession, TypeOK, LockInv, WholeInv, CacheInv, SavedInv,
                     [Next]_vars, NeverCleared',
                     NEW a \in Calls, op'[a] \in TurnOps \cup {"add"}
              PROVE  /\ pc'[a] \in {"saving", "applied"} => Holding(buf[a], a)'
                     /\ pc'[a] = "applied" => store' = buf'[a]
                     /\ pc'[a] = "returned" =>
                          /\ Holding(store, a)'
                          /\ \A s \in Sessions : loaded'[s] => Holding(messages[s], a)'
                          /\ \A d \in Calls : pc'[d] = "read" => Holding(buf[d], a)'
  BY DEF SavedInv
<1>0. op' = op /\ NeverCleared /\ op[a] \in TurnOps \cup {"add"}
  <2>1. op' = op
    BY OthersStay DEF Next, Restart, vars
  <2>. QED  BY <2>1 DEF NeverCleared
<1>a. \A list : Holding(list, a) <=> Has(list, a, Voice(a))
  BY HoldingVoice
<1>b. /\ Holding(store, a)' <=> Has(store', a, Voice(a))
      /\ \A s \in Sessions : Holding(messages[s], a)' <=> Has(messages'[s], a, Voice(a))
      /\ \A d \in Calls : Holding(buf[d], a)' <=> Has(buf'[d], a, Voice(a))
  BY <1>0 DEF Holding, Voice
<1>c. /\ pc[a] \in {"saving", "applied"} => Has(buf[a], a, Voice(a))
      /\ pc[a] = "applied" => store = buf[a]
      /\ pc[a] = "returned" =>
            /\ Has(store, a, Voice(a))
            /\ \A s \in Sessions : loaded[s] => Has(messages[s], a, Voice(a))
            /\ \A d \in Calls : pc[d] = "read" => Has(buf[d], a, Voice(a))
  BY <1>0, <1>a DEF SavedInv
<1>1. CASE UNCHANGED vars
  BY <1>1, <1>b, <1>c DEF vars
<1>2. ASSUME NEW c \in Calls, Uninterrupted(c), CallStep(c)
      PROVE  /\ pc'[a] \in {"saving", "applied"} => Has(buf'[a], a, Voice(a))
             /\ pc'[a] = "applied" => store' = buf'[a]
             /\ pc'[a] = "returned" =>
                  /\ Has(store', a, Voice(a))
                  /\ \A s \in Sessions : loaded'[s] => Has(messages'[s], a, Voice(a))
                  /\ \A d \in Calls : pc'[d] = "read" => Has(buf'[d], a, Voice(a))
  <2>1. \A s \in Sessions : s = sess[c]
    BY DEF OneSession, TypeOK
  <2>. QED  BY <1>0, <1>2, <2>1, SavingKept, ReturnedKept
<1>3. ASSUME NEW s \in Sessions, Restart(s)
      PROVE  /\ pc'[a] \in {"saving", "applied"} => Has(buf'[a], a, Voice(a))
             /\ pc'[a] = "applied" => store' = buf'[a]
             /\ pc'[a] = "returned" =>
                  /\ Has(store', a, Voice(a))
                  /\ \A r \in Sessions : loaded'[r] => Has(messages'[r], a, Voice(a))
                  /\ \A d \in Calls : pc'[d] = "read" => Has(buf'[d], a, Voice(a))
  <2>1. \A c \in Calls : pc'[c] = IF sess[c] = s /\ Active(c) THEN "lost" ELSE pc[c]
    BY <1>3 DEF Restart
  <2>2. UNCHANGED << store, buf >> /\ \A r \in Sessions : ~ loaded'[r]
    BY <1>3 DEF Restart, OneSession, TypeOK
  <2>. QED  BY <1>c, <2>1, <2>2
<1>. QED  BY <1>1, <1>2, <1>3, <1>b DEF Next

-----------------------------------------------------------------------------
(* history() returns readable conversations.                               *)

LEMMA HistoryStep ==
    HistorySafe /\ TypeOK /\ LockInv /\ WholeInv /\ CacheInv /\ HistoryReadable
    /\ [Next]_vars => HistoryReadable'
<1>. SUFFICES ASSUME HistorySafe, TypeOK, LockInv, WholeInv, CacheInv, HistoryReadable,
                     [Next]_vars, NEW a \in Calls, op'[a] = "history", pc'[a] = "returned"
              PROVE  \/ WholeTurns(buf'[a])
                     \/ \E d \in Calls : AsksLast(buf'[a], d)
  BY DEF HistoryReadable
<1>1. CASE UNCHANGED << pc, op, buf >>
  BY <1>1 DEF HistoryReadable
<1>2. ASSUME NEW c \in Calls, Uninterrupted(c), CallStep(c)
      PROVE  \/ WholeTurns(buf'[a])
             \/ \E d \in Calls : AsksLast(buf'[a], d)
  <2>0. op[a] = "history" /\ sess[c] \in Sessions
    BY <1>2, OthersStay DEF TypeOK
  <2>1. CASE a # c
    BY <1>2, <2>0, <2>1, OthersStay DEF HistoryReadable
  <2>2. CASE a = c /\ History(c)
    <3>1. Proceed(c, messages[sess[c]])
      BY <2>2 DEF History, TypeOK
    <3>2. buf'[c] = messages[sess[c]]
      BY <2>0, <2>2, <3>1, Proceeded DEF TurnOps
    <3>. QED  BY <2>0, <2>2, <3>2, MemoryIsWhole DEF ConversationsWhole, MemoryWhole
  <2>3. CASE a = c /\ Loaded(c)
    <3>1. /\ pc[c] = "read" /\ ~ loaded[sess[c]] /\ WholeTurns(buf[c])
          /\ Proceed(c, AfterLoad(sess[c], buf[c]))
      BY <2>3 DEF Loaded, WholeInv, CallWhole
    <3>2. buf'[c] = AfterLoad(sess[c], buf[c])
      BY <2>0, <2>3, <3>1, Proceeded DEF TurnOps
    <3>. QED  BY <2>0, <2>3, <3>1, <3>2, FoundAfterLoad, PromptWhole
  <2>4. CASE a = c /\ ~ History(c) /\ ~ Loaded(c)
    BY <1>2, <2>0, <2>4 DEF CallStep, Request, Enter, StoreLoad, Chunk, Resume,
      Respond, Assign, TurnRaises, StoreSave, SaveReturns, StoreRaises, Release, CancelWaiting,
      Delete, LockInv, LockedOps, TypeOK
  <2>. QED  BY <2>1, <2>2, <2>3, <2>4
<1>3. ASSUME NEW s \in Sessions, Restart(s)
      PROVE  \/ WholeTurns(buf'[a])
             \/ \E d \in Calls : AsksLast(buf'[a], d)
  <2>1. pc[a] = "returned" /\ UNCHANGED << op, buf >>
    BY <1>3 DEF Restart
  <2>. QED  BY <2>1 DEF HistoryReadable
<1>. QED  BY <1>1, <1>2, <1>3 DEF Next, vars

-----------------------------------------------------------------------------
(* The invariant of every behaviour, and what follows from it.             *)

SessionInv ==
    /\ TypeOK /\ LockInv /\ WholeInv /\ OneOnStore /\ CacheInv /\ TraceInv
    /\ HistoryReadable

LEMMA SessionInvHolds ==
    ASSUME HistorySafe
    PROVE  Spec => []SessionInv
<1>1. Init => SessionInv
  <2>1. Init => HistoryReadable
    BY DEF Init, HistoryReadable
  <2>. QED  BY <2>1, TypeInit, WholeInit, OneOnStoreInit, CacheInit, TraceInit DEF SessionInv
<1>2. SessionInv /\ [Next]_vars => SessionInv'
  BY HistorySafe, TypeStep, WholeStep, OneOnStoreStep, CacheStep, TraceStep, HistoryStep
     DEF SessionInv
<1>. QED  BY <1>1, <1>2, PTL DEF Spec

(* A turn that failed, was cancelled, abandoned or lost with its client    *)
(* leaves nothing behind, whatever the other clients, cancellations, store *)
(* failures and restarts do (the rollback of session.py:99-101, 129-132).  *)
THEOREM NoTraceIsLeft ==
    ASSUME HistorySafe
    PROVE  Spec => []NoTraceOfFailedTurns
<1>1. SessionInv => NoTraceOfFailedTurns
  <2>1. SUFFICES ASSUME SessionInv, NEW c \in Calls, FailedTurn(c)
                 PROVE  /\ ~ Has(store, c, "user")
                        /\ \A s \in Sessions : ~ Has(messages[s], c, "user")
    BY DEF NoTraceOfFailedTurns
  <2>2. ~ Spoken(c) /\ ~ InTurn(c)
    BY <2>1 DEF FailedTurn, Spoken, InTurn, Ended
  <2>3. Without(store, c) /\ \A s \in Sessions : Without(messages[s], c)
    BY <2>1, <2>2 DEF SessionInv, TraceInv, Unheard
  <2>4. \A list : Without(list, c) => ~ Has(list, c, "user")
    BY DEF Without, Has
  <2>. QED  BY <2>3, <2>4
<1>. QED  BY HistorySafe, <1>1, SessionInvHolds, PTL

(* history(), which takes no lock, returns a conversation that somebody    *)
(* could have had, as long as its read of the store cannot race.           *)
THEOREM HistoryAlwaysReadable ==
    ASSUME HistorySafe
    PROVE  Spec => []HistoryReadable
<1>1. SessionInv => HistoryReadable
  BY DEF SessionInv
<1>. QED  BY HistorySafe, <1>1, SessionInvHolds, PTL

LEMMA SavedHolds ==
    ASSUME HistorySafe, OneSession
    PROVE  Spec => [](SessionInv /\ SavedInv)
<1>1. Init => SavedInv
  BY SavedInit
<1>2. SessionInv /\ SavedInv /\ [Next]_vars => SavedInv'
  BY HistorySafe, OneSession, SavedStep DEF SessionInv
<1>. QED  BY HistorySafe, <1>1, <1>2, SessionInvHolds, PTL DEF Spec

(* With one client, what an operation reported as done is in the store, so *)
(* that no restart loses it, whatever later calls fail or are cancelled.   *)
THEOREM AcknowledgedStaysSaved ==
    ASSUME HistorySafe, OneSession
    PROVE  Spec => []AcknowledgedIsSaved
<1>1. SavedInv => AcknowledgedIsSaved
  BY DEF SavedInv, AcknowledgedIsSaved, Acknowledged, NeverCleared
<1>. QED  BY HistorySafe, OneSession, <1>1, SavedHolds, PTL

(* With one client, every request to the model holds every turn and note   *)
(* that was acknowledged before it (session.py:4-5).                       *)
THEOREM PriorConversationSeen ==
    ASSUME HistorySafe, OneSession
    PROVE  Spec => []SeesPriorConversation
<1>1. SessionInv /\ SavedInv => SeesPriorConversation
  <2>1. SUFFICES ASSUME SessionInv, SavedInv, NEW c \in Calls, NEW d \in Calls,
                        InTurn(c), Acknowledged(d)
                 PROVE  Holding(buf[c], d)
    BY DEF SeesPriorConversation
  <2>2. sess[c] \in Sessions /\ loaded[sess[c]] /\ messages[sess[c]] = buf[c]
    BY <2>1 DEF SessionInv, TypeOK, WholeInv, CallWhole
  <2>. QED  BY <2>1, <2>2 DEF SavedInv, Acknowledged, NeverCleared
<1>. QED  BY HistorySafe, OneSession, <1>1, SavedHolds, PTL

-----------------------------------------------------------------------------
(* One session implements Conversation.                                    *)

(* No two calls of one session have both read the store and not gone on.   *)
LEMMA OneReader ==
    ASSUME HistorySafe, OneSession, TypeOK, LockInv, OneOnStore,
           NEW c \in Calls, pc[c] = "read", NEW d \in Calls, pc[d] = "read"
    PROVE  c = d
<1>1. CASE op[c] \in LockedOps /\ op[d] \in LockedOps
  <2>1. Holds(c) /\ Holds(d) /\ sess[c] = sess[d]
    BY <1>1 DEF LockInv, Critical, OneSession, TypeOK
  <2>. QED  BY <2>1 DEF Holds
<1>2. CASE ~ (op[c] \in LockedOps /\ op[d] \in LockedOps)
  <2>1. op[c] = "history" \/ op[d] = "history"
    BY <1>2, SessionAssumption DEF LockInv, TypeOK
  <2>2. InMemory
    BY <2>1 DEF HistorySafe, TypeOK
  <2>. QED  BY <2>2 DEF OneOnStore, OnStore
<1>. QED  BY <1>1, <1>2

LEMMA OnlySession ==
    ASSUME OneSession, TypeOK
    PROVE  /\ TheSession \in Sessions
           /\ \A s \in Sessions : s = TheSession
           /\ \A c \in Calls : sess[c] = TheSession
BY DEF OneSession, TheSession, TypeOK

(* What the callers see, in each situation; before and after a step.       *)
LEMMA SeenNow ==
    ASSUME HistorySafe, OneSession, SessionInv
    PROVE  /\ loaded[TheSession] /\ (\A c \in Calls : ~ InTurn(c)) =>
                Seen = messages[TheSession]
           /\ \A c \in Calls : InTurn(c) =>
                loaded[TheSession] /\ Seen = Front(messages[TheSession])
           /\ \A c \in Calls : pc[c] = "read" =>
                ~ loaded[TheSession] /\ Seen = Recovered(buf[c])
           /\ ~ loaded[TheSession] /\ (\A c \in Calls : pc[c] # "read") =>
                Seen = Recovered(store)
<1>1. \A c \in Calls : sess[c] = TheSession
  BY OnlySession DEF SessionInv
<1>2. /\ \A c \in Calls : InTurn(c) => loaded[TheSession]
      /\ \A c \in Calls : pc[c] = "read" => ~ loaded[TheSession]
  BY <1>1 DEF SessionInv, WholeInv, CallWhole
<1>3. ASSUME NEW c \in Calls, pc[c] = "read"
      PROVE  (CHOOSE d \in Calls : pc[d] = "read") = c
  BY <1>3, OneReader DEF SessionInv
<1>. QED  BY <1>2, <1>3 DEF Seen

LEMMA SeenNext ==
    ASSUME HistorySafe, OneSession, SessionInv'
    PROVE  /\ loaded'[TheSession] /\ (\A c \in Calls : ~ InTurn(c)') =>
                Seen' = messages'[TheSession]
           /\ \A c \in Calls : InTurn(c)' =>
                loaded'[TheSession] /\ Seen' = Front(messages'[TheSession])
           /\ \A c \in Calls : pc'[c] = "read" =>
                ~ loaded'[TheSession] /\ Seen' = Recovered(buf'[c])
           /\ ~ loaded'[TheSession] /\ (\A c \in Calls : pc'[c] # "read") =>
                Seen' = Recovered(store')
<1>1. \A c \in Calls : sess'[c] = TheSession
  BY DEF SessionInv, OneSession, TheSession, TypeOK
<1>2. /\ \A c \in Calls : InTurn(c)' => loaded'[TheSession]
      /\ \A c \in Calls : pc'[c] = "read" => ~ loaded'[TheSession]
  BY <1>1 DEF SessionInv, WholeInv, CallWhole
<1>3. ASSUME NEW c \in Calls, pc'[c] = "read", NEW d \in Calls, pc'[d] = "read"
      PROVE  c = d
  <2>1. CASE op'[c] \in LockedOps /\ op'[d] \in LockedOps
    BY <1>1, <1>3, <2>1 DEF SessionInv, LockInv, Critical, Holds
  <2>2. CASE ~ (op'[c] \in LockedOps /\ op'[d] \in LockedOps)
    <3>1. op'[c] = "history" \/ op'[d] = "history"
      BY <1>3, <2>2, SessionAssumption DEF SessionInv, LockInv, TypeOK
    <3>2. InMemory
      BY <3>1 DEF HistorySafe, SessionInv, TypeOK
    <3>. QED  BY <1>3, <3>2 DEF SessionInv, OneOnStore, OnStore
  <2>. QED  BY <2>1, <2>2
<1>4. ASSUME NEW c \in Calls, pc'[c] = "read"
      PROVE  (CHOOSE d \in Calls : pc'[d] = "read") = c
  BY <1>3, <1>4
<1>. QED  BY <1>2, <1>4 DEF Seen

LEMMA SeenStays ==
    ASSUME HistorySafe, OneSession, SessionInv, SessionInv',
           UNCHANGED << store, messages, loaded >>,
           \A d \in Calls : /\ InTurn(d)' = InTurn(d)
                            /\ pc'[d] = "read" <=> pc[d] = "read"
                            /\ pc[d] = "read" => buf'[d] = buf[d]
    PROVE  Seen' = Seen
<1>1. CASE \E c \in Calls : InTurn(c)
  BY <1>1, SeenNow, SeenNext
<1>2. CASE \E c \in Calls : pc[c] = "read"
  BY <1>2, SeenNow, SeenNext
<1>3. CASE ~ (\E c \in Calls : InTurn(c)) /\ ~ (\E c \in Calls : pc[c] = "read")
  <2>1. loaded[TheSession] \in BOOLEAN
    BY OnlySession DEF SessionInv, TypeOK
  <2>. QED  BY <1>3, <2>1, SeenNow, SeenNext
<1>. QED  BY <1>1, <1>2, <1>3

(* An operation proceeds from what the callers see: it changes nothing for *)
(* them, or its note enters the conversation.                              *)
LEMMA ProceedImplements ==
    ASSUME HistorySafe, OneSession, SessionInv, SessionInv',
           NEW c \in Calls, CallStep(c),
           Proceed(c, Seen), Seen \in Seq(Message), Without(Seen, c), loaded'[TheSession],
           \A d \in Calls : d # c => ~ InTurn(d), UNCHANGED store
    PROVE  [Abstract!Next]_(Abstract!vars)
<1>0. /\ sess[c] = TheSession
      /\ \A d \in Calls : d # c => ~ InTurn(d)'
      /\ User(c) \in Message
  BY OnlySession, OthersStay DEF SessionInv, InTurn, User, Message, Roles
<1>1. CASE pc'[c] = "llm" /\ buf'[c] = Append(Seen, User(c))
  <2>1. messages'[TheSession] = Append(Seen, User(c)) /\ InTurn(c)'
    BY <1>0, <1>1, Proceeded DEF SessionInv, InTurn
  <2>2. Front(Append(Seen, User(c))) = Seen
    BY <1>0 DEF Front
  <2>3. Seen' = Seen
    BY <2>1, <2>2, SeenNext
  <2>. QED  BY <2>3 DEF Abstract!vars
<1>2. CASE pc'[c] = "saving" /\ buf'[c] = Append(Seen, Note(c))
  <2>1. messages'[TheSession] = Append(Seen, Note(c)) /\ \A d \in Calls : ~ InTurn(d)'
    BY <1>0, <1>2, Proceeded DEF SessionInv, InTurn
  <2>2. Seen' = Append(Seen, Note(c))
    BY <2>1, SeenNext
  <2>3. ~ Abstract!Has(Seen, c, "note")
    BY DEF Abstract!Has, Without
  <2>4. Abstract!Inject(c)
    BY <2>2, <2>3 DEF Abstract!Inject, Abstract!Note, Note
  <2>. QED  BY <2>4 DEF Abstract!Next
<1>3. CASE pc'[c] = "returned" /\ buf'[c] = Seen
  <2>1. messages'[TheSession] = Seen /\ \A d \in Calls : ~ InTurn(d)'
    BY <1>0, <1>3, Proceeded DEF SessionInv, InTurn
  <2>2. Seen' = Seen
    BY <2>1, SeenNext
  <2>. QED  BY <2>2 DEF Abstract!vars
<1>. QED  BY <1>1, <1>2, <1>3, Proceeded DEF SessionInv

LEMMA CallImplements ==
    ASSUME HistorySafe, OneSession, SessionInv, SessionInv',
           NEW c \in Calls, Uninterrupted(c), CallStep(c)
    PROVE  [Abstract!Next]_(Abstract!vars)
<1>. DEFINE s == TheSession
<1>0. /\ s \in Sessions /\ sess[c] = s /\ \A d \in Calls : sess[d] = s
      /\ messages[s] \in Seq(Message) /\ buf[c] \in Seq(Message)
      /\ Prompt(s) \in Seq(Message)
      /\ TypeOK /\ LockInv /\ WholeInv /\ CacheInv /\ CallWhole(c)
  BY OnlySession, PromptWhole DEF SessionInv, TypeOK, WholeInv
<1>a. /\ \A d \in Calls : d # c => pc'[d] = pc[d] /\ buf'[d] = buf[d]
      /\ \A d \in Calls : d # c => InTurn(d)' = InTurn(d)
  BY <1>0, OthersStay DEF InTurn
<1>b. ASSUME op[c] \in LockedOps, Holds(c)
      PROVE  \A d \in Calls : d # c => pc[d] \notin Critical /\ ~ InTurn(d) /\ ~ InTurn(d)'
  BY <1>0, <1>a, <1>b, Alone DEF InTurn, Critical
<1>c. ASSUME UNCHANGED << store, messages, loaded >>,
             InTurn(c)' = InTurn(c),
             pc'[c] = "read" <=> pc[c] = "read",
             pc[c] = "read" => buf'[c] = buf[c]
      PROVE  [Abstract!Next]_(Abstract!vars)
  <2>1. \A d \in Calls : /\ InTurn(d)' = InTurn(d)
                         /\ pc'[d] = "read" <=> pc[d] = "read"
                         /\ pc[d] = "read" => buf'[d] = buf[d]
    BY <1>a, <1>c
  <2>2. Seen' = Seen
    BY <1>c, <2>1, SeenStays
  <2>. QED  BY <1>c, <2>2 DEF Abstract!vars
<1>1. CASE Enter(c)
  <2>0. op[c] \in LockedOps /\ Holds(c) /\ ~ InTurn(c) /\ UNCHANGED store /\ ~ Spoken(c)
    BY <1>0, <1>1 DEF Enter, LockInv, InTurn, Spoken, Ended
  <2>a. \A d \in Calls : ~ InTurn(d)
    BY <1>b, <2>0
  <2>1. CASE Assign(c, Prompt(s), "saving") /\ loaded' = [loaded EXCEPT ![s] = TRUE]
    <3>1. messages'[s] = Prompt(s) /\ pc'[c] = "saving" /\ loaded'[s]
      BY <1>0, <2>1, Assigned DEF TypeOK
    <3>2. \A d \in Calls : ~ InTurn(d)'
      BY <1>b, <2>0, <3>1 DEF InTurn
    <3>3. Seen' = Prompt(s)
      BY <3>1, <3>2, SeenNext
    <3>4. Abstract!Clear
      BY <2>0, <3>3 DEF Abstract!Clear
    <3>. QED  BY <3>4 DEF Abstract!Next
  <2>2. CASE loaded[s] /\ Proceed(c, messages[s]) /\ UNCHANGED loaded
    <3>1. Seen = messages[s]
      BY <2>2, <2>a, SeenNow
    <3>2. Without(messages[s], c)
      BY <1>0, <2>0 DEF SessionInv, TraceInv, Unheard
    <3>. QED  BY <1>0, <2>0, <2>2, <2>a, <3>1, <3>2, ProceedImplements
  <2>3. CASE pc' = [pc EXCEPT ![c] = "loading"] /\ UNCHANGED << messages, loaded, buf >>
    <3>1. pc'[c] = "loading" /\ pc[c] = "waiting"
      BY <1>0, <1>1, <2>3 DEF Enter, TypeOK
    <3>. QED  BY <1>c, <2>0, <2>3, <3>1 DEF InTurn
  <2>. QED  BY <1>0, <1>1, <2>1, <2>2, <2>3 DEF Enter
<1>2. CASE History(c)
  <2>1. /\ UNCHANGED << store, messages, loaded >>
        /\ pc'[c] \in {"returned", "loading"} /\ pc[c] = "idle"
    BY <1>0, <1>2 DEF History, Proceed, Assign, TurnOps, TypeOK
  <2>. QED  BY <1>c, <2>1 DEF InTurn
<1>3. CASE StoreLoad(c)
  <2>1. /\ pc'[c] = "read" /\ pc[c] = "loading" /\ buf'[c] = store
        /\ UNCHANGED << store, messages, loaded >> /\ ~ loaded[s]
    BY <1>0, <1>3 DEF StoreLoad, CallWhole, TypeOK
  <2>2. Seen' = Recovered(store)
    BY <2>1, SeenNext
  <2>3. CASE \A d \in Calls : pc[d] # "read"
    <3>1. Seen = Recovered(store)
      BY <2>1, <2>3, SeenNow
    <3>. QED  BY <2>1, <2>2, <3>1 DEF Abstract!vars
  <2>4. ASSUME NEW d \in Calls, pc[d] = "read"
        PROVE  FALSE
    <3>1. d # c /\ pc'[d] = "read"
      BY <1>a, <2>1, <2>4
    <3>2. OnStore(c) /\ OnStore(d)
      BY <2>1, <2>4 DEF OnStore
    <3>3. CASE op[c] \in LockedOps /\ op[d] \in LockedOps
      BY <1>0, <2>1, <2>4, <3>1, <3>3 DEF LockInv, Critical, Holds
    <3>4. CASE ~ (op[c] \in LockedOps /\ op[d] \in LockedOps)
      <4>1. op[c] = "history" \/ op[d] = "history"
        BY <1>0, <2>1, <2>4, <3>4, SessionAssumption DEF LockInv, TypeOK
      <4>2. InMemory
        BY <1>0, <4>1 DEF HistorySafe, TypeOK
      <4>. QED  BY <3>1, <3>2, <4>2 DEF SessionInv, OneOnStore
    <3>. QED  BY <3>3, <3>4
  <2>. QED  BY <2>3, <2>4
<1>4. CASE Loaded(c)
  <2>0. /\ pc[c] = "read" /\ ~ loaded[s] /\ UNCHANGED store /\ loaded'[s] /\ ~ InTurn(c)
        /\ Proceed(c, AfterLoad(s, buf[c])) /\ ~ Spoken(c)
    BY <1>0, <1>4 DEF Loaded, CallWhole, TypeOK, InTurn, Spoken, Ended
  <2>1. AfterLoad(s, buf[c]) = IF buf[c] # << >> THEN buf[c] ELSE Prompt(s)
    BY <1>0, <2>0, FoundAfterLoad
  <2>2. Seen = AfterLoad(s, buf[c])
    BY <2>0, <2>1, SeenNow DEF Recovered
  <2>3. Seen \in Seq(Message) /\ Without(Seen, c)
    <3>1. Without(buf[c], c) /\ Without(Prompt(s), c)
      BY <1>0, <2>0, WithoutPrompt DEF SessionInv, TraceInv, Unheard
    <3>. QED  BY <1>0, <2>1, <2>2, <3>1
  <2>4. \A d \in Calls : d # c => ~ InTurn(d)
    BY <1>0, <2>0, ChangesAlone DEF InTurn, Critical
  <2>5. Proceed(c, Seen)
    BY <2>0, <2>2
  <2>. QED  BY <2>0, <2>3, <2>4, <2>5, ProceedImplements
<1>5. CASE Respond(c)
  <2>0. /\ op[c] \in LockedOps /\ Holds(c) /\ UNCHANGED << store, loaded >> /\ InTurn(c)
        /\ ~ Spoken(c)
    BY <1>0, <1>5 DEF Respond, LockInv, Critical, InTurn, Spoken, Ended
  <2>. DEFINE before == Front(messages[s])
  <2>1. loaded[s] /\ AsksLast(messages[s], c)
    BY <1>0, <2>0 DEF CallWhole
  <2>2. before \in Seq(Message) /\ messages[s] = Append(before, User(c)) /\ Seen = before
    BY <1>0, <2>0, <2>1, RolledBack, SeenNow
  <2>3. Without(before, c)
    BY <1>0, <2>0 DEF SessionInv, TraceInv, Unheard
  <2>. HIDE DEF before
  <2>4. messages'[s] = Append(messages[s], Assistant(c)) /\ pc'[c] = "saving"
    BY <1>0, <1>5, Assigned DEF Respond
  <2>5. \A d \in Calls : ~ InTurn(d)'
    BY <1>b, <2>0, <2>4 DEF InTurn
  <2>6. Seen' = Append(Append(before, User(c)), Assistant(c))
    BY <2>0, <2>1, <2>2, <2>4, <2>5, SeenNext
  <2>7. User(c) \in Message /\ Assistant(c) \in Message
    BY DEF User, Assistant, Message, Roles
  <2>8. Append(Append(before, User(c)), Assistant(c)) = before \o << User(c), Assistant(c) >>
    BY <2>2, <2>7
  <2>9. ~ Abstract!Has(Seen, c, "user")
    BY <2>2, <2>3 DEF Abstract!Has, Without
  <2>10. Abstract!TakeTurn(c)
    BY <2>0, <2>2, <2>6, <2>8, <2>9
       DEF Abstract!TakeTurn, Abstract!Turn, Abstract!User, Abstract!Assistant, User, Assistant
  <2>. QED  BY <2>10 DEF Abstract!Next
<1>6. CASE TurnRaises(c)
  <2>0. /\ op[c] \in LockedOps /\ Holds(c) /\ UNCHANGED << store, loaded >> /\ InTurn(c)
        /\ messages'[s] = Front(messages[s]) /\ pc'[c] = "raised"
    BY <1>0, <1>6 DEF TurnRaises, InTurn, LockInv, Critical, Release, TypeOK
  <2>1. \A d \in Calls : ~ InTurn(d)'
    BY <1>b, <2>0 DEF InTurn
  <2>2. Seen' = Seen
    BY <2>0, <2>1, SeenNow, SeenNext
  <2>. QED  BY <2>0, <2>2 DEF Abstract!vars
<1>7. CASE StoreSave(c)
  <2>0. /\ op[c] \in LockedOps /\ Holds(c) /\ UNCHANGED << messages, loaded >>
        /\ store' = buf[c] /\ loaded[s] /\ messages[s] = buf[c]
        /\ ~ InTurn(c) /\ ~ InTurn(c)'
    BY <1>0, <1>7 DEF StoreSave, LockInv, Critical, CacheInv, InTurn, TypeOK
  <2>1. Seen = messages[s] /\ Seen' = messages[s]
    BY <1>b, <2>0, SeenNow, SeenNext
  <2>2. Abstract!Persist
    BY <2>0, <2>1 DEF Abstract!Persist
  <2>. QED  BY <2>2 DEF Abstract!Next
<1>8. CASE StoreRaises(c)
  <2>0. /\ UNCHANGED << store, messages, loaded, buf >> /\ pc'[c] = "raised"
        /\ ~ InTurn(c) /\ ~ InTurn(c)'
    BY <1>0, <1>8 DEF StoreRaises, OnStore, Release, InTurn, TypeOK
  <2>1. CASE pc[c] = "read"
    <3>1. \A d \in Calls : pc'[d] # "read"
      BY <1>0, <1>a, <2>0, <2>1, OneReader DEF SessionInv
    <3>2. Seen' = Recovered(store)
      BY <2>0, <2>1, <3>1, SeenNow, SeenNext
    <3>3. Abstract!Recover
      BY <2>0, <3>2 DEF Abstract!Recover, Abstract!Recovered, Recovered
    <3>. QED  BY <3>3 DEF Abstract!Next
  <2>2. CASE pc[c] # "read"
    <3>1. pc'[c] # "read" /\ InTurn(c)' = InTurn(c)
      BY <2>0 DEF InTurn
    <3>. QED  BY <1>c, <2>0, <2>2, <3>1
  <2>. QED  BY <2>1, <2>2
<1>9. CASE Delete(c)
  <2>0. /\ store' = << >> /\ UNCHANGED << messages, loaded, buf >>
        /\ pc[c] = "idle" /\ pc'[c] = "returned" /\ loaded[s] \in BOOLEAN
    BY <1>0, <1>9 DEF Delete, TypeOK
  <2>1. \A d \in Calls : InTurn(d)' = InTurn(d) /\ (pc'[d] = "read" <=> pc[d] = "read")
    BY <1>a, <2>0 DEF InTurn
  <2>2. CASE loaded[s] \/ \E d \in Calls : pc[d] = "read"
    <3>1. Seen' = Seen
      BY <2>0, <2>1, <2>2, SeenNow, SeenNext
    <3>. QED  BY <2>0, <3>1 DEF Abstract!Forget, Abstract!Next
  <2>3. CASE ~ loaded[s] /\ \A d \in Calls : pc[d] # "read"
    <3>1. Seen' = Recovered(<< >>)
      BY <2>0, <2>1, <2>3, SeenNext
    <3>. QED  BY <2>0, <3>1 DEF Abstract!Forget, Abstract!Next, Recovered
  <2>. QED  BY <2>2, <2>3
<1>10. CASE Request(c)
  BY <1>0, <1>c, <1>10 DEF Request, TypeOK, InTurn
<1>11. CASE Chunk(c) \/ Resume(c)
  BY <1>0, <1>c, <1>11 DEF Chunk, Resume, TypeOK, InTurn
<1>12. CASE SaveReturns(c)
  BY <1>0, <1>c, <1>12 DEF SaveReturns, Release, TypeOK, InTurn
<1>13. CASE CancelWaiting(c)
  BY <1>0, <1>c, <1>13 DEF CancelWaiting, TypeOK, InTurn
<1>. QED  BY <1>1, <1>2, <1>3, <1>4, <1>5, <1>6, <1>7, <1>8, <1>9, <1>10,
             <1>11, <1>12, <1>13 DEF CallStep

LEMMA RestartImplements ==
    ASSUME HistorySafe, OneSession, SessionInv, SessionInv',
           NEW r \in Sessions, Restart(r)
    PROVE  [Abstract!Next]_(Abstract!vars)
<1>1. r = TheSession /\ \A c \in Calls : sess[c] = r
  BY OnlySession DEF SessionInv
<1>2. /\ ~ loaded'[r] /\ UNCHANGED store
      /\ \A c \in Calls : pc'[c] = IF Active(c) THEN "lost" ELSE pc[c]
  BY <1>1 DEF Restart, SessionInv, TypeOK
<1>3. \A c \in Calls : pc'[c] # "read"
  BY <1>2 DEF Active, Ended
<1>4. Seen' = Recovered(store)
  BY <1>1, <1>2, <1>3, SeenNext
<1>5. Abstract!Recover
  BY <1>2, <1>4 DEF Abstract!Recover, Abstract!Recovered, Recovered
<1>. QED  BY <1>5 DEF Abstract!Next

(* With one client, Session implements Conversation: for its callers the   *)
(* conversation grows by whole turns and notes, each once, whatever the    *)
(* coroutines, cancellations, store failures and restarts do, and only     *)
(* whole conversations are written (session.py:1-12).                      *)
THEOREM SessionIsConversation ==
    ASSUME HistorySafe, OneSession
    PROVE  Spec => ImplementsConversation
<1>1. Init => Abstract!Init
  <2>. SUFFICES ASSUME Init
                PROVE  Abstract!Init
    OBVIOUS
  <2>1. SessionInv
    BY TypeInit, WholeInit, OneOnStoreInit, CacheInit, TraceInit
       DEF SessionInv, Init, HistoryReadable
  <2>2. ~ loaded[TheSession] /\ \A c \in Calls : pc[c] # "read"
    BY <2>1, OnlySession DEF Init, SessionInv
  <2>3. Seen = Recovered(store)
    BY <2>1, <2>2, SeenNow
  <2>. QED  BY <2>3 DEF Init, Abstract!Init, Abstract!Recovered, Recovered
<1>2. SessionInv /\ SessionInv' /\ [Next]_vars => [Abstract!Next]_(Abstract!vars)
  <2>. SUFFICES ASSUME SessionInv, SessionInv', [Next]_vars
                PROVE  [Abstract!Next]_(Abstract!vars)
    OBVIOUS
  <2>1. CASE UNCHANGED vars
    <3>1. UNCHANGED << store, messages, loaded >>
      BY <2>1 DEF vars
    <3>2. \A d \in Calls : InTurn(d)' = InTurn(d) /\ pc'[d] = pc[d] /\ buf'[d] = buf[d]
      BY <2>1 DEF vars, InTurn
    <3>3. Seen' = Seen
      BY <3>1, <3>2, SeenStays
    <3>. QED  BY <3>1, <3>3 DEF Abstract!vars
  <2>2. CASE \E c \in Calls : Uninterrupted(c) /\ CallStep(c)
    BY <2>2, CallImplements
  <2>3. CASE \E r \in Sessions : Restart(r)
    BY <2>3, RestartImplements
  <2>. QED  BY <2>1, <2>2, <2>3 DEF Next
<1>. QED  BY HistorySafe, OneSession, <1>1, <1>2, SessionInvHolds, PTL
          DEF Spec, ImplementsConversation, Abstract!Spec
=============================================================================
