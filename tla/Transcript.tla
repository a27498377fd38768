----------------------------- MODULE Transcript -----------------------------
(***************************************************************************)
(* The vocabulary of a conversation: its messages, and what it means for a *)
(* list of messages to be a conversation nobody has corrupted.  A message  *)
(* keeps of aether.llm.contracts.Message only what the properties tell     *)
(* apart: its role and the call that produced it.  The text is left out.   *)
(***************************************************************************)
EXTENDS SequencesExt, Naturals

CONSTANTS
    Calls,      \* The calls made on a conversation, each of them once.
    Prior       \* The author of every message that is older than those calls.

ASSUME PriorAssumption == Prior \notin Calls

-----------------------------------------------------------------------------

(* "note" stands for whatever Session.add_message injects: the caller may  *)
(* give it any role, and it is no half of a question and its answer.       *)
Roles == {"system", "user", "assistant", "note"}

Message == [role : Roles, by : Calls \cup {Prior}]

System       == [role |-> "system",    by |-> Prior]
User(c)      == [role |-> "user",      by |-> c]
Assistant(c) == [role |-> "assistant", by |-> c]

(* Slip: an injected message keeps a role that sessions do not know.       *)
NoteAsTool(c) == [role |-> "tool", by |-> c]

Note(c)      == [role |-> "note",      by |-> c]

(* What Session.complete and Session.stream add to a conversation.         *)
Turn(c) == << User(c), Assistant(c) >>

(* Every question is followed at once by its own answer ...                *)
QuestionsAnswered(list) ==
    \A i \in 1 .. Len(list) :
        list[i].role = "user" =>
            /\ i < Len(list)
            /\ list[i + 1] = Assistant(list[i].by)

(* ... and every answer comes right after its own question.                *)
AnswersAsked(list) ==
    \A i \in 1 .. Len(list) :
        list[i].role = "assistant" =>
            /\ i > 1
            /\ list[i - 1] = User(list[i].by)

WholeTurns(list) == QuestionsAnswered(list) /\ AnswersAsked(list)

(* A list of whole turns to which the question of c has just been added.   *)
AsksLast(list, c) ==
    /\ list # << >>
    /\ Last(list) = User(c)
    /\ WholeTurns(Front(list))

Has(list, c, role) ==
    \E i \in 1 .. Len(list) : list[i] = [role |-> role, by |-> c]
=============================================================================
