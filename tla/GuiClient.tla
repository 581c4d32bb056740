----------------------------- MODULE GuiClient -----------------------------
(***************************************************************************)
(* A client of the GUI service: it finds the service by name in the task   *)
(* list, sends a request, and takes the first message that comes within    *)
(* five seconds, whoever sent it, for the answer if its opcode is right.   *)
(* The service may be slow, end and be started again under a new id by     *)
(* init; ended tasks stay in the task list; other tasks may send the       *)
(* client messages of their own.                                           *)
(***************************************************************************)
EXTENDS Naturals, SequencesExt

CONSTANTS Opcodes, MaxCalls, MaxGuis,
          MaxOthers  \* bound: messages other tasks send the client

VARIABLES guis,      \* the GUI.ELF entries of the task list: whether each is alive
          todo,      \* requests in the queue of the one that is alive
          inbox,     \* messages in the client's queue; no = 0 for another task's
          guiId,     \* GuiClient.gui_id
          calling,   \* the call under way: [op, no], no = 0 for none
          calls,     \* calls sent
          givenUp,   \* calls that ended at the timeout
          others,    \* messages other tasks have sent
          misled,    \* calls that ended with another task's message
          accepted   \* the last answer accepted, and for which call

clientVars == <<guis, todo, inbox, guiId, calling, calls, givenUp, others, misled, accepted>>

NoCall == [op |-> "none", no |-> 0]

ClientInit ==
  /\ guis = <<TRUE>> /\ todo = <<>> /\ inbox = <<>>
  /\ guiId = 0 /\ calling = NoCall /\ calls = 0 /\ givenUp = 0
  /\ others = 0 /\ misled = 0
  /\ accepted = [answer |-> NoCall, call |-> NoCall]

\* resolve_task_id_by_name: the first entry of that name, alive or not.
Resolved == IF guis = <<>> THEN 0 ELSE 1

ensure_gui_id == IF guiId # 0 THEN guiId ELSE Resolved

Delivers(id) == id # 0 /\ guis[id]

\* request_with_payload up to ipc_recv: a send that fails is tried once more with the
\* id looked up again.
SendRequest(op) ==
  LET first == ensure_gui_id
      id == IF Delivers(first) THEN first ELSE Resolved
  IN /\ calling = NoCall /\ calls < MaxCalls
     /\ guiId' = id
     /\ IF Delivers(id)
        THEN /\ calls' = calls + 1
             /\ calling' = [op |-> op, no |-> calls']
             /\ todo' = Append(todo, calling')
        ELSE UNCHANGED <<calls, calling, todo>>
     /\ UNCHANGED <<guis, inbox, givenUp, others, misled, accepted>>

\* The service handles the next request and answers it.
ServeRequest ==
  /\ todo # <<>>
  /\ inbox' = Append(inbox, Head(todo))
  /\ todo' = Tail(todo)
  /\ UNCHANGED <<guis, guiId, calling, calls, givenUp, others, misled, accepted>>

\* sys_ipc_send by a task that is not the service: any opcode, or a message too short
\* to have one.
OtherSends(op) ==
  /\ others < MaxOthers
  /\ others' = others + 1
  /\ inbox' = Append(inbox, [op |-> op, no |-> 0])
  /\ UNCHANGED <<guis, todo, guiId, calling, calls, givenUp, misled, accepted>>

\* The check of the answer's opcode.
Accepts_Any(answer, call) == TRUE
Accepts(answer, call) == answer.op = call.op

\* ipc_recv returns the oldest message; its sender is not looked at.
ReceiveAnswer ==
  /\ calling # NoCall /\ inbox # <<>>
  /\ inbox' = Tail(inbox)
  /\ calling' = NoCall
  /\ misled' = IF Head(inbox).no = 0 THEN misled + 1 ELSE misled
  /\ accepted' = IF Accepts(Head(inbox), calling) THEN [answer |-> Head(inbox), call |-> calling]
                 ELSE accepted
  /\ UNCHANGED <<guis, todo, guiId, calls, givenUp, others>>

\* ipc_recv's 5000 ms pass.
GiveUpCall ==
  /\ calling # NoCall /\ inbox = <<>>
  /\ calling' = NoCall /\ givenUp' = givenUp + 1
  /\ UNCHANGED <<guis, todo, inbox, guiId, calls, others, misled, accepted>>

\* The service ends, with its queue; init starts the next.
GuiEnds ==
  /\ Last(guis)
  /\ guis' = [guis EXCEPT ![Len(guis)] = FALSE]
  /\ todo' = <<>>
  /\ UNCHANGED <<inbox, guiId, calling, calls, givenUp, others, misled, accepted>>

GuiStarts ==
  /\ ~Last(guis) /\ Len(guis) < MaxGuis
  /\ guis' = Append(guis, TRUE)
  /\ UNCHANGED <<todo, inbox, guiId, calling, calls, givenUp, others, misled, accepted>>

ClientStep ==
  \/ \E op \in Opcodes : SendRequest(op)
  \/ \E op \in Opcodes \cup {"none"} : OtherSends(op)
  \/ ServeRequest \/ ReceiveAnswer \/ GiveUpCall \/ GuiEnds \/ GuiStarts

-----------------------------------------------------------------------------
\* An answer the client accepts has the opcode of its call, and one of the service's
\* is behind the call by no more calls than ended before without an answer of the
\* service, at their timeout or with another task's message: with neither, every
\* answer of the service is the call's.
OwnReply ==
  accepted.call # NoCall =>
    /\ accepted.answer.op = accepted.call.op
    /\ accepted.answer.no <= accepted.call.no
    /\ accepted.answer.no # 0 => accepted.call.no - accepted.answer.no <= givenUp + misled

\* What the client takes for the answer is the GUI service's: gui_client.rs:144.
AnswerOfService == accepted.call # NoCall => accepted.answer.no # 0
=============================================================================
