------------------------------ MODULE MCEvents ------------------------------
(***************************************************************************)
(* The two users of incoming updates, checked in one run: the dispatcher   *)
(* (Dispatch, which this module extends) and one conversation.  They share *)
(* no state; the "subject" chosen at first is the one that runs, and the   *)
(* other one stays where it begins.                                        *)
(***************************************************************************)
EXTENDS Dispatch, TLC

CONSTANTS Waiters, Deliverers, Queues, Items, Requests, None, Cap, MaxGen,
          h1, h2, p1, m1, m2

VARIABLES subject, entering, cancelled, doneGen, chanGen, closed, buf, wait, deliv, sent, outcome

Conversation == INSTANCE Conversation
ASSUME ConversationAssumption == Conversation!ParametersOK

convVars == <<entering, cancelled, doneGen, chanGen, closed, buf, wait, deliv, sent, outcome>>
allVars  == <<vars, subject, convVars>>

\* One handler takes messages only, the other has no filter.
Filters == (h1 :> {"message"}) @@ (h2 :> {"message", "callback"})

\* A batch with entities and one without, which an unrouted update begins.
Containers == {[updates |-> <<"message", "callback">>, peers |-> {p1}],
               [updates |-> <<"typing", "message">>, peers |-> {}]}

\* GetReply takes some of the messages and discards the others; GetResponse,
\* GetEdit and WaitRead are the case of a wait whose items are all taken.
GetReply == [queue |-> "incoming", accepts |-> Items \cap {m2}]
OneQueue == {"incoming"}
OneWait  == {GetReply}

-----------------------------------------------------------------------------
AllInit == subject \in {"dispatch", "conversation"} /\ Init /\ Conversation!Init

ConversationOnly == UNCHANGED <<vars, subject>>
AllNext ==
  \/ subject = "dispatch" /\ Next /\ UNCHANGED <<subject, convVars>>
  \/ subject = "conversation" /\ Conversation!Next /\ ConversationOnly

(* A goroutine in the middle of a call on a conversation goes on when it can. *)
AllSpec ==
  /\ AllInit /\ [][AllNext]_allVars
  /\ WF_allVars(subject = "conversation" /\ Conversation!EnterQueues /\ ConversationOnly)
  /\ \A w \in Waiters : WF_allVars(subject = "conversation" /\ Conversation!WaiterStep(w) /\ ConversationOnly)
  /\ \A d \in Deliverers : WF_allVars(subject = "conversation" /\ Conversation!DeliverStep(d) /\ ConversationOnly)

-----------------------------------------------------------------------------
\* The sessions of a conversation do not leak into each other: besides the types,
\* the cancelled flag agrees with the channel that the waits select on, and no
\* wait returns what was delivered to an earlier session (conversation.go:62-157).
SessionsApart == Conversation!TypeOK /\ Conversation!DoneFollowsFlag /\ Conversation!SessionIsolation

\* A cancel ends every wait, and an accepted item that is buffered is taken
\* (conversation.go:105-200).
WaitsEnd == Conversation!CancelUnblocks /\ Conversation!AcceptedIsTaken

=============================================================================
