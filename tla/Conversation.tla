--------------------------- MODULE Conversation ---------------------------
(***************************************************************************)
(* types.Conversation: one conversation, the goroutines that wait in it,   *)
(* the goroutines that deliver to it, and its Enter / Cancel life cycle.   *)
(*                                                                         *)
(* Enter after a Cancel replaces c.done, c.incoming, c.edits and c.reads.  *)
(* A generation is one such set of channels.  c.cancelled and the writes   *)
(* of Enter and Cancel are protected by c.mu; the waiters and the Deliver  *)
(* methods read the channel fields WITHOUT it, and a waiter reads them     *)
(* again in every turn of its loop, in the order of the select's cases.    *)
(* The model gives each of those reads a step of its own.                  *)
(*                                                                         *)
(* sentMsgIDs, which is written and never read, the client's SendText and  *)
(* MarkRead, and the lengths of timeouts are left out: a timeout or a      *)
(* cancelled context may end a wait at any time.                           *)
(***************************************************************************)
EXTENDS Integers, Sequences

CONSTANTS Waiters,    \* goroutines that wait in the conversation
          Deliverers, \* goroutines that deliver to it
          Queues,     \* its channels of messages, edits and read marks
          Items,      \* what is delivered
          Requests,   \* waits: the queue and the set of items it accepts
          None,       \* no request, no item
          Cap,        \* the capacity of the queues (64 in the code)
          MaxGen      \* bound on the generations of channels

ParametersOK ==
  /\ Cap \in Nat \ {0}
  /\ MaxGen \in Nat \ {0}
  /\ \A r \in Requests : r.queue \in Queues /\ r.accepts \subseteq Items
  /\ None \notin Requests /\ None \notin Items

VARIABLES
  entering,  \* Enter holds c.mu and has not yet replaced the queues
  cancelled, \* c.cancelled
  doneGen,   \* the generation of c.done
  chanGen,   \* the generation of c.incoming, c.edits and c.reads
  closed,    \* the generations whose done channel has been closed
  buf,       \* per queue and generation: the items buffered
  wait,      \* per waiter: its call and the channels it last read
  deliv,     \* per deliverer: its call and the channel it read
  sent,      \* history: items delivered, with the generation of the call
             \*          and whether Enter ran during it
  outcome    \* history: per waiter: how its last call ended

vars == <<entering, cancelled, doneGen, chanGen, closed, buf, wait, deliv, sent, outcome>>

Gens == 1 .. MaxGen

\* A waiter that is not in a call, and a deliverer that is not in one.
NoWait  == [pc |-> "idle", req |-> None, done |-> 1, chan |-> 1, gen |-> 1, hit |-> FALSE]
NoDeliv == [pc |-> "idle", queue |-> None, item |-> None, chan |-> 1, gen |-> 1, crossed |-> FALSE]

Waiting(w) == wait[w].pc # "idle"
Ended(kind, item, w) ==
  [kind |-> kind, item |-> item, gen |-> wait[w].gen, hit |-> wait[w].hit]

\* The items that Deliver, DeliverEdit and DeliverRead have dealt with.
SentItems == {s.item : s \in sent}

----------------------------------------------------------------------------
Init ==
  /\ entering  = FALSE
  /\ cancelled = FALSE
  /\ doneGen   = 1
  /\ chanGen   = 1
  /\ closed    = {}
  /\ buf       = [q \in Queues |-> [g \in Gens |-> << >>]]
  /\ wait      = [w \in Waiters |-> NoWait]
  /\ deliv     = [d \in Deliverers |-> NoDeliv]
  /\ sent      = {}
  /\ outcome   = [w \in Waiters |-> [kind |-> "none", item |-> None, gen |-> 1, hit |-> FALSE]]

(* ------------------------------ life cycle ----------------------------- *)

\* Enter takes c.mu; only after a Cancel has it anything to replace.
Enter ==
  /\ ~entering
  /\ cancelled
  /\ doneGen < MaxGen
  /\ entering'  = TRUE
  /\ cancelled' = FALSE
  /\ doneGen'   = doneGen + 1
  /\ UNCHANGED <<chanGen, closed, buf, wait, deliv, sent, outcome>>

\* Seeded fault: Enter opens a new done channel and keeps the old queues.
EnterKeepsQueues ==
  /\ entering
  /\ entering' = FALSE
  /\ deliv' = [d \in Deliverers |->
       IF deliv[d].pc = "idle" THEN deliv[d] ELSE [deliv[d] EXCEPT !.crossed = TRUE]]
  /\ UNCHANGED <<cancelled, doneGen, chanGen, closed, buf, wait, sent, outcome>>

\* It replaces the queues and releases c.mu.
EnterQueues ==
  /\ entering
  /\ entering' = FALSE
  /\ chanGen'  = doneGen
  /\ deliv' = [d \in Deliverers |->
       IF deliv[d].pc = "idle" THEN deliv[d] ELSE [deliv[d] EXCEPT !.crossed = TRUE]]
  /\ UNCHANGED <<cancelled, doneGen, closed, buf, wait, sent, outcome>>

\* Seeded fault: Cancel sets the flag and does not close the channel.
CancelWithoutClose ==
  /\ ~entering
  /\ ~cancelled
  /\ cancelled' = TRUE
  /\ wait' = [w \in Waiters |-> IF Waiting(w) THEN [wait[w] EXCEPT !.hit = TRUE] ELSE wait[w]]
  /\ UNCHANGED <<entering, doneGen, chanGen, closed, buf, deliv, sent, outcome>>

\* Cancel, and Exit, which calls it.
Cancel ==
  /\ ~entering
  /\ ~cancelled
  /\ cancelled' = TRUE
  /\ closed'    = closed \cup {doneGen}
  /\ wait' = [w \in Waiters |-> IF Waiting(w) THEN [wait[w] EXCEPT !.hit = TRUE] ELSE wait[w]]
  /\ UNCHANGED <<entering, doneGen, chanGen, buf, deliv, sent, outcome>>

(* ------------------------------- waiters ------------------------------- *)

\* GetResponse, GetReply, WaitEvent, GetEdit and WaitRead begin alike.
Wait(w, r) ==
  /\ ~Waiting(w)
  /\ ~entering
  /\ ~cancelled
  /\ wait' = [wait EXCEPT ![w] = [NoWait EXCEPT !.pc = "loop", !.req = r, !.gen = doneGen]]
  /\ UNCHANGED <<entering, cancelled, doneGen, chanGen, closed, buf, deliv, sent, outcome>>

WaitRefused(w) ==
  /\ ~Waiting(w)
  /\ ~entering
  /\ cancelled
  /\ outcome' = [outcome EXCEPT ![w] = [kind |-> "cancelled", item |-> None,
                                        gen |-> doneGen, hit |-> TRUE]]
  /\ UNCHANGED <<entering, cancelled, doneGen, chanGen, closed, buf, wait, deliv, sent>>

\* The select statement reads c.done and then the queue ...
ReadDone(w) ==
  /\ wait[w].pc = "loop"
  /\ wait' = [wait EXCEPT ![w].pc = "done", ![w].done = doneGen]
  /\ UNCHANGED <<entering, cancelled, doneGen, chanGen, closed, buf, deliv, sent, outcome>>

ReadQueue(w) ==
  /\ wait[w].pc = "done"
  /\ wait' = [wait EXCEPT ![w].pc = "select", ![w].chan = chanGen]
  /\ UNCHANGED <<entering, cancelled, doneGen, chanGen, closed, buf, deliv, sent, outcome>>

\* ... and then takes any case that is ready.
Return(w, kind, item) ==
  /\ wait'    = [wait    EXCEPT ![w] = NoWait]
  /\ outcome' = [outcome EXCEPT ![w] = Ended(kind, item, w)]
  /\ UNCHANGED <<entering, cancelled, doneGen, chanGen, closed, deliv, sent>>

SelectDone(w) ==
  /\ wait[w].pc = "select"
  /\ wait[w].done \in closed
  /\ Return(w, "cancelled", None)
  /\ UNCHANGED buf

\* The timer or the caller's context.
SelectTimeout(w) ==
  /\ wait[w].pc = "select"
  /\ Return(w, "timeout", None)
  /\ UNCHANGED buf

\* The head of the queue ends the wait if the request accepts it, and is
\* discarded if not.
SelectItem(w) ==
  LET q == wait[w].req.queue
      g == wait[w].chan
  IN /\ wait[w].pc = "select"
     /\ buf[q][g] # << >>
     /\ buf' = [buf EXCEPT ![q][g] = Tail(@)]
     /\ IF Head(buf[q][g]) \in wait[w].req.accepts
        THEN Return(w, "item", Head(buf[q][g]))
        ELSE /\ wait' = [wait EXCEPT ![w].pc = "loop"]
             /\ UNCHANGED <<entering, cancelled, doneGen, chanGen, closed, deliv, sent, outcome>>

(* ------------------------------ deliveries ----------------------------- *)

\* Deliver, DeliverEdit or DeliverRead: isCancelled, the field, the send.
Deliver(d, q, x) ==
  /\ deliv[d].pc = "idle"
  /\ x \notin SentItems
  /\ \A e \in Deliverers : deliv[e].item # x
  /\ ~entering
  /\ ~cancelled
  /\ deliv' = [deliv EXCEPT ![d] = [pc |-> "checked", queue |-> q, item |-> x, chan |-> 1,
                                    gen |-> doneGen, crossed |-> FALSE]]
  /\ UNCHANGED <<entering, cancelled, doneGen, chanGen, closed, buf, wait, sent, outcome>>

DeliverReadQueue(d) ==
  /\ deliv[d].pc = "checked"
  /\ deliv' = [deliv EXCEPT ![d].pc = "send", ![d].chan = chanGen]
  /\ UNCHANGED <<entering, cancelled, doneGen, chanGen, closed, buf, wait, sent, outcome>>

\* A full queue drops the item: Deliver never blocks.
DeliverSend(d) ==
  LET q == deliv[d].queue
      g == deliv[d].chan
  IN /\ deliv[d].pc = "send"
     /\ buf'   = IF Len(buf[q][g]) < Cap
                 THEN [buf EXCEPT ![q][g] = Append(@, deliv[d].item)] ELSE buf
     /\ sent'  = sent \cup {[item |-> deliv[d].item, gen |-> deliv[d].gen,
                             crossed |-> deliv[d].crossed]}
     /\ deliv' = [deliv EXCEPT ![d] = NoDeliv]
     /\ UNCHANGED <<entering, cancelled, doneGen, chanGen, closed, wait, outcome>>

WaiterStep(w)  == ReadDone(w) \/ ReadQueue(w) \/ SelectDone(w) \/ SelectItem(w)
DeliverStep(d) == DeliverReadQueue(d) \/ DeliverSend(d)

Next ==
  \/ Enter
  \/ EnterQueues
  \/ Cancel
  \/ \E w \in Waiters : \/ \E r \in Requests : Wait(w, r)
                        \/ WaitRefused(w)
                        \/ SelectTimeout(w)
                        \/ WaiterStep(w)
  \/ \E d \in Deliverers : \/ \E q \in Queues, x \in Items : Deliver(d, q, x)
                           \/ DeliverStep(d)

Spec == Init /\ [][Next]_vars

\* A goroutine in the middle of a call goes on when it can.  Nothing obliges
\* anyone to begin a call, to cancel, or a timer to be short.
FairSpec ==
  /\ Spec
  /\ WF_vars(EnterQueues)
  /\ \A w \in Waiters : WF_vars(WaiterStep(w))
  /\ \A d \in Deliverers : WF_vars(DeliverStep(d))

----------------------------------------------------------------------------
WaitStates ==
  [pc : {"idle", "loop", "done", "select"}, req : Requests \cup {None},
   done : Gens, chan : Gens, gen : Gens, hit : BOOLEAN]
DeliveryStates ==
  [pc : {"idle", "checked", "send"}, queue : Queues \cup {None}, item : Items \cup {None},
   chan : Gens, gen : Gens, crossed : BOOLEAN]
Outcomes ==
  [kind : {"none", "item", "cancelled", "timeout"}, item : Items \cup {None}, gen : Gens, hit : BOOLEAN]

TypeOK ==
  /\ entering \in BOOLEAN /\ cancelled \in BOOLEAN
  /\ doneGen \in Gens /\ chanGen \in Gens
  /\ closed \subseteq Gens
  /\ buf \in [Queues -> [Gens -> Seq(Items)]]
  /\ \A q \in Queues, g \in Gens : Len(buf[q][g]) <= Cap
  /\ wait \in [Waiters -> WaitStates]
  /\ deliv \in [Deliverers -> DeliveryStates]
  /\ sent \subseteq [item : Items, gen : Gens, crossed : BOOLEAN]
  /\ outcome \in [Waiters -> Outcomes]

\* c.cancelled tells exactly whether c.done is closed, and every earlier done
\* channel is closed: Cancel never closes one twice, which would panic, and a
\* waiter that still holds an old one is never stranded (conversation.go:60-71,
\* 280-287).
DoneFollowsFlag ==
  /\ cancelled <=> doneGen \in closed
  /\ \A g \in 1 .. doneGen - 1 : g \in closed

\* A wait that no Cancel has met and a delivery that no Enter has met belong
\* to one session: what such a wait returns was not left over from an earlier
\* session and was not sent in one (conversation.go:65-68 makes new queues).
SessionIsolation ==
  \A w \in Waiters : \A s \in sent :
    (outcome[w].kind = "item" /\ outcome[w].item = s.item /\ ~outcome[w].hit /\ ~s.crossed)
      => outcome[w].gen = s.gen

\* A wait in a cancelled conversation ends, without the help of its timer,
\* unless the conversation is entered again first.
CancelUnblocks ==
  \A w \in Waiters : (Waiting(w) /\ cancelled) ~> (~Waiting(w) \/ ~cancelled)

\* An item that a wait accepts and that is buffered where the wait listens
\* ends the wait or is taken by another one.
AcceptedIsTaken ==
  \A w \in Waiters : \A x \in Items :
    (/\ wait[w].pc = "select"
     /\ x \in wait[w].req.accepts
     /\ \E i \in 1 .. Len(buf[wait[w].req.queue][wait[w].chan]) :
          buf[wait[w].req.queue][wait[w].chan][i] = x)
    ~> (\/ ~Waiting(w)
        \/ \A q \in Queues, g \in Gens : \A i \in 1 .. Len(buf[q][g]) : buf[q][g][i] # x)

=============================================================================
