--------------------------- MODULE MCEvents_proofs --------------------------
(***************************************************************************)
(* Proofs about the two users of incoming updates, for any sets of         *)
(* waiters, deliverers, queues and items, and for any handlers,            *)
(* middlewares, batches and number of goroutines.                          *)
(*                                                                         *)
(* That a session is isolated is inductive only with what makes it so: a   *)
(* wait that no Cancel has met still belongs to the session in force, so   *)
(* does a delivery that no Enter has met, and what lies in a queue was     *)
(* sent in the session for which the queue was made.                       *)
(*                                                                         *)
(* What a batch of updates has done is known from where it is: the calls   *)
(* behind its position are those it owes and has made.                     *)
(***************************************************************************)
EXTENDS MCEvents, TLAPS

-----------------------------------------------------------------------------
(* The conversation. *)

\* Enter makes the channels of the next generation, and Cancel closes the
\* present one only.
Channels ==
  /\ closed \subseteq 1 .. doneGen
  /\ ~entering => chanGen = doneGen
  /\ entering => ~cancelled

\* A wait that no Cancel has met is in the session in which it began.
WaitsInSession ==
  \A w \in Waiters : wait[w].pc # "idle" =>
    /\ wait[w].req \in Requests
    /\ ~wait[w].hit =>
         /\ ~cancelled /\ ~entering
         /\ wait[w].gen = doneGen
         /\ wait[w].pc = "select" => wait[w].chan = doneGen

\* A delivery that no Enter has met uses the queues of the session in which it
\* began, and its item is on its way for the first time.
DeliveriesInSession ==
  \A d \in Deliverers : deliv[d].pc # "idle" =>
    /\ deliv[d].queue \in Queues
    /\ deliv[d].item \in Items \ Conversation!SentItems
    /\ \A e \in Deliverers \ {d} : deliv[e].item # deliv[d].item
    /\ ~deliv[d].crossed =>
         /\ deliv[d].gen = chanGen
         /\ deliv[d].pc = "send" => deliv[d].chan = chanGen

\* The item x was sent, and in generation g unless an Enter met its delivery.
SentIn(x, g) ==
  /\ x \in Conversation!SentItems
  /\ \A s \in sent : s.item = x /\ ~s.crossed => s.gen = g

BuffersInSession ==
  \A q \in Queues, g \in Conversation!Gens : \A i \in 1 .. Len(buf[q][g]) : SentIn(buf[q][g][i], g)

OutcomesInSession ==
  \A w \in Waiters : outcome[w].kind = "item" =>
    /\ outcome[w].item \in Conversation!SentItems
    /\ ~outcome[w].hit => SentIn(outcome[w].item, outcome[w].gen)

ConvInv ==
  /\ Conversation!TypeOK /\ Conversation!DoneFollowsFlag
  /\ Channels /\ WaitsInSession /\ DeliveriesInSession /\ BuffersInSession /\ OutcomesInSession

-----------------------------------------------------------------------------
\* A conversation that nobody has used satisfies the invariant.
LEMMA ConvInit == Conversation!Init => ConvInv
<1> SUFFICES ASSUME Conversation!Init PROVE ConvInv
  OBVIOUS
<1> USE ConversationAssumption DEF Conversation!ParametersOK, Conversation!Init, Conversation!Gens, Conversation!NoWait, Conversation!NoDeliv
<1>1. Conversation!TypeOK
  <2>1. /\ buf \in [Queues -> [Conversation!Gens -> Seq(Items)]]
        /\ \A q \in Queues, g \in Conversation!Gens : Len(buf[q][g]) <= Cap
    OBVIOUS
  <2>2. wait \in [Waiters -> Conversation!WaitStates]
    BY DEF Conversation!WaitStates
  <2>3. deliv \in [Deliverers -> Conversation!DeliveryStates]
    BY DEF Conversation!DeliveryStates
  <2>4. outcome \in [Waiters -> Conversation!Outcomes]
    BY DEF Conversation!Outcomes
  <2>5. doneGen \in Conversation!Gens /\ chanGen \in Conversation!Gens /\ closed = {} /\ sent = {}
    OBVIOUS
  <2> QED BY <2>1, <2>2, <2>3, <2>4, <2>5 DEF Conversation!TypeOK
<1>2. Conversation!DoneFollowsFlag /\ Channels
  BY DEF Conversation!DoneFollowsFlag, Channels
<1>3. WaitsInSession /\ DeliveriesInSession /\ BuffersInSession /\ OutcomesInSession
  BY DEF WaitsInSession, DeliveriesInSession, BuffersInSession, OutcomesInSession
<1> QED BY <1>1, <1>2, <1>3 DEF ConvInv

\* What is left of a queue when its head is taken.
LEMMA TailOf ==
  ASSUME NEW S, NEW s \in Seq(S), s # <<>>
  PROVE  /\ Head(s) = s[1] /\ s[1] \in S /\ Tail(s) \in Seq(S)
         /\ Len(s) \in Nat \ {0} /\ Len(Tail(s)) = Len(s) - 1
         /\ \A i \in 1 .. Len(Tail(s)) : Tail(s)[i] = s[i + 1]
  OBVIOUS

\* Enter, Cancel and Exit.
LEMMA LifeCycleStep ==
  ASSUME ConvInv, Conversation!Enter \/ Conversation!EnterQueues \/ Conversation!Cancel
  PROVE  ConvInv'
<1> USE ConversationAssumption
    DEF ConvInv, Conversation!ParametersOK, Conversation!Gens, Conversation!TypeOK, Conversation!SentItems, SentIn
<1>1. CASE Conversation!Enter
  <2> USE <1>1 DEF Conversation!Enter
  <2>0. doneGen' \in 1 .. MaxGen
    OBVIOUS
  <2>1. Conversation!TypeOK'
    BY <2>0
  <2>2. Conversation!DoneFollowsFlag' /\ Channels'
    BY DEF Conversation!DoneFollowsFlag, Channels
  <2>3. WaitsInSession'
    BY DEF WaitsInSession
  <2>4. DeliveriesInSession'
    BY DEF DeliveriesInSession
  <2>5. BuffersInSession' /\ OutcomesInSession'
    BY DEF BuffersInSession, OutcomesInSession
  <2> QED BY <2>1, <2>2, <2>3, <2>4, <2>5
<1>2. CASE Conversation!EnterQueues
  <2> USE <1>2 DEF Conversation!EnterQueues
  <2>1. Conversation!TypeOK'
    BY DEF Conversation!DeliveryStates
  <2>2. Conversation!DoneFollowsFlag' /\ Channels'
    BY DEF Conversation!DoneFollowsFlag, Channels
  <2>3. WaitsInSession'
    BY DEF WaitsInSession
  <2>4. DeliveriesInSession'
    <3>1. \A d \in Deliverers :
            /\ deliv'[d].pc = deliv[d].pc /\ deliv'[d].queue = deliv[d].queue /\ deliv'[d].item = deliv[d].item
            /\ deliv[d].pc # "idle" => deliv'[d].crossed
      BY DEF Conversation!DeliveryStates
    <3> HIDE DEF Conversation!EnterQueues
    <3>2. Conversation!SentItems' = Conversation!SentItems
      BY DEF Conversation!EnterQueues
    <3> HIDE DEF Conversation!SentItems, Conversation!TypeOK
    <3>3. ASSUME NEW d \in Deliverers, deliv'[d].pc # "idle"
          PROVE  /\ deliv'[d].queue \in Queues /\ deliv'[d].item \in Items \ Conversation!SentItems'
                 /\ \A e \in Deliverers \ {d} : deliv'[e].item # deliv'[d].item
                 /\ deliv'[d].crossed
      BY <3>1, <3>2, <3>3 DEF DeliveriesInSession
    <3> QED BY <3>3 DEF DeliveriesInSession
  <2>5. BuffersInSession' /\ OutcomesInSession'
    BY DEF BuffersInSession, OutcomesInSession
  <2> QED BY <2>1, <2>2, <2>3, <2>4, <2>5
<1>3. CASE Conversation!Cancel
  <2> USE <1>3 DEF Conversation!Cancel, Conversation!Waiting
  <2>1. Conversation!TypeOK'
    <3>1. wait \in [Waiters -> Conversation!WaitStates] /\ doneGen \in Conversation!Gens
      BY DEF Conversation!Gens
    <3>2. wait' \in [Waiters -> Conversation!WaitStates]
      <4>1. ASSUME NEW x \in Conversation!WaitStates PROVE [x EXCEPT !.hit = TRUE] \in Conversation!WaitStates
        BY DEF Conversation!WaitStates
      <4> QED BY <3>1, <4>1
    <3>3. closed' \subseteq Conversation!Gens
      BY <3>1 DEF Conversation!Gens
    <3> QED BY <3>1, <3>2, <3>3 DEF Conversation!Gens
  <2>2. Conversation!DoneFollowsFlag' /\ Channels'
    BY DEF Conversation!DoneFollowsFlag, Channels
  <2>3. WaitsInSession'
    <3>1. \A w \in Waiters :
            /\ wait'[w].pc = wait[w].pc /\ wait'[w].req = wait[w].req
            /\ wait[w].pc # "idle" => wait'[w].hit
      BY DEF Conversation!WaitStates
    <3> QED BY <3>1 DEF WaitsInSession
  <2>4. DeliveriesInSession'
    BY DEF DeliveriesInSession
  <2>5. BuffersInSession' /\ OutcomesInSession'
    BY DEF BuffersInSession, OutcomesInSession
  <2> QED BY <2>1, <2>2, <2>3, <2>4, <2>5
<1> QED BY <1>1, <1>2, <1>3

\* What a step leaves alone keeps its part of the invariant.
LEMMA ConvFrame ==
  ASSUME ConvInv
  PROVE  /\ UNCHANGED <<entering, cancelled, doneGen, chanGen, closed>> => Conversation!DoneFollowsFlag' /\ Channels'
         /\ UNCHANGED <<entering, cancelled, doneGen, wait>> => WaitsInSession'
         /\ UNCHANGED <<chanGen, deliv, sent>> => DeliveriesInSession'
         /\ UNCHANGED <<buf, sent>> => BuffersInSession'
         /\ UNCHANGED <<sent, outcome>> => OutcomesInSession'
<1> USE DEF ConvInv, Conversation!SentItems, SentIn
<1>1. UNCHANGED <<entering, cancelled, doneGen, chanGen, closed>> => Conversation!DoneFollowsFlag' /\ Channels'
  BY DEF Conversation!DoneFollowsFlag, Channels
<1>2. UNCHANGED <<entering, cancelled, doneGen, wait>> => WaitsInSession'
  BY DEF WaitsInSession
<1>3. UNCHANGED <<chanGen, deliv, sent>> => DeliveriesInSession'
  BY DEF DeliveriesInSession
<1>4. UNCHANGED <<buf, sent>> => BuffersInSession'
  BY DEF BuffersInSession
<1>5. UNCHANGED <<sent, outcome>> => OutcomesInSession'
  BY DEF OutcomesInSession
<1> QED BY <1>1, <1>2, <1>3, <1>4, <1>5

LifeCycleVars == <<entering, cancelled, doneGen, chanGen, closed>>

\* A wait that begins, or reads a channel.
LEMMA WaitMoves ==
  ASSUME ConvInv, NEW w \in Waiters,
         \/ \E r \in Requests : Conversation!Wait(w, r)
         \/ Conversation!ReadDone(w) \/ Conversation!ReadQueue(w)
  PROVE  ConvInv'
<1>1. /\ UNCHANGED <<entering, cancelled, doneGen, chanGen, closed, buf, deliv, sent, outcome>>
      /\ wait' \in [Waiters -> Conversation!WaitStates]
      /\ \A v \in Waiters \ {w} : wait'[v] = wait[v]
      /\ wait'[w].pc = "select" => wait[w].pc # "idle" /\ wait'[w].chan = chanGen
      /\ \/ /\ wait[w].pc # "idle"
            /\ wait'[w].hit = wait[w].hit /\ wait'[w].gen = wait[w].gen /\ wait'[w].req = wait[w].req
         \/ wait'[w].req \in Requests /\ wait'[w].gen = doneGen /\ ~cancelled /\ ~entering
  <2> USE DEF ConvInv, Conversation!TypeOK, Conversation!WaitStates
  <2>1. ASSUME NEW r \in Requests, Conversation!Wait(w, r) PROVE <1>1
    <3> DEFINE begun == [Conversation!NoWait EXCEPT !.pc = "loop", !.req = r, !.gen = doneGen]
    <3>1. begun \in Conversation!WaitStates /\ begun.pc = "loop" /\ begun.req = r /\ begun.gen = doneGen
      <4> HIDE DEF ConvInv, Conversation!TypeOK
      <4>1. doneGen \in 1 .. MaxGen /\ 1 \in 1 .. MaxGen
        BY ConversationAssumption DEF ConvInv, Conversation!TypeOK, Conversation!ParametersOK, Conversation!Gens
      <4> QED BY <4>1 DEF Conversation!NoWait, Conversation!Gens
    <3>2. /\ wait' = [wait EXCEPT ![w] = begun] /\ ~cancelled /\ ~entering
          /\ UNCHANGED <<entering, cancelled, doneGen, chanGen, closed, buf, deliv, sent, outcome>>
      BY <2>1 DEF Conversation!Wait
    <3> HIDE DEF begun, Conversation!WaitStates
    <3> QED BY <3>1, <3>2
  <2>2. CASE Conversation!ReadDone(w)
    BY <2>2 DEF Conversation!ReadDone
  <2>3. CASE Conversation!ReadQueue(w)
    <3> DEFINE x == wait[w]
               asked == [x EXCEPT !.pc = "select", !.chan = chanGen]
    <3>1. x \in Conversation!WaitStates /\ chanGen \in Conversation!Gens
      BY DEF Conversation!Gens
    <3>2. /\ x.pc = "done" /\ wait' = [wait EXCEPT ![w] = asked]
          /\ UNCHANGED <<entering, cancelled, doneGen, chanGen, closed, buf, deliv, sent, outcome>>
      BY <2>3 DEF Conversation!ReadQueue
    <3>3. /\ asked \in Conversation!WaitStates /\ asked.chan = chanGen
          /\ asked.hit = x.hit /\ asked.gen = x.gen /\ asked.req = x.req
      <4> HIDE DEF x, ConvInv, Conversation!TypeOK
      <4> QED BY <3>1 DEF Conversation!WaitStates
    <3>4. wait \in [Waiters -> Conversation!WaitStates]  OBVIOUS
    <3> HIDE DEF asked, ConvInv, Conversation!TypeOK, Conversation!WaitStates
    <3> QED BY <3>2, <3>3, <3>4
  <2> QED BY <2>1, <2>2, <2>3
<1>2. Conversation!TypeOK'
  BY <1>1 DEF ConvInv, Conversation!TypeOK
<1>3. WaitsInSession'
  BY <1>1 DEF ConvInv, WaitsInSession, Channels
<1> QED BY <1>1, <1>2, <1>3, ConvFrame DEF ConvInv

\* A wait that is refused, ends by the done channel or runs out of time.
LEMMA WaitEndsEmpty ==
  ASSUME ConvInv, NEW w \in Waiters,
         Conversation!WaitRefused(w) \/ Conversation!SelectDone(w) \/ Conversation!SelectTimeout(w)
  PROVE  ConvInv'
<1>1. /\ UNCHANGED <<entering, cancelled, doneGen, chanGen, closed, buf, deliv, sent>>
      /\ wait' \in [Waiters -> Conversation!WaitStates] /\ outcome' \in [Waiters -> Conversation!Outcomes]
      /\ \A v \in Waiters \ {w} : wait'[v] = wait[v] /\ outcome'[v] = outcome[v]
      /\ wait'[w].pc = "idle" /\ outcome'[w].kind # "item"
  <2> USE DEF ConvInv, Conversation!TypeOK, Conversation!WaitStates, Conversation!Outcomes
  <2>1. CASE Conversation!WaitRefused(w)
    BY <2>1 DEF Conversation!WaitRefused, Conversation!Waiting
  <2>2. CASE Conversation!SelectDone(w) \/ Conversation!SelectTimeout(w)
    <3>1. \E kind \in {"cancelled", "timeout"} :
            Conversation!Return(w, kind, None) /\ buf' = buf
      BY <2>2 DEF Conversation!SelectDone, Conversation!SelectTimeout
    <3>2. Conversation!NoWait \in Conversation!WaitStates /\ Conversation!NoWait.pc = "idle"
      BY ConversationAssumption DEF Conversation!NoWait, Conversation!ParametersOK, Conversation!Gens
    <3>3. ASSUME NEW kind \in {"cancelled", "timeout"}
          PROVE  Conversation!Ended(kind, None, w) \in Conversation!Outcomes /\ Conversation!Ended(kind, None, w).kind # "item"
      BY DEF Conversation!Ended
    <3> HIDE DEF Conversation!WaitStates, Conversation!Outcomes
    <3> QED BY <3>1, <3>2, <3>3 DEF Conversation!Return
  <2> QED BY <2>1, <2>2
<1>2. Conversation!TypeOK'
  BY <1>1 DEF ConvInv, Conversation!TypeOK
<1>3. WaitsInSession' /\ OutcomesInSession'
  BY <1>1 DEF ConvInv, WaitsInSession, OutcomesInSession, SentIn, Conversation!SentItems
<1> QED BY <1>1, <1>2, <1>3, ConvFrame DEF ConvInv

\* A wait that takes an item: a wait that no Cancel has met takes it out of the
\* queues of its own session.
LEMMA WaitTakes ==
  ASSUME ConvInv, NEW w \in Waiters, Conversation!SelectItem(w)
  PROVE  ConvInv'
<1> DEFINE q == wait[w].req.queue
           g == wait[w].chan
           x == Head(buf[q][g])
<1>1. /\ wait[w].pc = "select" /\ q \in Queues /\ g \in Conversation!Gens
      /\ buf[q][g] \in Seq(Items) /\ buf[q][g] # <<>>
      /\ buf' = [buf EXCEPT ![q][g] = Tail(@)]
      /\ UNCHANGED <<entering, cancelled, doneGen, chanGen, closed, deliv, sent>>
  BY ConversationAssumption
     DEF Conversation!SelectItem, Conversation!Return, Conversation!ParametersOK, ConvInv, WaitsInSession,
         Conversation!TypeOK, Conversation!WaitStates
<1>2. x \in Items /\ SentIn(x, g)
  BY <1>1 DEF ConvInv, BuffersInSession
<1>3. /\ buf' \in [Queues -> [Conversation!Gens -> Seq(Items)]]
      /\ \A p \in Queues, h \in Conversation!Gens : Len(buf'[p][h]) <= Cap
      /\ BuffersInSession'
  <2>1. buf \in [Queues -> [Conversation!Gens -> Seq(Items)]]
    BY DEF ConvInv, Conversation!TypeOK
  <2>2. /\ Tail(buf[q][g]) \in Seq(Items) /\ Len(Tail(buf[q][g])) = Len(buf[q][g]) - 1 /\ Len(buf[q][g]) \in Nat
        /\ \A i \in 1 .. Len(Tail(buf[q][g])) : Tail(buf[q][g])[i] = buf[q][g][i + 1]
    BY <1>1, TailOf
  <2>3. ASSUME NEW p \in Queues, NEW h \in Conversation!Gens
        PROVE  /\ buf'[p][h] \in Seq(Items) /\ Len(buf'[p][h]) <= Cap
               /\ \A i \in 1 .. Len(buf'[p][h]) : \E j \in 1 .. Len(buf[p][h]) : buf'[p][h][i] = buf[p][h][j]
    <3>1. Len(buf[p][h]) <= Cap /\ Cap \in Nat
      BY ConversationAssumption DEF ConvInv, Conversation!TypeOK, Conversation!ParametersOK
    <3>2. CASE p = q /\ h = g
      <4>1. buf'[p][h] = Tail(buf[q][g])
        BY <1>1, <2>1, <3>2
      <4> HIDE DEF q, g
      <4> QED BY <2>2, <3>1, <3>2, <4>1
    <3>3. CASE ~(p = q /\ h = g)
      <4>1. buf'[p][h] = buf[p][h]
        BY <1>1, <2>1, <3>3
      <4> QED BY <2>1, <3>1, <4>1
    <3> QED BY <3>2, <3>3
  <2>4. buf' \in [Queues -> [Conversation!Gens -> Seq(Items)]]
    BY <1>1, <2>1, <2>2
  <2>5. BuffersInSession'
    <3>1. ASSUME NEW p \in Queues, NEW h \in Conversation!Gens, NEW i \in 1 .. Len(buf'[p][h])
          PROVE  SentIn(buf'[p][h][i], h)
      BY <2>3 DEF ConvInv, BuffersInSession
    <3>2. sent' = sent
      BY <1>1
    <3> QED BY <3>1, <3>2 DEF BuffersInSession, SentIn, Conversation!SentItems, Conversation!Gens
  <2> QED BY <2>3, <2>4, <2>5
<1>4. CASE x \in wait[w].req.accepts
  <2>1. wait' = [wait EXCEPT ![w] = Conversation!NoWait] /\ outcome' = [outcome EXCEPT ![w] = Conversation!Ended("item", x, w)]
    BY <1>4 DEF Conversation!SelectItem, Conversation!Return
  <2>2. Conversation!NoWait \in Conversation!WaitStates /\ Conversation!NoWait.pc = "idle"
    BY ConversationAssumption DEF Conversation!NoWait, Conversation!ParametersOK, Conversation!WaitStates, Conversation!Gens
  <2>3. /\ Conversation!Ended("item", x, w) \in Conversation!Outcomes
        /\ Conversation!Ended("item", x, w).item = x
        /\ Conversation!Ended("item", x, w).hit = wait[w].hit
        /\ Conversation!Ended("item", x, w).gen = wait[w].gen
    BY <1>2 DEF Conversation!Ended, Conversation!Outcomes, ConvInv, Conversation!TypeOK, Conversation!WaitStates
  <2>4. ~wait[w].hit => g = wait[w].gen
    BY <1>1 DEF ConvInv, WaitsInSession
  <2> HIDE DEF x, g, q
  <2>5. Conversation!TypeOK'
    BY <1>1, <1>3, <2>1, <2>2, <2>3 DEF ConvInv, Conversation!TypeOK
  <2>6. WaitsInSession'
    BY <1>1, <2>1, <2>2 DEF ConvInv, WaitsInSession, Conversation!TypeOK
  <2>7. OutcomesInSession'
    BY <1>1, <1>2, <2>1, <2>3, <2>4 DEF ConvInv, OutcomesInSession, SentIn, Conversation!SentItems, Conversation!TypeOK
  <2> QED BY <1>1, <1>3, <2>5, <2>6, <2>7, ConvFrame DEF ConvInv
<1>5. CASE x \notin wait[w].req.accepts
  <2>1. wait' = [wait EXCEPT ![w].pc = "loop"] /\ outcome' = outcome
    BY <1>5 DEF Conversation!SelectItem
  <2>2. wait' \in [Waiters -> Conversation!WaitStates]
    BY <2>1 DEF ConvInv, Conversation!TypeOK, Conversation!WaitStates
  <2> HIDE DEF x, g, q
  <2>3. Conversation!TypeOK'
    BY <1>1, <1>3, <2>1, <2>2 DEF ConvInv, Conversation!TypeOK
  <2>4. WaitsInSession'
    BY <1>1, <2>1 DEF ConvInv, WaitsInSession, Conversation!TypeOK, Conversation!WaitStates
  <2> QED BY <1>1, <1>3, <2>1, <2>3, <2>4, ConvFrame DEF ConvInv
<1> QED BY <1>4, <1>5

\* A delivery that begins, or reads the queue it sends to.
LEMMA DeliveryMoves ==
  ASSUME ConvInv, NEW d \in Deliverers,
         \/ \E q \in Queues, x \in Items : Conversation!Deliver(d, q, x)
         \/ Conversation!DeliverReadQueue(d)
  PROVE  ConvInv'
<1>1. CASE \E q \in Queues, x \in Items : Conversation!Deliver(d, q, x)
  <2> PICK q \in Queues, x \in Items : Conversation!Deliver(d, q, x)
    BY <1>1
  <2> DEFINE new == [pc |-> "checked", queue |-> q, item |-> x, chan |-> 1, gen |-> doneGen, crossed |-> FALSE]
  <2>1. /\ ~entering /\ x \notin Conversation!SentItems /\ \A e \in Deliverers : deliv[e].item # x
        /\ deliv' = [deliv EXCEPT ![d] = new]
        /\ UNCHANGED <<entering, cancelled, doneGen, chanGen, closed, buf, wait, sent, outcome>>
    BY DEF Conversation!Deliver
  <2>2. new \in Conversation!DeliveryStates
    BY ConversationAssumption
       DEF ConvInv, Conversation!TypeOK, Conversation!DeliveryStates, Conversation!ParametersOK, Conversation!Gens
  <2>3. new.pc = "checked" /\ new.queue = q /\ new.item = x /\ new.gen = doneGen
    OBVIOUS
  <2> HIDE DEF new
  <2>4. Conversation!TypeOK'
    BY <2>1, <2>2 DEF ConvInv, Conversation!TypeOK
  <2>5. DeliveriesInSession'
    BY <2>1, <2>3 DEF ConvInv, Conversation!TypeOK, DeliveriesInSession, Channels, Conversation!SentItems
  <2> QED BY <2>1, <2>4, <2>5, ConvFrame DEF ConvInv
<1>2. CASE Conversation!DeliverReadQueue(d)
  <2>1. /\ deliv[d].pc # "idle" /\ deliv' = [deliv EXCEPT ![d].pc = "send", ![d].chan = chanGen]
        /\ UNCHANGED <<entering, cancelled, doneGen, chanGen, closed, buf, wait, sent, outcome>>
    BY <1>2 DEF Conversation!DeliverReadQueue
  <2>2. /\ deliv' \in [Deliverers -> Conversation!DeliveryStates]
        /\ deliv'[d].chan = chanGen
        /\ \A e \in Deliverers \ {d} : deliv'[e] = deliv[e]
        /\ \A e \in Deliverers :
             deliv'[e].queue = deliv[e].queue /\ deliv'[e].item = deliv[e].item
             /\ deliv'[e].crossed = deliv[e].crossed /\ deliv'[e].gen = deliv[e].gen
    BY <2>1 DEF ConvInv, Conversation!TypeOK, Conversation!DeliveryStates
  <2>3. Conversation!TypeOK'
    BY <2>1, <2>2 DEF ConvInv, Conversation!TypeOK
  <2>4. DeliveriesInSession'
    BY <2>1, <2>2 DEF ConvInv, DeliveriesInSession, Conversation!SentItems
  <2> QED BY <2>1, <2>3, <2>4, ConvFrame DEF ConvInv
<1> QED BY <1>1, <1>2

\* A delivery that sends: its item is new, so that nothing in a queue and no
\* outcome can be taken for it.
LEMMA DeliverySends ==
  ASSUME ConvInv, NEW d \in Deliverers, Conversation!DeliverSend(d)
  PROVE  ConvInv'
<1> DEFINE q == deliv[d].queue
           g == deliv[d].chan
           x == deliv[d].item
           r == [item |-> x, gen |-> deliv[d].gen, crossed |-> deliv[d].crossed]
           SentNow(y, h) == y \in Conversation!SentItems' /\ \A s \in sent' : s.item = y /\ ~s.crossed => s.gen = h
<1>1. /\ q \in Queues /\ g \in Conversation!Gens /\ x \in Items /\ x \notin Conversation!SentItems
      /\ r \in [item : Items, gen : Conversation!Gens, crossed : BOOLEAN]
      /\ ~deliv[d].crossed => deliv[d].gen = g
  BY DEF Conversation!DeliverSend, ConvInv, DeliveriesInSession, Conversation!TypeOK, Conversation!DeliveryStates
<1>2. /\ buf' = IF Len(buf[q][g]) < Cap THEN [buf EXCEPT ![q][g] = Append(@, x)] ELSE buf
      /\ sent' = sent \cup {r}
      /\ deliv' = [deliv EXCEPT ![d] = Conversation!NoDeliv]
      /\ UNCHANGED <<entering, cancelled, doneGen, chanGen, closed, wait, outcome>>
  BY DEF Conversation!DeliverSend
<1>3. /\ r.item = x /\ r.gen = deliv[d].gen /\ r.crossed = deliv[d].crossed
      /\ Conversation!SentItems' = Conversation!SentItems \cup {x}
  <2> HIDE DEF x
  <2>1. r.item = x /\ r.gen = deliv[d].gen /\ r.crossed = deliv[d].crossed
    OBVIOUS
  <2> HIDE DEF r
  <2> QED BY <1>2, <2>1 DEF Conversation!SentItems
<1> HIDE DEF q, g, x, r
<1>4. \A y, h : SentIn(y, h) => SentNow(y, h)
  BY <1>1, <1>2, <1>3 DEF SentIn
<1>5. SentNow(x, g)
  <2>1. \A s \in sent : s.item # x
    BY <1>1 DEF Conversation!SentItems
  <2> QED BY <1>1, <1>2, <1>3, <2>1
<1>6. /\ buf' \in [Queues -> [Conversation!Gens -> Seq(Items)]]
      /\ \A p \in Queues, h \in Conversation!Gens : Len(buf'[p][h]) <= Cap
      /\ BuffersInSession'
  <2>1. /\ buf \in [Queues -> [Conversation!Gens -> Seq(Items)]] /\ Cap \in Nat
        /\ \A p \in Queues, h \in Conversation!Gens : Len(buf[p][h]) <= Cap
    BY ConversationAssumption DEF ConvInv, Conversation!TypeOK, Conversation!ParametersOK
  <2>2. CASE ~(Len(buf[q][g]) < Cap)
    <3>1. buf' = buf
      BY <1>2, <2>2
    <3>2. \A p \in Queues, h \in Conversation!Gens : \A i \in 1 .. Len(buf[p][h]) : SentNow(buf[p][h][i], h)
      <4> HIDE DEF SentNow
      <4>1. \A p \in Queues, h \in Conversation!Gens : \A i \in 1 .. Len(buf[p][h]) : SentIn(buf[p][h][i], h)
        BY DEF ConvInv, BuffersInSession
      <4> QED BY <1>4, <4>1
    <3> QED BY <2>1, <3>1, <3>2 DEF BuffersInSession, Conversation!Gens, SentIn
  <2>3. CASE Len(buf[q][g]) < Cap
    <3>1. buf' = [buf EXCEPT ![q][g] = Append(buf[q][g], x)]
      BY <1>2, <2>3
    <3>2. /\ Append(buf[q][g], x) \in Seq(Items) /\ Len(Append(buf[q][g], x)) = Len(buf[q][g]) + 1
          /\ \A i \in 1 .. Len(buf[q][g]) : Append(buf[q][g], x)[i] = buf[q][g][i]
          /\ Append(buf[q][g], x)[Len(buf[q][g]) + 1] = x
      BY <1>1, <2>1
    <3>3. ASSUME NEW p \in Queues, NEW h \in Conversation!Gens
          PROVE  /\ Len(buf'[p][h]) <= Cap
                 /\ \A i \in 1 .. Len(buf'[p][h]) : SentNow(buf'[p][h][i], h)
      <4>1. CASE p = q /\ h = g
        <5>1. buf'[p][h] = Append(buf[q][g], x)
          BY <1>1, <2>1, <3>1, <4>1
        <5>2. \A i \in 1 .. Len(buf[q][g]) : SentNow(buf[q][g][i], g)
          <6> HIDE DEF SentNow
          <6>1. \A i \in 1 .. Len(buf[q][g]) : SentIn(buf[q][g][i], g)
            BY <1>1 DEF ConvInv, BuffersInSession
          <6> QED BY <1>4, <6>1
        <5>3. Len(buf[q][g]) \in Nat
          BY <1>1, <2>1
        <5> HIDE DEF SentNow
        <5> QED BY <1>5, <2>1, <2>3, <3>2, <4>1, <5>1, <5>2, <5>3
      <4>2. CASE ~(p = q /\ h = g)
        <5>1. buf'[p][h] = buf[p][h]
          BY <1>1, <2>1, <3>1, <4>2
        <5> HIDE DEF SentNow
        <5>2. \A i \in 1 .. Len(buf[p][h]) : SentIn(buf[p][h][i], h)
          BY DEF ConvInv, BuffersInSession
        <5> QED BY <1>4, <2>1, <5>1, <5>2
      <4> QED BY <4>1, <4>2
    <3>4. buf' \in [Queues -> [Conversation!Gens -> Seq(Items)]]
      BY <1>1, <2>1, <3>1, <3>2
    <3> QED BY <3>3, <3>4 DEF BuffersInSession, Conversation!Gens, SentIn
  <2> QED BY <2>2, <2>3
<1>7. Conversation!NoDeliv \in Conversation!DeliveryStates /\ Conversation!NoDeliv.pc = "idle" /\ Conversation!NoDeliv.item = None
  BY ConversationAssumption
     DEF Conversation!NoDeliv, Conversation!DeliveryStates, Conversation!ParametersOK, Conversation!Gens
<1>8. Conversation!TypeOK'
  BY <1>1, <1>2, <1>6, <1>7 DEF ConvInv, Conversation!TypeOK
<1>9. DeliveriesInSession'
  BY <1>1, <1>2, <1>3, <1>7, ConversationAssumption
     DEF ConvInv, DeliveriesInSession, Conversation!TypeOK, Conversation!ParametersOK, x
<1>10. OutcomesInSession'
  BY <1>1, <1>2, <1>3, <1>4 DEF ConvInv, OutcomesInSession, SentIn
<1> QED BY <1>2, <1>6, <1>8, <1>9, <1>10, ConvFrame DEF ConvInv

\* Every step of the run keeps the invariant: the dispatcher touches none of it.
LEMMA ConvNext == ConvInv /\ [AllNext]_allVars => ConvInv'
<1> SUFFICES ASSUME ConvInv, [AllNext]_allVars PROVE ConvInv'
  OBVIOUS
<1>1. CASE Conversation!Next
  BY <1>1, LifeCycleStep, WaitMoves, WaitEndsEmpty, WaitTakes, DeliveryMoves, DeliverySends
     DEF Conversation!Next, Conversation!WaiterStep, Conversation!DeliverStep
<1>2. CASE UNCHANGED convVars
  <2>1. UNCHANGED <<entering, cancelled, doneGen, chanGen, closed, buf, wait, deliv, sent, outcome>>
    BY <1>2 DEF convVars
  <2> QED BY <2>1, ConvFrame DEF ConvInv, Conversation!TypeOK
<1> QED BY <1>1, <1>2 DEF AllNext, allVars

\* For any number of waiters, deliverers, items and queues of any capacity: the
\* done channel of a session is closed exactly when its flag says so, and no
\* wait returns what another session was sent (conversation.go:62-157, 240-287).
THEOREM SessionsApartHolds == AllSpec => []SessionsApart
<1>1. AllInit => ConvInv
  BY ConvInit DEF AllInit
<1>2. ConvInv => SessionsApart
  <2> SUFFICES ASSUME ConvInv PROVE Conversation!SessionIsolation
    BY DEF ConvInv, SessionsApart
  <2> QED BY DEF ConvInv, OutcomesInSession, SentIn, Conversation!SessionIsolation
<1> QED BY <1>1, ConvNext, <1>2, PTL DEF AllSpec

-----------------------------------------------------------------------------
(* The dispatcher. *)

USE KindAssumption, RecoverAssumption, ListAssumption

Inside(c) == call[c].pc \in {"sub", "build"}
Calls     == Nat \X Nat \X Handlers
CallType  == [pc : {"idle", "update", "sub", "build"}, updates : Seq(Kinds),
              peers : SUBSET Peers, update : Nat, len : Nat, sub : Nat, i : Nat,
              chain : Seq(Middlewares), result : {"none", "ok", "error", "panic"}]

\* A dispatch is at an update of its batch and at a handler of the list it
\* ranges over, which is a prefix of the present one.
Position(c) ==
  /\ call[c].update >= 1
  /\ call[c].pc # "idle" => call[c].result = "none"
  /\ Inside(c) => /\ call[c].update \in 1 .. Len(call[c].updates)
                  /\ call[c].len <= Len(handlers)
                  /\ call[c].sub \in 1 .. call[c].len + 1
  /\ call[c].pc = "build" => call[c].sub <= call[c].len /\ Matches(c)

\* Handler calls that lie behind the position, and those of this update.
Past(c, o) ==
  o[1] < call[c].update \/ (Inside(c) /\ o[1] = call[c].update /\ o[2] < call[c].sub)
Current(c, o) ==
  /\ Inside(c) /\ o[1] = call[c].update
  /\ o[2] \in 1 .. call[c].len /\ o[3] = handlers[o[2]] /\ Kind(c) \in Accepts[o[3]]

\* What is owed belongs to an earlier update or to this one.
OwedKnown(c) ==
  /\ call[c].pc # "idle" => \A o \in owed[c] : o[1] < call[c].update \/ Current(c, o)
  /\ Inside(c) => \A j \in 1 .. call[c].len :
       Kind(c) \in Accepts[handlers[j]] => <<call[c].update, j, handlers[j]>> \in owed[c]

Made(c, o) == \E i \in 1 .. Len(ran[c]) : ran[c][i] = o

\* The calls made are owed, lie behind the position, and are in order; all
\* that is owed behind the position has been made.
RanKnown(c) ==
  /\ \A i \in 1 .. Len(ran[c]) :
       ran[c][i] \in owed[c] /\ (call[c].pc # "idle" => Past(c, ran[c][i]))
  /\ \A i, j \in 1 .. Len(ran[c]) : i < j => Precedes(ran[c][i], ran[c][j])
  /\ call[c].pc # "idle" => \A o \in owed[c] : Past(c, o) => Made(c, o)
  /\ call[c].result = "ok" => \A o \in owed[c] : Made(c, o)

\* The middlewares that a chain is built from are still there.
ChainKnown(c) ==
  (call[c].pc = "build" /\ ~built[c].cut) =>
    /\ call[c].i <= Len(built[c].mws) /\ Len(built[c].mws) <= Len(mws)
    /\ \A j \in 1 .. Len(built[c].mws) : mws[j] = built[c].mws[j]
    /\ call[c].chain = SubSeq(built[c].mws, call[c].i + 1, Len(built[c].mws))

HashKnown(c) == call[c].pc # "idle" => call[c].peers \subseteq peerCache

PerCall(c) == Position(c) /\ OwedKnown(c) /\ RanKnown(c) /\ ChainKnown(c) /\ HashKnown(c)

IInv == TypeOK /\ \A c \in Callers : PerCall(c)

----------------------------------------------------------------------------
\* The types of what a caller keeps.
LEMMA Typed ==
  ASSUME TypeOK, NEW c \in Callers
  PROVE  /\ call[c] \in CallType
         /\ call[c].update \in Nat /\ call[c].sub \in Nat /\ call[c].len \in Nat
         /\ call[c].i \in Nat /\ call[c].chain \in Seq(Middlewares)
         /\ handlers \in Seq(Handlers) /\ Len(handlers) \in Nat
         /\ mws \in Seq(Middlewares) /\ Len(mws) \in Nat
         /\ owed[c] \subseteq Calls /\ ran[c] \in Seq(Calls)
         /\ \A i \in 1 .. Len(ran[c]) : ran[c][i] \in Calls
         /\ built[c] \in [mws : Seq(Middlewares), cut : BOOLEAN]
         /\ built[c].mws \in Seq(Middlewares) /\ Len(built[c].mws) \in Nat
  <1>1. call[c] \in CallType
    BY DEF TypeOK, CallType
  <1>2. ran[c] \in Seq(Calls) /\ owed[c] \subseteq Calls
    BY DEF TypeOK, Calls
  <1>3. \A i \in 1 .. Len(ran[c]) : ran[c][i] \in Calls
    BY <1>2
  <1>4. built[c] \in [mws : Seq(Middlewares), cut : BOOLEAN]
    BY DEF TypeOK
  <1>5. handlers \in Seq(Handlers) /\ mws \in Seq(Middlewares)
    BY DEF TypeOK
  <1> QED
    BY <1>1, <1>2, <1>3, <1>4, <1>5 DEF CallType

\* The position that a step to the next update moves to.
LEMMA NextUpdate ==
  ASSUME NEW k \in CallType, NEW u \in Nat
  PROVE  LET r == [k EXCEPT !.pc = "update", !.update = u]
         IN  /\ r \in CallType /\ r.pc = "update" /\ r.update = u
             /\ r.peers = k.peers /\ r.result = k.result
  BY DEF CallType

\* A step that leaves a caller alone, only appends to the handlers, and
\* appends to the middlewares or cuts them, keeps what is known of it.
LEMMA Frame ==
  ASSUME NEW c \in Callers, TypeOK, PerCall(c),
         call'[c] = call[c], owed'[c] = owed[c], ran'[c] = ran[c],
         Len(handlers) <= Len(handlers'), \A i \in 1 .. Len(handlers) : handlers'[i] = handlers[i],
         peerCache \subseteq peerCache',
         built'[c].mws = built[c].mws,
         built'[c].cut \/ /\ built'[c] = built[c]
                          /\ Len(mws) <= Len(mws')
                          /\ \A i \in 1 .. Len(mws) : mws'[i] = mws[i],
         Len(mws') \in Nat, Len(handlers') \in Nat
  PROVE  PerCall(c)'
  <1>1. /\ call[c] \in CallType /\ Len(handlers) \in Nat /\ Len(mws) \in Nat
        /\ Len(built[c].mws) \in Nat
    BY DEF TypeOK, CallType
  <1>2. \A j \in 1 .. call[c].len : Inside(c) => handlers'[j] = handlers[j]
    BY <1>1 DEF PerCall, Position, CallType
  <1>3. Position(c)'
    <2>1. Position(c) /\ (call[c].pc = "build" => Inside(c))
      BY DEF PerCall, Inside
    <2>2. call[c].pc = "build" => call[c].sub \in 1 .. call[c].len
      BY <1>1, <2>1 DEF Position, CallType
    <2>3. call[c].pc = "build" => Matches(c)'
      BY <1>2, <2>1, <2>2 DEF Position, Matches, Kind
    <2>4. Inside(c) => call[c].len <= Len(handlers')
      BY <1>1, <2>1 DEF Position, CallType
    <2> QED
      BY <2>1, <2>3, <2>4 DEF Position, Inside
  <1>4. \A o \in owed[c] : Current(c, o) => Current(c, o)'
    BY <1>2 DEF Current, Inside, Kind
  <1>5. OwedKnown(c)'
    BY <1>2, <1>4 DEF PerCall, OwedKnown, Inside, Kind
  <1>6. RanKnown(c)'
    <2>1. RanKnown(c)
      BY DEF PerCall
    <2>2. \A o : (Past(c, o)' <=> Past(c, o)) /\ (Made(c, o)' <=> Made(c, o))
      BY DEF Past, Made, Inside
    <2> QED
      BY <2>1, <2>2 DEF RanKnown
  <1>7. ChainKnown(c)'
    BY <1>1 DEF PerCall, ChainKnown
  <1>8. HashKnown(c)'
    BY DEF PerCall, HashKnown
  <1> QED
    BY <1>3, <1>5, <1>6, <1>7, <1>8 DEF PerCall

\* Nothing is known of a call that has not begun.
LEMMA InitIInv == Init => IInv
  <1> SUFFICES ASSUME Init PROVE IInv
    OBVIOUS
  <1>1. Idle \in CallType /\ Idle.pc = "idle" /\ Idle.result = "none" /\ Idle.update = 1
    BY DEF Idle, Begun, CallType
  <1>2. TypeOK
    BY <1>1 DEF Init, TypeOK, CallType
  <1>3. ASSUME NEW c \in Callers PROVE PerCall(c)
    <2>1. call[c] = Idle /\ owed[c] = {} /\ ran[c] = << >>
      BY DEF Init
    <2> QED
      BY <1>1, <2>1 DEF PerCall, Position, OwedKnown, RanKnown, ChainKnown, HashKnown, Inside
  <1> QED
    BY <1>2, <1>3 DEF IInv

----------------------------------------------------------------------------
\* The edits of the lists.
LEMMA EditIInv == ASSUME IInv, Edit PROVE IInv'
  <1>0. TypeOK /\ handlers \in Seq(Handlers) /\ mws \in Seq(Middlewares) /\ clientMws \in Seq(Middlewares)
    BY DEF IInv, TypeOK
  <1>1. ASSUME NEW h \in Handlers, AddEventHandler(h) PROVE IInv'
    <2>1. /\ handlers' \in Seq(Handlers) /\ Len(handlers') = Len(handlers) + 1
          /\ \A i \in 1 .. Len(handlers) : handlers'[i] = handlers[i]
      BY <1>0, <1>1 DEF AddEventHandler
    <2>2. TypeOK'
      BY <1>0, <1>1, <2>1 DEF AddEventHandler, TypeOK
    <2>3. ASSUME NEW c \in Callers PROVE PerCall(c)'
      BY <1>0, <1>1, <2>1, Frame DEF AddEventHandler, IInv
    <2> QED
      BY <2>2, <2>3 DEF IInv
  <1>2. ASSUME NEW m \in Middlewares, AddEventMiddleware(m) PROVE IInv'
    <2>1. /\ mws' \in Seq(Middlewares) /\ Len(mws') = Len(mws) + 1
          /\ \A i \in 1 .. Len(mws) : mws'[i] = mws[i]
          /\ clientMws' \in Seq(Middlewares)
      BY <1>0, <1>2 DEF AddEventMiddleware
    <2>2. TypeOK'
      BY <1>0, <1>2, <2>1 DEF AddEventMiddleware, TypeOK
    <2>3. ASSUME NEW c \in Callers PROVE PerCall(c)'
      BY <1>0, <1>2, <2>1, Frame DEF AddEventMiddleware, IInv
    <2> QED
      BY <2>2, <2>3 DEF IInv
  <1>3. ASSUME RemoveEventMiddleware PROVE IInv'
    <2>1. TypeOK'
      <3>1. built' \in [Callers -> [mws : Seq(Middlewares), cut : BOOLEAN]]
        <4>1. ASSUME NEW c \in Callers
              PROVE  [built[c] EXCEPT !.cut = TRUE] \in [mws : Seq(Middlewares), cut : BOOLEAN]
          BY <1>0 DEF TypeOK
        <4> QED
          BY <4>1, <1>3 DEF RemoveEventMiddleware
      <3>2. mws' \in Seq(Middlewares)
        BY <1>3 DEF RemoveEventMiddleware
      <3> QED
        BY <1>0, <1>3, <3>1, <3>2 DEF RemoveEventMiddleware, TypeOK
    <2>2. ASSUME NEW c \in Callers PROVE PerCall(c)'
      <3>1. built'[c].cut /\ built'[c].mws = built[c].mws /\ mws' = << >>
        BY <1>0, <1>3 DEF RemoveEventMiddleware, TypeOK
      <3>2. Len(mws') \in Nat /\ Len(handlers') = Len(handlers) /\ Len(handlers) \in Nat
        BY <1>0, <1>3, <3>1 DEF RemoveEventMiddleware
      <3> QED
        BY <1>0, <1>3, <3>1, <3>2, Frame DEF RemoveEventMiddleware, IInv
    <2> QED
      BY <2>1, <2>2 DEF IInv
  <1>4. ASSUME NEW index \in 1 .. Len(clientMws), RemoveEventMiddlewareAt(index) PROVE IInv'
    <2>1. clientMws' \in Seq(Middlewares)
      BY <1>0, <1>4 DEF RemoveEventMiddlewareAt
    <2>2. TypeOK'
      BY <1>0, <1>4, <2>1 DEF RemoveEventMiddlewareAt, TypeOK
    <2>3. ASSUME NEW c \in Callers PROVE PerCall(c)'
      BY <1>0, <1>4, Frame DEF RemoveEventMiddlewareAt, IInv
    <2> QED
      BY <2>2, <2>3 DEF IInv
  <1> QED
    BY <1>1, <1>2, <1>3, <1>4 DEF Edit

----------------------------------------------------------------------------
LEMMA ListLengths == ASSUME IInv PROVE Len(mws) \in Nat /\ Len(handlers) \in Nat
  <1>1. mws \in Seq(Middlewares) /\ handlers \in Seq(Handlers)
    BY DEF IInv, TypeOK
  <1> QED
    BY <1>1

\* A step of one caller: the lists stay, and so do the other callers.
LEMMA Others ==
  ASSUME IInv, NEW c \in Callers, NEW r \in CallType, NEW o \in SUBSET Calls,
         NEW s \in Seq(Calls), NEW b \in [mws : Seq(Middlewares), cut : BOOLEAN],
         UNCHANGED lists, peerCache \subseteq peerCache', peerCache' \subseteq Peers,
         call'  = [call  EXCEPT ![c] = r],
         owed'  = [owed  EXCEPT ![c] = o],
         ran'   = [ran   EXCEPT ![c] = s],
         built' = [built EXCEPT ![c] = b],
         PerCall(c)'
  PROVE  IInv'
  <1>1. TypeOK'
    BY DEF IInv, TypeOK, lists, CallType, Calls
  <1>2. ASSUME NEW d \in Callers, d # c PROVE PerCall(d)'
    <2>1. call'[d] = call[d] /\ owed'[d] = owed[d] /\ ran'[d] = ran[d] /\ built'[d] = built[d]
      BY <1>2 DEF IInv, TypeOK
    <2>2. Len(mws) \in Nat /\ Len(handlers) \in Nat
      BY ListLengths
    <2> QED
      BY <2>1, <2>2, Frame DEF IInv, lists
  <1> QED
    BY <1>1, <1>2 DEF IInv

\* The same, for a step that changes only the position.
LEMMA Moves ==
  ASSUME IInv, NEW c \in Callers, NEW r \in CallType,
         call' = [call EXCEPT ![c] = r], UNCHANGED <<lists, peerCache, owed, ran, built>>,
         PerCall(c)'
  PROVE  IInv'
  <1>1. /\ owed[c] \in SUBSET Calls /\ ran[c] \in Seq(Calls)
        /\ built[c] \in [mws : Seq(Middlewares), cut : BOOLEAN]
    BY DEF IInv, TypeOK, Calls
  <1>2. /\ owed' = [owed EXCEPT ![c] = owed[c]] /\ ran' = [ran EXCEPT ![c] = ran[c]]
        /\ built' = [built EXCEPT ![c] = built[c]]
    <2>1. owed' = [owed EXCEPT ![c] = owed[c]]
      BY DEF IInv, TypeOK
    <2>2. ran' = [ran EXCEPT ![c] = ran[c]]
      BY DEF IInv, TypeOK
    <2>3. built' = [built EXCEPT ![c] = built[c]]
      BY DEF IInv, TypeOK
    <2> QED
      BY <2>1, <2>2, <2>3
  <1>3. /\ UNCHANGED lists /\ peerCache \subseteq peerCache' /\ peerCache' \subseteq Peers
    BY DEF IInv, TypeOK
  <1> QED
    BY <1>1, <1>2, <1>3, Others

\* A call that ends keeps what is known of the calls it made.
LEMMA ReturnIInv ==
  ASSUME IInv, NEW c \in Callers, NEW result \in {"ok", "error", "panic"},
         Return(c, result), UNCHANGED <<lists, peerCache, owed, ran, built>>,
         result = "ok" => \A o \in owed[c] : Made(c, o)
  PROVE  IInv'
  <1> DEFINE r == [call[c] EXCEPT !.pc = "idle", !.result = result]
  <1>1. /\ r \in CallType /\ r.pc = "idle" /\ r.result = result
        /\ r.update = call[c].update
    <2>1. call[c] \in CallType
      BY Typed DEF IInv
    <2> QED
      BY <2>1 DEF CallType
  <1>2. call' = [call EXCEPT ![c] = r]
    BY DEF Return
  <1>3. call'[c] = r
    BY <1>2 DEF IInv, TypeOK
  <1> HIDE DEF r
  <1>4. RanKnown(c)'
    BY <1>1, <1>3 DEF IInv, PerCall, RanKnown, Made
  <1>5. PerCall(c)'
    BY <1>1, <1>3, <1>4 DEF IInv, PerCall, Position, OwedKnown, ChainKnown, HashKnown, Inside
  <1> QED
    BY <1>1, <1>2, <1>5, Moves

----------------------------------------------------------------------------
\* HandleUpdates begins a batch with nothing owed and nothing made.
LEMMA HandleUpdatesIInv ==
  ASSUME IInv, NEW c \in Callers, NEW b \in Batches, HandleUpdates(c, b)
  PROVE  IInv'
  <1> DEFINE r == Begun("update", b.updates, b.peers)
  <1>1. /\ r \in CallType /\ r.pc = "update" /\ r.result = "none" /\ r.peers = b.peers
        /\ r.update = 1
    <2>1. b.updates \in Seq(Kinds) /\ b.peers \in SUBSET Peers
      OBVIOUS
    <2> QED
      BY <2>1 DEF Begun, CallType
  <1>2. /\ call' = [call EXCEPT ![c] = r] /\ owed' = [owed EXCEPT ![c] = {}]
        /\ ran' = [ran EXCEPT ![c] = << >>] /\ peerCache' = peerCache \cup b.peers
        /\ UNCHANGED <<lists, built>>
    BY DEF HandleUpdates
  <1>3. call'[c] = r /\ owed'[c] = {} /\ ran'[c] = << >>
    BY <1>2 DEF IInv, TypeOK
  <1> HIDE DEF r
  <1>4. PerCall(c)'
    BY <1>1, <1>2, <1>3 DEF PerCall, Position, OwedKnown, RanKnown, ChainKnown, HashKnown, Inside
  <1>5. /\ {} \in SUBSET Calls /\ << >> \in Seq(Calls)
        /\ built[c] \in [mws : Seq(Middlewares), cut : BOOLEAN]
        /\ built' = [built EXCEPT ![c] = built[c]]
        /\ peerCache' \subseteq Peers
    BY <1>2 DEF IInv, TypeOK
  <1> QED
    BY <1>1, <1>2, <1>4, <1>5, Others

\* The steps from one update or one handler to the next.
LEMMA MovesIInv ==
  ASSUME IInv, NEW c \in Callers, Unrouted(c) \/ Filtered(c) \/ DispatchReturn(c)
  PROVE  IInv'
  <1>1. /\ TypeOK /\ PerCall(c) /\ call[c] \in CallType
        /\ call[c].update \in Nat /\ call[c].sub \in Nat /\ call[c].len \in Nat
        /\ owed[c] \subseteq Calls /\ \A i \in 1 .. Len(ran[c]) : ran[c][i] \in Calls
    BY Typed DEF IInv
  <1>2. ASSUME Unrouted(c) \/ DispatchReturn(c) PROVE IInv'
    <2> DEFINE r == [call[c] EXCEPT !.pc = "update", !.update = call[c].update + 1]
    <2>1. /\ r \in CallType /\ r.pc = "update" /\ r.update = call[c].update + 1
          /\ r.peers = call[c].peers /\ r.result = call[c].result
      <3>1. call[c].update + 1 \in Nat
        BY <1>1
      <3> QED
        BY <1>1, <3>1, NextUpdate
    <2>2. /\ call' = [call EXCEPT ![c] = r] /\ UNCHANGED <<lists, peerCache, owed, ran, built>>
          /\ call[c].pc # "idle" /\ (Inside(c) => call[c].sub > call[c].len)
      <3>1. CASE Unrouted(c)
        <4>1. r = [call[c] EXCEPT !.update = call[c].update + 1]
          BY <1>1, <3>1 DEF Unrouted, CallType
        <4> QED
          BY <4>1, <3>1 DEF Unrouted, Inside
      <3>2. CASE DispatchReturn(c)
        <4>1. call' = [call EXCEPT ![c] = r]
          BY <3>2 DEF DispatchReturn, IInv, TypeOK
        <4>2. call[c].pc = "sub" /\ call[c].sub > call[c].len
          BY <1>1, <3>2 DEF DispatchReturn, More
        <4> QED
          BY <4>1, <4>2, <3>2 DEF DispatchReturn
      <3> QED
        BY <1>2, <3>1, <3>2
    <2>3. call'[c] = r
      BY <2>2 DEF IInv, TypeOK
    <2> HIDE DEF r
    <2>4. \A o \in owed[c] : o[1] <= call[c].update /\ Past(c, o)
      BY <1>1, <2>2 DEF PerCall, OwedKnown, Current, Past, Calls
    <2>5. OwedKnown(c)'
      BY <1>1, <2>1, <2>2, <2>3, <2>4 DEF OwedKnown, Inside, Calls
    <2>6. RanKnown(c)'
      <3>1. \A o \in owed[c] : Made(c, o)
        BY <2>2, <2>4 DEF PerCall, RanKnown, IInv
      <3>2. \A o \in owed[c] : Past(c, o)'
        BY <1>1, <2>1, <2>3, <2>4 DEF Past, Calls
      <3> QED
        BY <1>1, <2>2, <3>1, <3>2 DEF PerCall, RanKnown, Made
    <2>7. PerCall(c)'
      BY <1>1, <2>1, <2>2, <2>3, <2>5, <2>6 DEF PerCall, Position, ChainKnown, HashKnown, Inside
    <2> QED
      BY <2>1, <2>2, <2>7, Moves
  <1>3. ASSUME Filtered(c) PROVE IInv'
    <2> DEFINE r == [call[c] EXCEPT !.pc = "sub", !.len = call[c].len, !.sub = call[c].sub + 1,
                                    !.chain = call[c].chain]
    <2>1. /\ r \in CallType /\ r.pc = "sub" /\ r.update = call[c].update /\ r.len = call[c].len
          /\ r.sub = call[c].sub + 1 /\ r.updates = call[c].updates
          /\ r.peers = call[c].peers /\ r.result = call[c].result
      <3>1. call[c].sub + 1 \in Nat /\ call[c].chain \in Seq(Middlewares)
        BY <1>1, Typed
      <3> QED
        BY <1>1, <3>1 DEF CallType
    <2>2. /\ call' = [call EXCEPT ![c] = r] /\ UNCHANGED <<lists, peerCache, owed, ran, built>>
          /\ call[c].pc = "sub" /\ call[c].sub <= call[c].len /\ ~Matches(c)
      <3>1. call[c].pc = "sub"
        BY <1>3 DEF Filtered
      <3>2. r = [call[c] EXCEPT !.sub = call[c].sub + 1]
        BY <1>1, <3>1 DEF CallType
      <3> QED
        BY <1>3, <3>2 DEF Filtered, More
    <2>3. call'[c] = r
      BY <2>2 DEF IInv, TypeOK
    <2> HIDE DEF r
    <2>4. Position(c)'
      BY <1>1, <2>1, <2>2, <2>3 DEF PerCall, Position, Inside, lists
    <2>5. \A o \in owed[c] : Past(c, o)' <=> Past(c, o)
      <3> SUFFICES ASSUME NEW o \in owed[c] PROVE Past(c, o)' <=> Past(c, o)
        OBVIOUS
      <3>1. o[1] < call[c].update \/ Current(c, o)
        BY <1>1, <2>2 DEF PerCall, OwedKnown
      <3>2. o[2] # call[c].sub \/ o[1] < call[c].update
        BY <2>2, <3>1 DEF Current, Matches, Kind
      <3>3. o[1] \in Nat /\ o[2] \in Nat
        BY <1>1 DEF Calls
      <3> QED
        BY <1>1, <2>1, <2>2, <2>3, <3>1, <3>2, <3>3 DEF Past, Inside, Current
    <2>6. OwedKnown(c)'
      BY <1>1, <2>1, <2>2, <2>3 DEF PerCall, OwedKnown, Current, Inside, Kind, lists
    <2>7. RanKnown(c)'
      BY <1>1, <2>1, <2>2, <2>3, <2>5 DEF PerCall, RanKnown, Made
    <2>8. PerCall(c)'
      BY <1>1, <2>1, <2>2, <2>3, <2>4, <2>6, <2>7 DEF PerCall, ChainKnown, HashKnown
    <2> QED
      BY <2>1, <2>2, <2>8, Moves
  <1> QED
    BY <1>2, <1>3

\* Dispatch owes the update to the handlers that there are.
LEMMA DispatchIInv ==
  ASSUME IInv, NEW c \in Callers, Dispatch(c)
  PROVE  IInv'
  <1> DEFINE r == [call[c] EXCEPT !.pc = "sub", !.len = Len(handlers), !.sub = 1,
                                  !.chain = call[c].chain]
             new == {<<call[c].update, j, handlers[j]>> :
                       j \in {k \in 1 .. Len(handlers) : Kind(c) \in Accepts[handlers[k]]}}
             o2 == owed[c] \cup new
  <1>1. /\ TypeOK /\ PerCall(c) /\ call[c] \in CallType /\ Len(handlers) \in Nat
        /\ call[c].update \in Nat /\ call[c].update <= Len(call[c].updates)
        /\ owed[c] \subseteq Calls /\ \A i \in 1 .. Len(ran[c]) : ran[c][i] \in Calls
        /\ call[c].pc = "update" /\ handlers \in Seq(Handlers)
    BY Typed DEF IInv, Dispatch
  <1>2. /\ r \in CallType /\ r.pc = "sub" /\ r.update = call[c].update /\ r.len = Len(handlers)
        /\ r.sub = 1 /\ r.updates = call[c].updates /\ r.peers = call[c].peers
        /\ r.result = call[c].result
    <2>1. call[c].chain \in Seq(Middlewares)
      BY <1>1, Typed
    <2> QED
      BY <1>1, <2>1 DEF CallType
  <1>3. /\ call' = [call EXCEPT ![c] = r] /\ owed' = [owed EXCEPT ![c] = o2]
        /\ UNCHANGED <<lists, peerCache, ran, built>>
    <2>1. r = [call[c] EXCEPT !.pc = "sub", !.len = Len(handlers), !.sub = 1]
      BY <1>1 DEF CallType
    <2>2. call' = [call EXCEPT ![c] = [call[c] EXCEPT !.pc = "sub", !.len = Len(handlers), !.sub = 1]]
      BY DEF Dispatch
    <2>3. call' = [call EXCEPT ![c] = r]
      BY <2>1, <2>2
    <2> QED
      BY <2>3 DEF Dispatch
  <1>4. call'[c] = r /\ owed'[c] = o2 /\ handlers' = handlers /\ ran' = ran
    BY <1>1, <1>3 DEF TypeOK, lists
  <1>5. /\ \A o \in new : o[1] = call[c].update /\ o[2] \in 1 .. Len(handlers)
                          /\ o[3] = handlers[o[2]] /\ Kind(c) \in Accepts[o[3]]
        /\ new \subseteq Calls
    BY <1>1 DEF Calls
  <1>6. \A j \in 1 .. Len(handlers) :
           Kind(c) \in Accepts[handlers[j]] => <<call[c].update, j, handlers[j]>> \in new
    OBVIOUS
  <1>7. call[c].update >= 1
    BY <1>1 DEF PerCall, Position
  <1> HIDE DEF r, new
  <1>8. Position(c)'
    BY <1>1, <1>2, <1>4, <1>7 DEF PerCall, Position, Inside
  <1>9. \A o \in owed[c] : o[1] < call[c].update
    BY <1>1 DEF PerCall, OwedKnown, Current, Inside
  <1>10. OwedKnown(c)'
    BY <1>1, <1>2, <1>4, <1>5, <1>6, <1>9 DEF OwedKnown, Current, Inside, Kind
  <1>11. /\ \A o \in owed[c] : Past(c, o) /\ Past(c, o)'
         /\ \A o \in new : ~Past(c, o)'
    BY <1>1, <1>2, <1>4, <1>5, <1>9 DEF Past, Inside, Calls
  <1>12. RanKnown(c)'
    BY <1>1, <1>2, <1>4, <1>11 DEF PerCall, Position, RanKnown, Made
  <1>13. PerCall(c)'
    BY <1>1, <1>2, <1>3, <1>4, <1>8, <1>10, <1>12 DEF PerCall, ChainKnown, HashKnown
  <1>14. /\ o2 \in SUBSET Calls /\ ran[c] \in Seq(Calls)
         /\ built[c] \in [mws : Seq(Middlewares), cut : BOOLEAN]
         /\ ran' = [ran EXCEPT ![c] = ran[c]] /\ built' = [built EXCEPT ![c] = built[c]]
         /\ peerCache' \subseteq Peers
    BY <1>1, <1>3, <1>5, Typed DEF TypeOK
  <1> QED
    BY <1>2, <1>3, <1>13, <1>14, Others

----------------------------------------------------------------------------
\* A step of buildChain: what it has read is the end of the list it began with.
LEMMA BuildingIInv ==
  ASSUME IInv, NEW c \in Callers, NEW r \in CallType,
         NEW b \in [mws : Seq(Middlewares), cut : BOOLEAN],
         Inside(c), call[c].sub <= call[c].len, Matches(c),
         call' = [call EXCEPT ![c] = r], built' = [built EXCEPT ![c] = b],
         UNCHANGED <<lists, peerCache, owed, ran>>,
         r.pc = "build", r.update = call[c].update, r.len = call[c].len, r.sub = call[c].sub,
         r.updates = call[c].updates, r.peers = call[c].peers, r.result = call[c].result,
         ~b.cut => /\ r.i <= Len(b.mws) /\ Len(b.mws) <= Len(mws)
                   /\ \A j \in 1 .. Len(b.mws) : mws[j] = b.mws[j]
                   /\ r.chain = SubSeq(b.mws, r.i + 1, Len(b.mws))
  PROVE  IInv'
  <1>1. /\ TypeOK /\ PerCall(c) /\ call[c] \in CallType
        /\ owed[c] \subseteq Calls /\ ran[c] \in Seq(Calls)
    BY Typed DEF IInv
  <1>2. UNCHANGED lists /\ peerCache' = peerCache /\ owed' = owed /\ ran' = ran
    OBVIOUS
  <1>3. call'[c] = r /\ built'[c] = b /\ handlers' = handlers /\ mws' = mws
    BY <1>1, <1>2 DEF TypeOK, lists
  <1>4. Position(c)'
    BY <1>1, <1>2, <1>3 DEF PerCall, Position, Inside, Matches, Kind
  <1>5. OwedKnown(c)'
    BY <1>1, <1>2, <1>3 DEF PerCall, OwedKnown, Current, Inside, Kind
  <1>6. RanKnown(c)'
    BY <1>1, <1>2, <1>3 DEF PerCall, RanKnown, Made, Past, Inside
  <1>7. ChainKnown(c)'
    BY <1>2, <1>3 DEF ChainKnown
  <1>8. PerCall(c)'
    BY <1>1, <1>2, <1>3, <1>4, <1>5, <1>6, <1>7 DEF PerCall, HashKnown, Inside
  <1>9. /\ owed' = [owed EXCEPT ![c] = owed[c]] /\ ran' = [ran EXCEPT ![c] = ran[c]]
        /\ peerCache \subseteq peerCache' /\ peerCache' \subseteq Peers
    BY <1>1, <1>2 DEF TypeOK
  <1> QED
    BY <1>1, <1>2, <1>8, <1>9, Others

LEMMA BuildChainIInv == ASSUME IInv, NEW c \in Callers, BuildChain(c) PROVE IInv'
  <1> DEFINE b == [mws |-> mws, cut |-> FALSE]
             r == [call[c] EXCEPT !.pc = "build", !.i = Len(mws), !.chain = << >>]
  <1>1. /\ call[c] \in CallType /\ mws \in Seq(Middlewares) /\ Len(mws) \in Nat /\ << >> \in Seq(Middlewares)
        /\ call[c].sub \in Nat /\ call[c].len \in Nat
    BY Typed DEF IInv
  <1>2. b \in [mws : Seq(Middlewares), cut : BOOLEAN] /\ ~b.cut /\ b.mws = mws
    BY <1>1
  <1>3. SubSeq(mws, Len(mws) + 1, Len(mws)) = << >>
    BY <1>1
  <1>4. /\ Inside(c) /\ call[c].sub <= call[c].len /\ Matches(c)
        /\ UNCHANGED <<lists, peerCache, owed, ran>>
    BY DEF BuildChain, Inside, More
  <1>5. call' = [call EXCEPT ![c] = r] /\ built' = [built EXCEPT ![c] = b]
    BY DEF BuildChain
  <1>6. /\ r \in CallType /\ r.pc = "build" /\ r.update = call[c].update /\ r.len = call[c].len
        /\ r.sub = call[c].sub /\ r.updates = call[c].updates /\ r.peers = call[c].peers
        /\ r.result = call[c].result /\ r.i = Len(mws) /\ r.chain = << >>
    BY <1>1 DEF CallType
  <1> HIDE DEF b, r
  <1>7. ~b.cut => /\ r.i <= Len(b.mws) /\ Len(b.mws) <= Len(mws)
                  /\ \A j \in 1 .. Len(b.mws) : mws[j] = b.mws[j]
                  /\ r.chain = SubSeq(b.mws, r.i + 1, Len(b.mws))
    BY <1>1, <1>2, <1>3, <1>6
  <1> QED
    BY <1>2, <1>4, <1>5, <1>6, <1>7, BuildingIInv

LEMMA SameSequence ==
  ASSUME NEW S, NEW s \in Seq(S), NEW t \in Seq(S), Len(s) = Len(t),
         \A i \in 1 .. Len(s) : s[i] = t[i]
  PROVE  s = t
  OBVIOUS

\* One more element in front of the end of a list.
LEMMA LongerEnd ==
  ASSUME NEW S, NEW m \in Seq(S), NEW i \in 1 .. Len(m)
  PROVE  <<m[i]>> \o SubSeq(m, i + 1, Len(m)) = SubSeq(m, (i - 1) + 1, Len(m))
  <1>1. (i - 1) + 1 = i /\ Len(m) \in Nat /\ i \in Nat
    OBVIOUS
  <1> DEFINE s == <<m[i]>> \o SubSeq(m, i + 1, Len(m))
             t == SubSeq(m, i, Len(m))
  <1>2. t \in Seq(S) /\ Len(t) = Len(m) - i + 1
    BY <1>1
  <1>3. \A j \in 1 .. Len(m) - i + 1 : t[j] = m[i + j - 1]
    BY <1>1
  <1>4. SubSeq(m, i + 1, Len(m)) \in Seq(S) /\ Len(SubSeq(m, i + 1, Len(m))) = Len(m) - i
    BY <1>1
  <1>5. \A j \in 1 .. Len(m) - i : SubSeq(m, i + 1, Len(m))[j] = m[i + j]
    BY <1>1
  <1>6. <<m[i]>> \in Seq(S) /\ Len(<<m[i]>>) = 1 /\ <<m[i]>>[1] = m[i]
    BY <1>1
  <1>7. s \in Seq(S) /\ Len(s) = Len(m) - i + 1
    BY <1>1, <1>4, <1>6
  <1>8. ASSUME NEW j \in 1 .. Len(m) - i + 1 PROVE s[j] = t[j]
    <2>1. CASE j = 1
      BY <1>1, <1>3, <1>4, <1>6, <2>1
    <2>2. CASE j # 1
      <3>1. j - 1 \in 1 .. Len(m) - i
        BY <1>1, <2>2
      <3>2. s[j] = SubSeq(m, i + 1, Len(m))[j - 1]
        BY <1>1, <1>4, <1>6, <3>1
      <3> QED
        BY <1>1, <1>3, <1>5, <3>1, <3>2
    <2> QED
      BY <2>1, <2>2
  <1> HIDE DEF s, t
  <1>9. s = t
    BY <1>2, <1>7, <1>8, SameSequence
  <1> QED
    BY <1>1, <1>9 DEF s, t

LEMMA ReadMiddlewareIInv == ASSUME IInv, NEW c \in Callers, ReadMiddleware(c) PROVE IInv'
  <1> DEFINE k == call[c].i
             chain == <<mws[k]>> \o call[c].chain
             r == [call[c] EXCEPT !.i = k - 1, !.chain = chain]
  <1>1. /\ TypeOK /\ PerCall(c) /\ mws \in Seq(Middlewares) /\ Len(mws) \in Nat
        /\ call[c] \in CallType /\ k \in Nat /\ call[c].chain \in Seq(Middlewares)
        /\ built[c] \in [mws : Seq(Middlewares), cut : BOOLEAN]
        /\ built[c].mws \in Seq(Middlewares) /\ Len(built[c].mws) \in Nat
    BY Typed DEF IInv
  <1>2. call[c].pc = "build" /\ k \in 1 .. Len(mws) /\ UNCHANGED <<lists, peerCache, owed, ran, built>>
    BY DEF ReadMiddleware
  <1>3. k - 1 \in Nat /\ mws[k] \in Middlewares
    BY <1>1, <1>2
  <1>4. <<mws[k]>> \in Seq(Middlewares)
    BY <1>3
  <1>5. chain \in Seq(Middlewares)
    BY <1>1, <1>4
  <1>6. Inside(c) /\ call[c].sub <= call[c].len /\ Matches(c)
    BY <1>1, <1>2 DEF PerCall, Position, Inside
  <1>7. ~built[c].cut =>
          /\ k - 1 <= Len(built[c].mws) /\ Len(built[c].mws) <= Len(mws)
          /\ \A j \in 1 .. Len(built[c].mws) : mws[j] = built[c].mws[j]
          /\ chain = SubSeq(built[c].mws, (k - 1) + 1, Len(built[c].mws))
    <2> SUFFICES ASSUME ~built[c].cut
                 PROVE  /\ k - 1 <= Len(built[c].mws) /\ Len(built[c].mws) <= Len(mws)
                        /\ \A j \in 1 .. Len(built[c].mws) : mws[j] = built[c].mws[j]
                        /\ chain = SubSeq(built[c].mws, (k - 1) + 1, Len(built[c].mws))
      OBVIOUS
    <2>1. /\ k <= Len(built[c].mws) /\ Len(built[c].mws) <= Len(mws)
          /\ \A j \in 1 .. Len(built[c].mws) : mws[j] = built[c].mws[j]
          /\ call[c].chain = SubSeq(built[c].mws, k + 1, Len(built[c].mws))
      BY <1>1, <1>2 DEF PerCall, ChainKnown
    <2>2. k \in 1 .. Len(built[c].mws) /\ mws[k] = built[c].mws[k]
      BY <1>1, <1>2, <2>1
    <2>3. <<built[c].mws[k]>> \o SubSeq(built[c].mws, k + 1, Len(built[c].mws))
            = SubSeq(built[c].mws, (k - 1) + 1, Len(built[c].mws))
      BY <1>1, <2>2, LongerEnd
    <2>4. chain = SubSeq(built[c].mws, (k - 1) + 1, Len(built[c].mws))
      BY <2>1, <2>2, <2>3
    <2>5. k - 1 <= Len(built[c].mws)
      BY <1>1, <2>1
    <2> QED
      BY <2>1, <2>4, <2>5
  <1>8. call' = [call EXCEPT ![c] = r] /\ built' = [built EXCEPT ![c] = built[c]]
    BY <1>1, <1>2 DEF ReadMiddleware, TypeOK
  <1>9. /\ r \in CallType /\ r.pc = "build" /\ r.update = call[c].update /\ r.len = call[c].len
        /\ r.sub = call[c].sub /\ r.updates = call[c].updates /\ r.peers = call[c].peers
        /\ r.result = call[c].result /\ r.i = k - 1 /\ r.chain = chain
    <2> HIDE DEF k, chain
    <2> QED
      BY <1>1, <1>2, <1>3, <1>5 DEF CallType
  <1> HIDE DEF k, chain, r
  <1> QED
    BY <1>1, <1>2, <1>6, <1>7, <1>8, <1>9, BuildingIInv

----------------------------------------------------------------------------
LEMMA AppendLast ==
  ASSUME NEW S, NEW s \in Seq(S), NEW e \in S
  PROVE  /\ Append(s, e) \in Seq(S) /\ Len(Append(s, e)) = Len(s) + 1 /\ Len(s) \in Nat
         /\ \A i \in 1 .. Len(s) : Append(s, e)[i] = s[i]
         /\ Append(s, e)[Len(s) + 1] = e
  OBVIOUS

\* The handler call that a chain makes is owed, and comes after all others.
LEMMA RunAppends ==
  ASSUME IInv, NEW c \in Callers, NEW how, RunChain(c, how)
  PROVE  /\ This(c) \in Calls /\ This(c) \in owed[c] /\ Current(c, This(c))
         /\ ran'[c] = Append(ran[c], This(c)) /\ ran'[c] \in Seq(Calls)
         /\ \A i \in 1 .. Len(ran'[c]) :
              ran'[c][i] = This(c) \/ \E j \in 1 .. Len(ran[c]) : ran'[c][i] = ran[c][j]
         /\ \A o : Made(c, o) \/ o = This(c) => Made(c, o)'
         /\ \A i, j \in 1 .. Len(ran'[c]) : i < j => Precedes(ran'[c][i], ran'[c][j])
  <1> DEFINE o == This(c)
  <1>1. /\ TypeOK /\ PerCall(c) /\ ran[c] \in Seq(Calls) /\ owed[c] \subseteq Calls
        /\ call[c].update \in Nat /\ call[c].sub \in Nat /\ call[c].len \in Nat
        /\ \A i \in 1 .. Len(ran[c]) : ran[c][i] \in Calls
    BY Typed DEF IInv
  <1>2. call[c].pc = "build" /\ ran' = [ran EXCEPT ![c] = Append(ran[c], o)]
    BY DEF RunChain
  <1>3. Inside(c) /\ call[c].sub \in 1 .. call[c].len /\ Matches(c)
    BY <1>1, <1>2 DEF PerCall, Position, Inside
  <1>4. o \in owed[c]
    BY <1>1, <1>3 DEF PerCall, OwedKnown, Matches, This
  <1>5. o[1] = call[c].update /\ o[2] = call[c].sub /\ o[3] = handlers[call[c].sub]
    BY DEF This
  <1>6. Current(c, o)
    BY <1>3, <1>5 DEF Current, Matches
  <1>7. \A i \in 1 .. Len(ran[c]) : Precedes(ran[c][i], o)
    BY <1>1, <1>2, <1>5 DEF PerCall, RanKnown, Past, Precedes, Calls
  <1> HIDE DEF o
  <1>8. ran'[c] = Append(ran[c], o)
    BY <1>1, <1>2 DEF TypeOK
  <1>9. o \in Calls
    BY <1>1, <1>4
  <1>10. /\ ran'[c] \in Seq(Calls) /\ Len(ran'[c]) = Len(ran[c]) + 1 /\ Len(ran[c]) \in Nat
         /\ \A i \in 1 .. Len(ran[c]) : ran'[c][i] = ran[c][i]
         /\ ran'[c][Len(ran[c]) + 1] = o
    BY <1>1, <1>8, <1>9, AppendLast
  <1>11. \A i \in 1 .. Len(ran'[c]) : i \in 1 .. Len(ran[c]) \/ i = Len(ran[c]) + 1
    BY <1>10
  <1>12. \A i \in 1 .. Len(ran'[c]) : ran'[c][i] = o \/ \E j \in 1 .. Len(ran[c]) : ran'[c][i] = ran[c][j]
    BY <1>10, <1>11
  <1>13. \A x : Made(c, x) \/ x = o => Made(c, x)'
    <2>1. \A i \in 1 .. Len(ran[c]) : i \in 1 .. Len(ran'[c])
      BY <1>10
    <2>2. Len(ran[c]) + 1 \in 1 .. Len(ran'[c])
      BY <1>10
    <2> QED
      BY <1>10, <2>1, <2>2 DEF Made
  <1>14. ASSUME NEW i \in 1 .. Len(ran'[c]), NEW j \in 1 .. Len(ran'[c]), i < j
         PROVE  Precedes(ran'[c][i], ran'[c][j])
    <2>1. i \in 1 .. Len(ran[c])
      BY <1>10, <1>14
    <2>2. CASE j \in 1 .. Len(ran[c])
      BY <1>1, <1>10, <1>14, <2>1, <2>2 DEF PerCall, RanKnown
    <2>3. CASE j = Len(ran[c]) + 1
      BY <1>7, <1>10, <2>1, <2>3
    <2> QED
      BY <1>11, <2>2, <2>3
  <1> QED
    BY <1>4, <1>6, <1>8, <1>9, <1>10, <1>12, <1>13, <1>14 DEF o

LEMMA RunChainIInv ==
  ASSUME IInv, NEW c \in Callers, NEW how \in {"ok", "error", "panic"}, RunChain(c, how)
  PROVE  IInv'
  <1> DEFINE next == [call[c] EXCEPT !.pc = "sub", !.sub = call[c].sub + 1, !.chain = << >>]
             over == [call[c] EXCEPT !.pc = "idle", !.result = how]
             o    == This(c)
  <1>1. /\ TypeOK /\ PerCall(c) /\ call[c] \in CallType /\ owed[c] \subseteq Calls
        /\ call[c].update \in Nat /\ call[c].sub \in Nat /\ call[c].len \in Nat
        /\ \A i \in 1 .. Len(ran[c]) : ran[c][i] \in Calls
    BY Typed DEF IInv
  <1>2. /\ call[c].pc = "build" /\ UNCHANGED <<lists, peerCache, owed, built>>
        /\ ran' = [ran EXCEPT ![c] = Append(ran[c], o)]
        /\ how # "ok" \/ call' = [call EXCEPT ![c] = next]
        /\ call' = [call EXCEPT ![c] = next] \/ call' = [call EXCEPT ![c] = over]
    BY DEF RunChain, Return
  <1>3. /\ o \in Calls /\ o \in owed[c] /\ Current(c, o)
        /\ ran'[c] = Append(ran[c], o) /\ ran'[c] \in Seq(Calls)
        /\ \A i \in 1 .. Len(ran'[c]) :
             ran'[c][i] = o \/ \E j \in 1 .. Len(ran[c]) : ran'[c][i] = ran[c][j]
        /\ \A x : Made(c, x) \/ x = o => Made(c, x)'
        /\ \A i, j \in 1 .. Len(ran'[c]) : i < j => Precedes(ran'[c][i], ran'[c][j])
    BY RunAppends
  <1>4. o[1] = call[c].update /\ o[2] = call[c].sub /\ o[3] = handlers[call[c].sub]
    BY DEF This
  <1>5. \A i \in 1 .. Len(ran'[c]) : ran'[c][i] \in owed[c]
    BY <1>1, <1>3 DEF PerCall, RanKnown
  <1>6. Inside(c) /\ call[c].sub <= call[c].len /\ call[c].result = "none"
    BY <1>1, <1>2 DEF PerCall, Position, Inside
  <1>7. /\ ran' = [ran EXCEPT ![c] = ran'[c]] /\ owed' = [owed EXCEPT ![c] = owed[c]]
        /\ built' = [built EXCEPT ![c] = built[c]] /\ built[c] \in [mws : Seq(Middlewares), cut : BOOLEAN]
        /\ peerCache' = peerCache /\ handlers' = handlers /\ mws' = mws
        /\ UNCHANGED lists /\ owed'[c] = owed[c] /\ built'[c] = built[c]
        /\ peerCache' \subseteq Peers
    BY <1>1, <1>2, <1>3 DEF TypeOK, lists
  <1>8. /\ \A j \in 1 .. Len(ran[c]) : Past(c, ran[c][j])
        /\ \A x \in owed[c] : Past(c, x) => Made(c, x)
    BY <1>1, <1>2 DEF PerCall, RanKnown
  <1>9. ASSUME call' = [call EXCEPT ![c] = over], how # "ok" PROVE IInv'
    <2>1. over \in CallType /\ over.pc = "idle" /\ over.result = how /\ over.update = call[c].update
      BY <1>1 DEF CallType
    <2>2. call'[c] = over
      BY <1>1, <1>9 DEF TypeOK
    <2> HIDE DEF over, o
    <2>3. RanKnown(c)'
      BY <1>3, <1>5, <1>7, <1>9, <2>1, <2>2 DEF RanKnown
    <2>4. PerCall(c)'
      BY <1>1, <2>1, <2>2, <2>3 DEF PerCall, Position, OwedKnown, ChainKnown, HashKnown, Inside
    <2> QED
      BY <1>1, <1>3, <1>7, <1>9, <2>1, <2>4, Others
  <1>10. ASSUME call' = [call EXCEPT ![c] = next] PROVE IInv'
    <2>1. /\ next \in CallType /\ next.pc = "sub" /\ next.sub = call[c].sub + 1
          /\ next.update = call[c].update /\ next.len = call[c].len /\ next.updates = call[c].updates
          /\ next.peers = call[c].peers /\ next.result = call[c].result
      <3>1. call[c].sub + 1 \in Nat /\ << >> \in Seq(Middlewares)
        BY <1>1
      <3> QED
        BY <1>1, <3>1 DEF CallType
    <2>2. call'[c] = next
      BY <1>1, <1>10 DEF TypeOK
    <2> HIDE DEF next, o
    <2>3. Position(c)'
      <3>1. /\ Inside(c)' /\ call[c].update >= 1 /\ call[c].update \in 1 .. Len(call[c].updates)
            /\ call[c].len <= Len(handlers) /\ call[c].sub \in 1 .. call[c].len
        BY <1>1, <1>6, <2>1, <2>2 DEF PerCall, Position, Inside
      <3>2. call[c].sub + 1 \in 1 .. call[c].len + 1
        BY <1>1, <3>1
      <3> QED
        BY <1>6, <1>7, <2>1, <2>2, <3>1, <3>2 DEF Position
    <2>4. OwedKnown(c)'
      BY <1>1, <1>2, <1>6, <1>7, <2>1, <2>2 DEF PerCall, OwedKnown, Current, Inside, Kind
    <2>5. \A x \in owed[c] : Past(c, x) \/ x = o => Past(c, x)'
      BY <1>1, <1>4, <1>6, <2>1, <2>2 DEF Past, Inside, Calls
    <2>6. \A x \in owed[c] : Past(c, x)' => Past(c, x) \/ x = o
      <3> SUFFICES ASSUME NEW x \in owed[c], Past(c, x)', ~Past(c, x) PROVE x = o
        OBVIOUS
      <3>1. x \in Calls /\ x[1] \in Nat /\ x[2] \in Nat
        BY <1>1 DEF Calls
      <3>2. x[1] = call[c].update /\ x[2] = call[c].sub
        BY <1>1, <1>6, <2>1, <2>2, <3>1 DEF Past, Inside
      <3>3. Current(c, x)
        BY <1>1, <1>2, <3>2 DEF PerCall, OwedKnown
      <3>4. x[3] = handlers[x[2]] /\ o \in Calls
        BY <1>3, <3>3 DEF Current
      <3>5. x[1] = o[1] /\ x[2] = o[2] /\ x[3] = o[3]
        BY <1>4, <3>2, <3>4
      <3>6. x = <<x[1], x[2], x[3]>> /\ o = <<o[1], o[2], o[3]>>
        BY <3>1, <3>4 DEF Calls
      <3> QED
        BY <3>5, <3>6
    <2>7. RanKnown(c)'
      <3>1. \A i \in 1 .. Len(ran[c])' : Past(c, ran[c][i])'
        <4> SUFFICES ASSUME NEW i \in 1 .. Len(ran'[c]) PROVE Past(c, ran[c][i])'
          OBVIOUS
        <4>1. PICK x \in owed[c] : x = ran'[c][i]
          BY <1>5
        <4>2. Past(c, x) \/ x = o
          BY <1>3, <1>8, <4>1
        <4>3. Past(c, x)'
          BY <2>5, <4>2
        <4> QED
          BY <4>1, <4>3 DEF Past
      <3>2. ASSUME NEW x \in owed[c], Past(c, x)' PROVE Made(c, x)'
        <4>1. Past(c, x) \/ x = o
          BY <2>6, <3>2
        <4>2. Made(c, x) \/ x = o
          BY <1>8, <3>2, <4>1
        <4> QED
          BY <1>3, <4>2
      <3> QED
        BY <1>3, <1>5, <1>6, <1>7, <2>1, <2>2, <3>1, <3>2 DEF RanKnown
    <2>8. PerCall(c)'
      BY <1>1, <1>2, <1>7, <2>1, <2>2, <2>3, <2>4, <2>7 DEF PerCall, ChainKnown, HashKnown
    <2> QED
      BY <1>1, <1>3, <1>7, <1>10, <2>1, <2>8, Others
  <1> QED
    BY <1>2, <1>9, <1>10

----------------------------------------------------------------------------
LEMMA ReturnsIInv ==
  ASSUME IInv, NEW c \in Callers, HandleUpdatesReturn(c) \/ ReadPanics(c)
  PROVE  IInv'
  <1>1. CASE ReadPanics(c)
    BY <1>1, ReturnIInv DEF ReadPanics
  <1>2. CASE HandleUpdatesReturn(c)
    <2>1. /\ PerCall(c) /\ call[c].pc = "update" /\ ~Inside(c)
      BY <1>2 DEF IInv, HandleUpdatesReturn, Inside
    <2>2. \A o \in owed[c] : Past(c, o)
      BY <2>1 DEF PerCall, OwedKnown, Current, Past
    <2>3. \A o \in owed[c] : Made(c, o)
      BY <2>1, <2>2 DEF PerCall, RanKnown
    <2> QED
      BY <1>2, <2>3, ReturnIInv DEF HandleUpdatesReturn
  <1> QED
    BY <1>1, <1>2

LEMMA NextIInv == ASSUME IInv, [Next]_vars PROVE IInv'
  <1>1. CASE UNCHANGED vars
    <2>1. TypeOK'
      BY <1>1 DEF IInv, TypeOK, vars
    <2>2. ASSUME NEW c \in Callers PROVE PerCall(c)'
      BY <1>1, Typed, Frame DEF IInv, vars
    <2> QED
      BY <2>1, <2>2 DEF IInv
  <1>2. ASSUME NEW c \in Callers, Step(c) PROVE IInv'
    <2>1. CASE Dispatch(c)
      BY <2>1, DispatchIInv
    <2>2. CASE HandleUpdatesReturn(c) \/ ReadPanics(c)
      BY <2>2, ReturnsIInv
    <2>3. CASE Unrouted(c) \/ Filtered(c) \/ DispatchReturn(c)
      BY <2>3, MovesIInv
    <2>4. CASE BuildChain(c)
      BY <2>4, BuildChainIInv
    <2>5. CASE ReadMiddleware(c)
      BY <2>5, ReadMiddlewareIInv
    <2>6. ASSUME NEW how \in {"ok", "error", "panic"}, RunChain(c, how) PROVE IInv'
      BY <2>6, RunChainIInv
    <2> QED
      BY <1>2, <2>1, <2>2, <2>3, <2>4, <2>5, <2>6 DEF Step
  <1>3. ASSUME NEW c \in Callers, NEW b \in Batches, HandleUpdates(c, b) PROVE IInv'
    BY <1>3, HandleUpdatesIInv
  <1> QED
    BY <1>1, <1>2, <1>3, EditIInv DEF Next

----------------------------------------------------------------------------
THEOREM Inductive == Spec => []IInv
  <1> QED
    BY InitIInv, NextIInv, PTL DEF Spec

\* The variables have the declared types in every reachable state.
THEOREM TypeCorrect == Spec => []TypeOK
  <1>1. IInv => TypeOK
    BY DEF IInv
  <1> QED
    BY <1>1, Inductive, PTL

\* Whatever is added or removed during a batch, its handler calls are made in
\* the order of its updates and of registration, each at most once, and only
\* handlers that were registered when the dispatch of the update began run.
THEOREM CallsInOrderHolds == Spec => []CallsInOrder
  <1>1. IInv => CallsInOrder
    BY DEF IInv, PerCall, RanKnown, CallsInOrder
  <1> QED
    BY <1>1, Inductive, PTL

\* HandleUpdates returns nil only when every handler call owed has been made.
THEOREM OkMeansAllHolds == Spec => []OkMeansAll
  <1>1. IInv => OkMeansAll
    BY DEF IInv, PerCall, RanKnown, OkMeansAll, Made
  <1> QED
    BY <1>1, Inductive, PTL

\* While no middleware is removed, a chain is the list at its beginning.
THEOREM ChainAsRegisteredHolds == Spec => []ChainAsRegistered
  <1>1. ASSUME IInv, NEW c \in Callers, call[c].pc = "build", ~built[c].cut
        PROVE  /\ call[c].i <= Len(mws)
               /\ call[c].chain = SubSeq(built[c].mws, call[c].i + 1, Len(built[c].mws))
    BY <1>1, Typed DEF IInv, PerCall, ChainKnown
  <1>2. IInv => ChainAsRegistered
    BY <1>1 DEF ChainAsRegistered
  <1> QED
    BY <1>2, Inductive, PTL

\* A handler runs after the access hashes of its batch have been cached.
THEOREM HashesFirstHolds == Spec => []HashesFirst
  <1>1. IInv => HashesFirst
    BY DEF IInv, PerCall, HashKnown, HashesFirst
  <1> QED
    BY <1>1, Inductive, PTL

=============================================================================
