------------------------ MODULE ConversationManager ------------------------
(***************************************************************************)
(* events.ConversationManager: the list of conversations registered for    *)
(* one chat, and the goroutines that deliver messages to that list.        *)
(*                                                                         *)
(* Register and Unregister hold cm.mu.  Deliver, DeliverEdit and           *)
(* DeliverRead take the read lock only to copy the slice header: they walk *)
(* the elements after they have released it.  Unregister compacts the list *)
(* in place (list[:0]) and Register may append in place, so what a         *)
(* delivery reads depends on the backing array, which is why the model     *)
(* keeps a heap of arrays and slice headers instead of plain sequences.    *)
(*                                                                         *)
(* The map's entries for two chats share neither an array nor a key, so    *)
(* one chat is modelled.  The three Deliver methods differ only in the     *)
(* method they call on each conversation, which module Conversation        *)
(* models; here a call is recorded in got.                                 *)
(***************************************************************************)
EXTENDS Integers, Sequences, FiniteSets

CONSTANTS Convs,      \* conversations of the chat
          Deliverers, \* goroutines that deliver to the chat
          Arrays,     \* identities of backing arrays
          NoArray,    \* the backing array of the nil slice
          NoConv,     \* contents of a slot that was never written
          MaxLen      \* bound on the length of the list

ASSUME MaxLenAssumption == MaxLen \in Nat \ {0}
ASSUME NilAssumption == NoArray \notin Arrays /\ NoConv \notin Convs

VARIABLES
  heap,   \* the slots of each backing array
  cap,    \* the capacity of each backing array
  cur,    \* the slice header stored in cm.convs[chatID]
  unreg,  \* the Unregister call that holds cm.mu, if there is one
  del,    \* per deliverer: the header it copied and the next index
  got,    \* history: the conversations it has called, in order
  snap,   \* history: the elements of its list when it copied the header
  seen,   \* history: conversations registered at some time of its call
  stayed, \* history: those registered then and not unregistered since
  quiet   \* history: no Unregister has run since then

hist == <<got, snap, seen, stayed, quiet>>
vars == <<heap, cap, cur, unreg, del, hist>>

Slots    == 1 .. 2 * MaxLen
Header   == [arr : Arrays \cup {NoArray}, len : 0 .. MaxLen]
NilSlice == [arr |-> NoArray, len |-> 0]
Idle     == [active |-> FALSE, arr |-> NoArray, len |-> 0, i |-> 1]
Unlocked == [active |-> FALSE, conv |-> NoConv, i |-> 1, w |-> 0, before |-> << >>]

\* The elements a header shows, in the present state of the heap.
Elements(h) == [i \in 1 .. h.len |-> heap[h.arr][i]]

Registered == {heap[cur.arr][i] : i \in 1 .. cur.len}

\* Arrays the garbage collector must keep.
Referenced == {cur.arr} \cup {del[d].arr : d \in Deliverers}

\* append's growth for slices of pointers shorter than 256 elements.
Grow(n) == IF n = 0 THEN 1 ELSE 2 * n

Locked == unreg.active
Running(d) == del[d].active
Returning(d) == Running(d) /\ del[d].i > del[d].len

----------------------------------------------------------------------------
Init ==
  /\ heap   = [a \in Arrays |-> [i \in Slots |-> NoConv]]
  /\ cap    = [a \in Arrays |-> 0]
  /\ cur    = NilSlice
  /\ unreg  = Unlocked
  /\ del    = [d \in Deliverers |-> Idle]
  /\ got    = [d \in Deliverers |-> << >>]
  /\ snap   = [d \in Deliverers |-> << >>]
  /\ seen   = [d \in Deliverers |-> {}]
  /\ stayed = [d \in Deliverers |-> {}]
  /\ quiet  = [d \in Deliverers |-> TRUE]

\* Seeded fault: the new element lands on the last one.
AppendOverLast(c) ==
  /\ cur.arr \in Arrays
  /\ cur.len < cap[cur.arr]
  /\ heap' = [heap EXCEPT ![cur.arr][cur.len] = c]
  /\ cur'  = [cur EXCEPT !.len = @ + 1]
  /\ cap'  = cap

\* append within the capacity writes the slot after the last element.
AppendInPlace(c) ==
  /\ cur.arr \in Arrays
  /\ cur.len < cap[cur.arr]
  /\ heap' = [heap EXCEPT ![cur.arr][cur.len + 1] = c]
  /\ cur'  = [cur EXCEPT !.len = @ + 1]
  /\ cap'  = cap

\* append beyond it copies the elements to a new array.
AppendGrow(c) ==
  /\ cur.arr \in Arrays => cur.len = cap[cur.arr]
  /\ \E a \in Arrays \ Referenced :
       /\ heap' = [heap EXCEPT ![a] = [i \in Slots |->
                     IF i <= cur.len THEN heap[cur.arr][i]
                     ELSE IF i = cur.len + 1 THEN c ELSE NoConv]]
       /\ cap'  = [cap EXCEPT ![a] = Grow(cur.len)]
       /\ cur'  = [arr |-> a, len |-> cur.len + 1]

Register(c) ==
  /\ ~Locked
  /\ cur.len < MaxLen
  /\ AppendInPlace(c) \/ AppendGrow(c)
  /\ seen' = [d \in Deliverers |-> IF Running(d) THEN seen[d] \cup {c} ELSE seen[d]]
  /\ UNCHANGED <<unreg, del, got, snap, stayed, quiet>>

\* Unregister takes cm.mu and starts from list and list[:0].
UnregisterLock(c) ==
  /\ ~Locked
  /\ unreg'  = [active |-> TRUE, conv |-> c, i |-> 1, w |-> 0, before |-> Elements(cur)]
  /\ quiet'  = [d \in Deliverers |-> quiet[d] /\ ~Running(d)]
  /\ stayed' = [d \in Deliverers |-> IF Running(d) THEN stayed[d] \ {c} ELSE stayed[d]]
  /\ UNCHANGED <<heap, cap, cur, del, got, snap, seen>>

\* Seeded fault: the write index advances and nothing is moved.
UnregisterStepKeepsSlots ==
  /\ Locked
  /\ unreg.i <= cur.len
  /\ unreg' = [unreg EXCEPT !.i = @ + 1,
                            !.w = IF heap[cur.arr][unreg.i] = unreg.conv THEN @ ELSE @ + 1]
  /\ UNCHANGED <<heap, cap, cur, del, hist>>

\* One iteration of its loop: an element that stays moves down in place.
UnregisterStep ==
  /\ Locked
  /\ unreg.i <= cur.len
  /\ LET c == heap[cur.arr][unreg.i]
     IN  IF c = unreg.conv
         THEN /\ unreg' = [unreg EXCEPT !.i = @ + 1]
              /\ heap'  = heap
         ELSE /\ unreg' = [unreg EXCEPT !.i = @ + 1, !.w = @ + 1]
              /\ heap'  = [heap EXCEPT ![cur.arr][unreg.w + 1] = c]
  /\ UNCHANGED <<cap, cur, del, hist>>

\* It stores the shorter header, or deletes the key, and releases cm.mu.
UnregisterUnlock ==
  /\ Locked
  /\ unreg.i > cur.len
  /\ cur'   = IF unreg.w = 0 THEN NilSlice ELSE [cur EXCEPT !.len = unreg.w]
  /\ unreg' = Unlocked
  /\ UNCHANGED <<heap, cap, del, hist>>

\* Seeded fault: the copy of the header runs one slot into the capacity.
DeliverPastEnd(d) ==
  /\ ~Locked
  /\ ~Running(d)
  /\ cur.arr \in Arrays
  /\ cur.len < cap[cur.arr]
  /\ del'    = [del    EXCEPT ![d] = [active |-> TRUE, arr |-> cur.arr, len |-> cur.len + 1, i |-> 1]]
  /\ snap'   = [snap   EXCEPT ![d] = Elements(cur)]
  /\ seen'   = [seen   EXCEPT ![d] = Registered]
  /\ stayed' = [stayed EXCEPT ![d] = Registered]
  /\ UNCHANGED <<heap, cap, cur, unreg, got, quiet>>

\* Deliver copies the header under the read lock ...
Deliver(d) ==
  /\ ~Locked
  /\ ~Running(d)
  /\ del'    = [del    EXCEPT ![d] = [active |-> TRUE, arr |-> cur.arr, len |-> cur.len, i |-> 1]]
  /\ got'    = [got    EXCEPT ![d] = << >>]
  /\ snap'   = [snap   EXCEPT ![d] = Elements(cur)]
  /\ seen'   = [seen   EXCEPT ![d] = Registered]
  /\ stayed' = [stayed EXCEPT ![d] = Registered]
  /\ quiet'  = [quiet  EXCEPT ![d] = TRUE]
  /\ UNCHANGED <<heap, cap, cur, unreg>>

\* ... and calls the conversation in each slot without any lock.
DeliverNext(d) ==
  /\ Running(d)
  /\ del[d].i <= del[d].len
  /\ got' = [got EXCEPT ![d] = Append(@, heap[del[d].arr][del[d].i])]
  /\ del' = [del EXCEPT ![d].i = @ + 1]
  /\ UNCHANGED <<heap, cap, cur, unreg, snap, seen, stayed, quiet>>

DeliverReturn(d) ==
  /\ Returning(d)
  /\ del'    = [del    EXCEPT ![d] = Idle]
  /\ got'    = [got    EXCEPT ![d] = << >>]
  /\ snap'   = [snap   EXCEPT ![d] = << >>]
  /\ seen'   = [seen   EXCEPT ![d] = {}]
  /\ stayed' = [stayed EXCEPT ![d] = {}]
  /\ quiet'  = [quiet  EXCEPT ![d] = TRUE]
  /\ UNCHANGED <<heap, cap, cur, unreg>>

Next ==
  \/ \E c \in Convs : Register(c) \/ UnregisterLock(c)
  \/ UnregisterStep
  \/ UnregisterUnlock
  \/ \E d \in Deliverers : Deliver(d) \/ DeliverNext(d) \/ DeliverReturn(d)

Spec == Init /\ [][Next]_vars

----------------------------------------------------------------------------
TypeOK ==
  /\ heap   \in [Arrays -> [Slots -> Convs \cup {NoConv}]]
  /\ cap    \in [Arrays -> 0 .. 2 * MaxLen]
  /\ cur    \in Header
  /\ unreg  \in [active : BOOLEAN, conv : Convs \cup {NoConv},
                 i : 1 .. MaxLen + 1, w : 0 .. MaxLen, before : Seq(Convs)]
  /\ del    \in [Deliverers -> [active : BOOLEAN, arr : Arrays \cup {NoArray},
                                len : 0 .. MaxLen, i : 1 .. MaxLen + 1]]
  /\ got    \in [Deliverers -> Seq(Convs)]
  /\ snap   \in [Deliverers -> Seq(Convs)]
  /\ seen   \in [Deliverers -> SUBSET Convs]
  /\ stayed \in [Deliverers -> SUBSET Convs]
  /\ quiet  \in [Deliverers -> BOOLEAN]

\* A delivery calls only conversations that were registered at some moment
\* of the call: stale pointers left behind the end of a shortened list, and
\* slots that Register writes again, never reach one that had been
\* unregistered before the call began (events.go:148-153 walks a slice that
\* Unregister, lines 132-148, rewrites at the same time).
NoGhostDelivery ==
  \A d \in Deliverers : \A i \in 1 .. Len(got[d]) : got[d][i] \in seen[d]

\* As long as no Unregister has run since the header was copied, a delivery
\* calls exactly the conversations that were registered then, in their order,
\* whatever Register appends to the shared array meanwhile.
ExactWhileQuiet ==
  \A d \in Deliverers :
    quiet[d] => /\ Len(got[d]) = del[d].i - 1
                /\ \A i \in 1 .. Len(got[d]) : got[d][i] = snap[d][i]

\* The comment of Deliver (events.go:150): it "routes a new incoming message
\* to all conversations registered for that chat".  A conversation that was
\* registered when the call began and has not been unregistered since is one
\* of those the call has reached when it returns.
DeliveredToAll ==
  \A d \in Deliverers :
    Returning(d) => \A c \in stayed[d] : \E i \in DOMAIN got[d] : got[d][i] = c

\* The heap, the headers and the in-place compaction implement the list of
\* ConversationRegistry; a running Unregister still shows the list it began
\* with, since nobody else may read cm.convs while it holds cm.mu.
Registry == INSTANCE ConversationRegistry
              WITH list <- IF Locked THEN unreg.before ELSE Elements(cur)
ImplementsRegistry == Registry!Spec

=============================================================================
