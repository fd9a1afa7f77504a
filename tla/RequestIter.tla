----------------------------- MODULE RequestIter -----------------------------
(***************************************************************************)
(* RequestIter (client/requestiter.go), the buffered iterator that serves  *)
(* items one by one and fetches pages as it runs out: Next, called by the  *)
(* program or by Collect, and by the goroutine of Channel.                 *)
(*                                                                         *)
(* The two functions of a sub-type are external: initFn may fetch the      *)
(* first page, loadNextFn fetches the next one, an empty one at the end;   *)
(* either may fail, and leaves the buffer as it was.  The program may call *)
(* Next again after an error, as often as it likes.                        *)
(***************************************************************************)
EXTENDS Integers, FiniteSets, Sequences

CONSTANTS Items,   \* the number of items there are, called 1 .. Items
          MaxPage, \* the most items on a page
          Caps     \* the limits with which iterators are made; 0 or less is none

ParametersOK == Items \in Nat /\ MaxPage \in Nat \ {0} /\ Caps \subseteq Int

VARIABLES
  it,      \* the iterator
  fetched, \* external: the last item that was fetched
  taken,   \* the items that the program has received, in order
  dropped, \* history: the items that Channel lost when its context ended
  user     \* who calls Next, the program or Channel; whether a call runs; what the last one returned

vars == <<it, fetched, taken, dropped, user>>

Init ==
  /\ \E limit \in Caps :
       it = [limit |-> limit, left |-> IF limit <= 0 THEN -1 ELSE limit, buffer |-> <<>>, bufPos |-> 0,
             done |-> FALSE, initialized |-> FALSE]
  /\ fetched = 0 /\ taken = <<>> /\ dropped = {}
  /\ user = [by |-> "program", busy |-> FALSE, result |-> "none"]

\* The program calls Next, alone or in the loop of Collect, or starts the
\* goroutine of Channel, which calls it until it gives no item; one at a time.
CallNext ==
  /\ ~user.busy
  /\ user' = [user EXCEPT !.busy = TRUE, !.result = "none"]
  /\ UNCHANGED <<it, fetched, taken, dropped>>
Channel ==
  /\ ~user.busy /\ user.by = "program"
  /\ user' = [user EXCEPT !.by = "channel"]
  /\ UNCHANGED <<it, fetched, taken, dropped>>
Return(result) ==
  user' = [by |-> IF result = "item" THEN user.by ELSE "program", busy |-> FALSE, result |-> result]

Exhausted ==
  /\ user.busy /\ it.done
  /\ Return("end")
  /\ UNCHANGED <<it, fetched, taken, dropped>>

PageOf(n) == [i \in 1 .. n |-> fetched + i]
Initialize(n) ==
  /\ user.busy /\ ~it.done /\ ~it.initialized
  /\ fetched' = fetched + n
  /\ it' = [it EXCEPT !.initialized = TRUE, !.buffer = PageOf(n)]
  /\ UNCHANGED <<taken, dropped, user>>
InitFails ==
  /\ user.busy /\ ~it.done /\ ~it.initialized
  /\ it' = [it EXCEPT !.initialized = TRUE]
  /\ Return("error")
  /\ UNCHANGED <<fetched, taken, dropped>>

Running == user.busy /\ ~it.done /\ it.initialized
Serve ==
  /\ Running /\ it.bufPos < Len(it.buffer)
  /\ it' = [it EXCEPT !.bufPos = @ + 1, !.left = IF @ > 0 THEN @ - 1 ELSE @, !.done = it.left = 1]
  /\ LET item == it.buffer[it.bufPos + 1]
     IN  \/ /\ taken' = Append(taken, item)
            /\ Return("item")
            /\ UNCHANGED dropped
         \/ /\ user.by = "channel"   \* ctx.Done before the item is received
            /\ dropped' = dropped \cup {item}
            /\ Return("error")
            /\ UNCHANGED taken
  /\ UNCHANGED fetched

\* An empty page ends the iterator.
Load(n) ==
  /\ Running /\ it.bufPos >= Len(it.buffer)
  /\ fetched' = fetched + n
  /\ it' = [it EXCEPT !.buffer = PageOf(n), !.bufPos = 0, !.done = n = 0]
  /\ IF n = 0 THEN Return("end") ELSE UNCHANGED user
  /\ UNCHANGED <<taken, dropped>>
LoadFails ==
  /\ Running /\ it.bufPos >= Len(it.buffer)
  /\ it' = [it EXCEPT !.buffer = <<>>, !.bufPos = 0]
  /\ Return("error")
  /\ UNCHANGED <<fetched, taken, dropped>>

\* The sizes that a page may have.
Sizes == IF fetched = Items THEN {0} ELSE 1 .. (IF Items - fetched < MaxPage THEN Items - fetched ELSE MaxPage)
Next ==
  \/ CallNext \/ Channel
  \/ Exhausted \/ InitFails \/ Serve \/ LoadFails
  \/ \E n \in {0} \cup Sizes : Initialize(n)
  \/ \E n \in Sizes : Load(n)

Spec == Init /\ [][Next]_vars

-----------------------------------------------------------------------------
TypeOK ==
  /\ it.left \in {-1} \cup 0 .. it.limit /\ it.bufPos \in 0 .. Len(it.buffer)
  /\ fetched \in 0 .. Items /\ dropped \subseteq 1 .. Items

\* Whoever calls Next, and whatever fails in between, the items come in their
\* order, each once, none left out but those that Channel had in hand when its
\* context ended, and no more than the limit (requestiter.go:86-121).
Served == Len(taken) + Cardinality(dropped)
ItemsInOrder ==
  /\ \A i, j \in DOMAIN taken : i < j => taken[i] < taken[j]
  /\ {taken[i] : i \in DOMAIN taken} \cup dropped = 1 .. Served
  /\ it.limit > 0 => Served <= it.limit

\* An iterator that says that it is exhausted has served everything, or as much
\* as its limit allows.
EndIsTheEnd == user.result = "end" => Served = Items \/ Served = it.limit
=============================================================================
