---------------------- MODULE ConversationManager_proofs -------------------
(***************************************************************************)
(* Proofs about ConversationManager, for any sets of conversations,        *)
(* deliverers and arrays and any bound on the list.                        *)
(*                                                                         *)
(* Neither safety property is inductive.  What makes them so is where the  *)
(* backing arrays may be written while a delivery walks one: Register      *)
(* writes behind the present end of the list (QuietPrefix), Unregister     *)
(* copies elements of the list to lower slots (CurSeen), and an array a    *)
(* delivery still holds is never handed out again (AppendGrow).            *)
(* That the manager implements ConversationRegistry needs what a running   *)
(* Unregister has copied so far (Compacted).                               *)
(***************************************************************************)
EXTENDS ConversationManager, SequenceTheorems, TLAPS

\* Headers: the nil slice is empty, and the elements shown are conversations.
Headers ==
  /\ cur.arr = NoArray => cur.len = 0
  /\ cur.arr \in Arrays =>
       /\ cur.len <= cap[cur.arr]
       /\ \A i \in 1 .. cur.len : heap[cur.arr][i] \in Convs
  /\ \A d \in Deliverers : del[d].arr = NoArray => del[d].len = 0

\* A running compaction writes below the index it reads.
Compaction == Locked => /\ unreg.w < unreg.i
                        /\ unreg.i <= cur.len + 1

\* Every conversation in the list now was registered during every running call.
CurSeen ==
  \A d \in Deliverers : Running(d) /\ cur.arr \in Arrays =>
    \A i \in 1 .. cur.len : heap[cur.arr][i] \in seen[d]

\* What a running call may still read was registered during the call.
DelSeen ==
  \A d \in Deliverers : Running(d) /\ del[d].arr \in Arrays =>
    \A i \in 1 .. del[d].len : heap[del[d].arr][i] \in seen[d]

\* Only a running call has a record of what it did.
IdleEmpty ==
  \A d \in Deliverers : ~Running(d) =>
    /\ got[d] = << >>
    /\ del[d] = Idle

\* While no Unregister has run, the list a call holds is the one it copied.
QuietPrefix ==
  \A d \in Deliverers : Running(d) /\ quiet[d] =>
    /\ ~Locked
    /\ del[d].arr = cur.arr => del[d].len <= cur.len
    /\ del[d].arr \in Arrays =>
         \A i \in 1 .. del[d].len : heap[del[d].arr][i] = snap[d][i]

IInv ==
  /\ TypeOK /\ Headers /\ Compaction /\ CurSeen /\ DelSeen
  /\ IdleEmpty /\ QuietPrefix /\ NoGhostDelivery /\ ExactWhileQuiet

----------------------------------------------------------------------------
\* The invariant holds before any conversation is registered.
LEMMA InitIInv == Init => IInv
  BY MaxLenAssumption, NilAssumption
  DEF Init, IInv, TypeOK, Headers, Compaction, CurSeen, DelSeen, IdleEmpty,
      QuietPrefix, NoGhostDelivery, ExactWhileQuiet, Slots, Header, NilSlice,
      Idle, Unlocked, Locked, Running

\* Register, in place: the slot written lies behind every header a quiet call
\* holds, and the element written joins what every running call has seen.
LEMMA AppendInPlaceIInv ==
  ASSUME IInv, NEW c \in Convs, Register(c), AppendInPlace(c)
  PROVE  IInv'
<1> USE MaxLenAssumption, NilAssumption DEF Running, Locked
<1> DEFINE n == cur.len + 1
<1>z. cur \in Header /\ cur.len \in 0 .. MaxLen /\ n <= MaxLen
  BY DEF IInv, TypeOK, Register, Header
<1>y. cur.arr \in Arrays /\ n \in Slots
  BY <1>z DEF AppendInPlace, Slots
<1>a. cur.arr \in Arrays /\ n \in Slots /\ cur' = [arr |-> cur.arr, len |-> n]
  BY <1>z, <1>y DEF AppendInPlace, Header
<1>b. /\ cur'.arr = cur.arr /\ cur'.len = n /\ n <= MaxLen /\ cur.len \in Nat
      /\ n <= cap[cur.arr] /\ cap' = cap
  BY <1>a DEF IInv, TypeOK, Register, AppendInPlace, Header
<1>c. heap' \in [Arrays -> [Slots -> Convs \cup {NoConv}]]
  BY <1>a DEF IInv, TypeOK, AppendInPlace
<1>d. heap'[cur.arr][n] = c
  BY <1>a DEF IInv, TypeOK, AppendInPlace
<1>e. \A a \in Arrays : \A i \in Slots : (a # cur.arr \/ i # n) => heap'[a][i] = heap[a][i]
  BY <1>a DEF IInv, TypeOK, AppendInPlace
<1>f. /\ UNCHANGED <<unreg, del, got, snap, stayed, quiet>>
      /\ \A d \in Deliverers : seen'[d] = IF Running(d) THEN seen[d] \cup {c} ELSE seen[d]
      /\ seen' \in [Deliverers -> SUBSET Convs]
  BY DEF IInv, TypeOK, Register
<1>g. \A i \in 1 .. n : i \in Slots /\ (i = n \/ (i # n /\ i \in 1 .. cur.len))
  BY <1>a, <1>b DEF Slots
<1>h. \A d \in Deliverers : \A i \in 1 .. del[d].len : i \in Slots
  BY DEF IInv, TypeOK, Slots
<1>1. TypeOK /\ TypeOK'
  BY <1>a, <1>b, <1>c, <1>f DEF IInv, TypeOK, Header
<1>2. Headers'
  BY <1>a, <1>b, <1>d, <1>e, <1>f, <1>g DEF IInv, Headers
<1>3. Compaction'
  BY DEF IInv, Compaction, Register
<1>4. CurSeen'
  BY <1>a, <1>b, <1>d, <1>e, <1>f, <1>g DEF IInv, CurSeen
<1>5. DelSeen'
  BY <1>d, <1>e, <1>f, <1>h DEF IInv, DelSeen
<1>6. IdleEmpty'
  BY DEF IInv, IdleEmpty, Register
<1>7. QuietPrefix'
  <2> SUFFICES ASSUME NEW d \in Deliverers, Running(d), quiet[d]
               PROVE  /\ ~Locked
                      /\ del[d].arr = cur.arr => del[d].len <= n
                      /\ del[d].arr \in Arrays =>
                           \A i \in 1 .. del[d].len : heap'[del[d].arr][i] = snap[d][i]
    BY <1>b, <1>f DEF QuietPrefix
  <2>1. del[d].len \in Nat /\ (del[d].arr = cur.arr => del[d].len <= cur.len) /\ ~Locked
    BY DEF IInv, TypeOK, QuietPrefix
  <2>2. \A i \in 1 .. del[d].len : del[d].arr = cur.arr => i # n
    BY <2>1, <1>b
  <2> QED BY <2>1, <2>2, <1>b, <1>e, <1>h DEF IInv, QuietPrefix
<1>8. NoGhostDelivery' /\ ExactWhileQuiet'
  BY <1>1 DEF IInv, TypeOK, NoGhostDelivery, ExactWhileQuiet, Register
<1> QED BY <1>1, <1>2, <1>3, <1>4, <1>5, <1>6, <1>7, <1>8 DEF IInv

\* Register, in a new array: no header of a running call refers to it.
LEMMA AppendGrowIInv ==
  ASSUME IInv, NEW c \in Convs, Register(c), AppendGrow(c)
  PROVE  IInv'
<1> USE MaxLenAssumption, NilAssumption DEF Running, Locked
<1>0. PICK a \in Arrays \ Referenced :
        /\ heap' = [heap EXCEPT ![a] = [i \in Slots |->
                      IF i <= cur.len THEN heap[cur.arr][i]
                      ELSE IF i = cur.len + 1 THEN c ELSE NoConv]]
        /\ cap'  = [cap EXCEPT ![a] = Grow(cur.len)]
        /\ cur'  = [arr |-> a, len |-> cur.len + 1]
  BY DEF AppendGrow
<1>a. a # cur.arr /\ \A d \in Deliverers : a # del[d].arr
  BY DEF Referenced
<1>b. cur.arr = NoArray \/ cur.arr \in Arrays
  BY DEF IInv, TypeOK, Header
<1>c. \A i \in 1 .. cur.len : cur.arr \in Arrays /\ heap[cur.arr][i] \in Convs
  BY <1>b DEF IInv, TypeOK, Headers, Header
<1>d. heap'[a] = [i \in Slots |->
                    IF i <= cur.len THEN heap[cur.arr][i]
                    ELSE IF i = cur.len + 1 THEN c ELSE NoConv]
  BY <1>0 DEF IInv, TypeOK
<1>e. \A i \in 1 .. cur.len' : heap'[cur'.arr][i] = IF i <= cur.len THEN heap[cur.arr][i] ELSE c
  BY <1>0, <1>d DEF IInv, TypeOK, Header, Slots, Register
<1>f. \A d \in Deliverers : del[d].arr \in Arrays => heap'[del[d].arr] = heap[del[d].arr]
  BY <1>0, <1>a DEF IInv, TypeOK
<1>g. heap' \in [Arrays -> [Slots -> Convs \cup {NoConv}]]
  <2>1. heap'[a] \in [Slots -> Convs \cup {NoConv}]
    BY <1>c, <1>d DEF IInv, TypeOK, Slots, Header
  <2> QED BY <1>0, <2>1 DEF IInv, TypeOK
<1>h. cap' \in [Arrays -> 0 .. 2 * MaxLen] /\ cur' \in Header /\ cur'.len <= cap'[a]
  BY <1>0 DEF IInv, TypeOK, Header, Grow, Register
<1>1. TypeOK /\ TypeOK'
  BY <1>g, <1>h DEF IInv, TypeOK, Register
<1>2. Headers'
  <2>1. cur'.arr = a /\ cur'.arr # NoArray
    BY <1>0
  <2>2. ASSUME NEW i \in 1 .. cur'.len PROVE heap'[cur'.arr][i] \in Convs
    <3>1. i \in Nat /\ i >= 1 /\ cur.len \in Nat
      BY <1>h DEF IInv, TypeOK, Header
    <3>2. i <= cur.len => heap[cur.arr][i] \in Convs
      BY <1>c, <3>1
    <3> QED BY <1>e, <3>2
  <2>3. del' = del
    BY DEF Register
  <2>4. cur'.len <= cap'[cur'.arr]
    BY <2>1, <1>h
  <2>5. \A d \in Deliverers : del'[d].arr = NoArray => del'[d].len = 0
    BY <2>3 DEF IInv, Headers
  <2> QED BY <2>1, <2>2, <2>4, <2>5 DEF Headers
<1>3. Compaction'
  BY DEF IInv, Compaction, Register
<1>4. CurSeen'
  <2> SUFFICES ASSUME NEW d \in Deliverers, Running(d)', NEW i \in 1 .. cur.len'
               PROVE  heap'[cur'.arr][i] \in seen'[d]
    BY DEF CurSeen
  <2>1. Running(d) /\ seen'[d] = seen[d] \cup {c}
    BY DEF Register, IInv, TypeOK
  <2>2. CASE i <= cur.len
    BY <1>c, <1>e, <2>1, <2>2, <1>h DEF IInv, CurSeen, Header
  <2>3. CASE ~(i <= cur.len)
    BY <1>e, <2>1, <2>3
  <2> QED BY <2>2, <2>3
<1>5. DelSeen'
  BY <1>1, <1>f DEF IInv, TypeOK, DelSeen, Register
<1>6. IdleEmpty'
  BY DEF IInv, IdleEmpty, Register
<1>7. QuietPrefix'
  BY <1>1, <1>0, <1>a, <1>f DEF IInv, TypeOK, QuietPrefix, Register
<1>8. NoGhostDelivery' /\ ExactWhileQuiet'
  BY <1>1 DEF IInv, TypeOK, NoGhostDelivery, ExactWhileQuiet, Register
<1> QED BY <1>1, <1>2, <1>3, <1>4, <1>5, <1>6, <1>7, <1>8 DEF IInv

\* Unregister begins: from here on no running call counts as quiet.
LEMMA UnregisterLockIInv ==
  ASSUME IInv, NEW c \in Convs, UnregisterLock(c)
  PROVE  IInv'
<1> USE MaxLenAssumption, NilAssumption DEF Running, Locked
<1>a. /\ UNCHANGED <<heap, cap, cur, del, got, snap, seen>>
      /\ unreg' = [active |-> TRUE, conv |-> c, i |-> 1, w |-> 0, before |-> Elements(cur)]
      /\ quiet' \in [Deliverers -> BOOLEAN] /\ stayed' \in [Deliverers -> SUBSET Convs]
      /\ \A d \in Deliverers : quiet'[d] => quiet[d] /\ ~Running(d)
  BY DEF IInv, TypeOK, UnregisterLock
<1>b. cur.len \in 0 .. MaxLen /\ (cur.arr = NoArray \/ cur.arr \in Arrays)
  BY DEF IInv, TypeOK, Header
<1>c. Elements(cur) \in Seq(Convs)
  <2>1. \A i \in 1 .. cur.len : heap[cur.arr][i] \in Convs
    BY <1>b DEF IInv, Headers
  <2> QED BY <1>b, <2>1 DEF Elements
<1>1. TypeOK'
  BY <1>a, <1>b, <1>c DEF IInv, TypeOK
<1>2. Headers' /\ Compaction' /\ CurSeen' /\ DelSeen' /\ IdleEmpty'
  BY <1>a, <1>b DEF IInv, Headers, Compaction, CurSeen, DelSeen, IdleEmpty
<1>3. QuietPrefix' /\ NoGhostDelivery' /\ ExactWhileQuiet'
  BY <1>a DEF IInv, QuietPrefix, NoGhostDelivery, ExactWhileQuiet
<1> QED BY <1>1, <1>2, <1>3 DEF IInv

\* One iteration of the compaction moves an element of the list to a slot of
\* the list: no running call is quiet, and each has seen that element.
LEMMA UnregisterStepIInv ==
  ASSUME IInv, UnregisterStep
  PROVE  IInv'
<1> USE MaxLenAssumption, NilAssumption DEF Running, Locked
<1> DEFINE r == unreg.i
           m == unreg.w + 1
           moved == heap[cur.arr][r]
<1>a. UNCHANGED <<cap, cur, del, got, snap, seen, stayed, quiet>> /\ unreg.active /\ r <= cur.len
  BY DEF UnregisterStep, hist
<1>b. /\ cur.len \in 0 .. MaxLen /\ r \in 1 .. MaxLen + 1 /\ unreg.w \in 0 .. MaxLen
      /\ cur.arr \in Arrays \cup {NoArray}
  BY DEF IInv, TypeOK, Header
<1>c. unreg.w < r /\ m <= r /\ m \in 1 .. cur.len /\ r \in 1 .. cur.len
  BY <1>a, <1>b DEF IInv, Compaction
<1>d. cur.arr \in Arrays /\ moved \in Convs
  BY <1>a, <1>b, <1>c DEF IInv, Headers
<1>e. m \in Slots /\ r \in Slots
  BY <1>b, <1>c DEF Slots
<1>f. heap' = heap \/ heap' = [heap EXCEPT ![cur.arr][m] = moved]
  BY DEF UnregisterStep
<1>t. heap \in [Arrays -> [Slots -> Convs \cup {NoConv}]]
  BY DEF IInv, TypeOK
<1> HIDE DEF m, moved
<1>g. heap' \in [Arrays -> [Slots -> Convs \cup {NoConv}]]
  BY <1>d, <1>e, <1>f, <1>t
<1>h. \A a \in Arrays : \A i \in Slots :
        \/ heap'[a][i] = heap[a][i]
        \/ a = cur.arr /\ heap'[a][i] = moved
  BY <1>d, <1>e, <1>f, <1>t
<1> USE DEF m, moved
<1>i. /\ unreg' \in [active : BOOLEAN, conv : Convs \cup {NoConv}, i : 1 .. MaxLen + 1,
                      w : 0 .. MaxLen, before : Seq(Convs)]
      /\ unreg'.active /\ unreg'.w < unreg'.i /\ unreg'.i <= cur.len + 1
  <2> unreg \in [active : BOOLEAN, conv : Convs \cup {NoConv}, i : 1 .. MaxLen + 1,
                 w : 0 .. MaxLen, before : Seq(Convs)]
    BY DEF IInv, TypeOK
  <2>1. \/ unreg' = [unreg EXCEPT !.i = @ + 1]
        \/ unreg' = [unreg EXCEPT !.i = @ + 1, !.w = @ + 1]
    BY DEF UnregisterStep
  <2>2. r + 1 \in 1 .. MaxLen + 1 /\ m \in 0 .. MaxLen
    BY <1>a, <1>b, <1>c
  <2>3. CASE unreg' = [unreg EXCEPT !.i = @ + 1]
    BY <1>a, <1>b, <1>c, <2>2, <2>3
  <2>4. CASE unreg' = [unreg EXCEPT !.i = @ + 1, !.w = @ + 1]
    <3>1. unreg' = [active |-> unreg.active, conv |-> unreg.conv, i |-> r + 1, w |-> m, before |-> unreg.before]
      BY <2>4
    <3> QED BY <1>a, <1>b, <1>c, <2>2, <3>1
  <2> QED BY <2>1, <2>3, <2>4
<1>j. \A d \in Deliverers : Running(d) => moved \in seen[d] /\ ~quiet[d]
  BY <1>a, <1>c, <1>d DEF IInv, CurSeen, QuietPrefix
<1>k. \A i \in 1 .. cur.len : i \in Slots
  BY <1>b DEF Slots
<1>l. \A d \in Deliverers : \A i \in 1 .. del[d].len : i \in Slots
  BY DEF IInv, TypeOK, Slots
<1>1. TypeOK'
  BY <1>a, <1>g, <1>i DEF IInv, TypeOK
<1>2. Headers'
  BY <1>a, <1>d, <1>h, <1>k DEF IInv, Headers
<1>3. Compaction'
  BY <1>a, <1>i DEF Compaction
<1>4. CurSeen'
  BY <1>a, <1>d, <1>h, <1>j, <1>k DEF IInv, CurSeen
<1>5. DelSeen'
  BY <1>a, <1>h, <1>j, <1>l DEF IInv, DelSeen
<1>6. IdleEmpty' /\ QuietPrefix'
  BY <1>a, <1>j DEF IInv, IdleEmpty, QuietPrefix
<1>7. NoGhostDelivery' /\ ExactWhileQuiet'
  BY <1>a DEF IInv, NoGhostDelivery, ExactWhileQuiet
<1> QED BY <1>1, <1>2, <1>3, <1>4, <1>5, <1>6, <1>7 DEF IInv

\* Unregister ends with a header that is no longer than before.
LEMMA UnregisterUnlockIInv ==
  ASSUME IInv, UnregisterUnlock
  PROVE  IInv'
<1> USE MaxLenAssumption, NilAssumption DEF Running, Locked
<1>a. /\ UNCHANGED <<heap, cap, del, got, snap, seen, stayed, quiet>>
      /\ unreg.active /\ unreg' = Unlocked
  BY DEF UnregisterUnlock, hist
<1>z. cur \in Header /\ unreg.w \in 0 .. MaxLen /\ unreg.i \in 1 .. MaxLen + 1
  BY DEF IInv, TypeOK
<1>b. cur \in Header /\ cur.len \in 0 .. MaxLen /\ unreg.w \in 0 .. MaxLen /\ unreg.i \in 1 .. MaxLen + 1
  BY <1>z DEF Header
<1>c. unreg.w <= cur.len
  BY <1>a, <1>b DEF IInv, Compaction
<1>d. cur' \in Header /\ cur'.len <= cur.len /\ cur'.len \in Nat
      /\ (cur'.arr = NoArray => cur'.len = 0)
      /\ (cur'.arr = cur.arr \/ cur'.arr = NoArray)
  <2>1. CASE unreg.w = 0
    BY <1>b, <2>1 DEF UnregisterUnlock, NilSlice, Header
  <2>2. CASE unreg.w # 0
    <3>1. cur' = [cur EXCEPT !.len = unreg.w]
      BY <2>2 DEF UnregisterUnlock
    <3>2. cur' = [arr |-> cur.arr, len |-> unreg.w]
      BY <1>b, <3>1 DEF Header
    <3> QED BY <1>b, <1>c, <2>2, <3>2 DEF Header, IInv, Headers
  <2> QED BY <2>1, <2>2
<1>e. \A i \in 1 .. cur'.len : i \in 1 .. cur.len
  BY <1>b, <1>d
<1>f. \A d \in Deliverers : ~(Running(d) /\ quiet[d])
  BY <1>a DEF IInv, QuietPrefix
<1>1. TypeOK'
  BY <1>a, <1>d DEF IInv, TypeOK, Unlocked
<1>2. Headers'
  <2>1. cur'.arr \in Arrays => \A i \in 1 .. cur'.len : heap[cur'.arr][i] \in Convs
    BY <1>d, <1>e DEF IInv, Headers
  <2>2. ASSUME cur'.arr \in Arrays PROVE cur'.len <= cap[cur'.arr]
    <3>1. cur.arr = cur'.arr /\ cur.len <= cap[cur.arr]
      BY <1>d, <2>2 DEF IInv, Headers
    <3>2. cap[cur.arr] \in Int
      BY <2>2, <3>1 DEF IInv, TypeOK
    <3> QED BY <1>b, <1>d, <3>1, <3>2
  <2> QED BY <1>a, <1>d, <2>1, <2>2 DEF IInv, Headers
<1>3. Compaction' /\ IdleEmpty' /\ QuietPrefix'
  BY <1>a, <1>f DEF IInv, Compaction, IdleEmpty, QuietPrefix, Unlocked
<1>4. CurSeen' /\ DelSeen'
  BY <1>a, <1>d, <1>e DEF IInv, CurSeen, DelSeen
<1>5. NoGhostDelivery' /\ ExactWhileQuiet'
  BY <1>a DEF IInv, NoGhostDelivery, ExactWhileQuiet
<1> QED BY <1>1, <1>2, <1>3, <1>4, <1>5 DEF IInv

\* A call begins: it holds the present list, and has seen all of it.
LEMMA DeliverIInv ==
  ASSUME IInv, NEW e \in Deliverers, Deliver(e)
  PROVE  IInv'
<1> USE MaxLenAssumption, NilAssumption DEF Running, Locked
<1>a. /\ UNCHANGED <<heap, cap, cur, unreg>> /\ ~Locked
      /\ del'    = [del    EXCEPT ![e] = [active |-> TRUE, arr |-> cur.arr, len |-> cur.len, i |-> 1]]
      /\ got'    = [got    EXCEPT ![e] = << >>]
      /\ snap'   = [snap   EXCEPT ![e] = Elements(cur)]
      /\ seen'   = [seen   EXCEPT ![e] = Registered]
      /\ stayed' = [stayed EXCEPT ![e] = Registered]
      /\ quiet'  = [quiet  EXCEPT ![e] = TRUE]
  BY DEF Deliver
<1>b. cur.len \in 0 .. MaxLen /\ cur.arr \in Arrays \cup {NoArray}
  BY DEF IInv, TypeOK, Header
<1>c. \A i \in 1 .. cur.len : cur.arr \in Arrays /\ heap[cur.arr][i] \in Convs
  BY <1>b DEF IInv, Headers
<1>d. Elements(cur) \in Seq(Convs) /\ Registered \in SUBSET Convs
  BY <1>b, <1>c DEF Elements, Registered
<1>e. /\ \A i \in 1 .. cur.len : Elements(cur)[i] = heap[cur.arr][i]
      /\ \A i \in 1 .. cur.len : heap[cur.arr][i] \in Registered
  BY DEF Elements, Registered
<1>t. /\ del \in [Deliverers -> [active : BOOLEAN, arr : Arrays \cup {NoArray},
                                 len : 0 .. MaxLen, i : 1 .. MaxLen + 1]]
      /\ got \in [Deliverers -> Seq(Convs)] /\ snap \in [Deliverers -> Seq(Convs)]
      /\ seen \in [Deliverers -> SUBSET Convs] /\ stayed \in [Deliverers -> SUBSET Convs]
      /\ quiet \in [Deliverers -> BOOLEAN]
  BY DEF IInv, TypeOK
<1>f. /\ del'[e] = [active |-> TRUE, arr |-> cur.arr, len |-> cur.len, i |-> 1]
      /\ got'[e] = << >> /\ snap'[e] = Elements(cur) /\ seen'[e] = Registered
      /\ del'[e].active /\ del'[e].arr = cur.arr /\ del'[e].len = cur.len /\ del'[e].i = 1
  BY <1>a, <1>t
<1>g. \A d \in Deliverers : d # e =>
        /\ del'[d] = del[d] /\ got'[d] = got[d] /\ snap'[d] = snap[d]
        /\ seen'[d] = seen[d] /\ quiet'[d] = quiet[d]
  BY <1>a, <1>t
<1>1. TypeOK'
  BY <1>a, <1>b, <1>d, <1>t DEF IInv, TypeOK
<1>2. Headers' /\ Compaction'
  BY <1>a, <1>f, <1>g DEF IInv, Headers, Compaction
<1>3. CurSeen'
  BY <1>a, <1>e, <1>f, <1>g DEF IInv, CurSeen
<1>4. DelSeen'
  BY <1>a, <1>e, <1>f, <1>g DEF IInv, DelSeen
<1>5. IdleEmpty'
  BY <1>f, <1>g DEF IInv, IdleEmpty
<1>6. QuietPrefix'
  BY <1>a, <1>b, <1>e, <1>f, <1>g DEF IInv, QuietPrefix
<1>7. NoGhostDelivery'
  BY <1>f, <1>g DEF IInv, NoGhostDelivery
<1>8. ExactWhileQuiet'
  BY <1>f, <1>g DEF IInv, ExactWhileQuiet
<1> QED BY <1>1, <1>2, <1>3, <1>4, <1>5, <1>6, <1>7, <1>8 DEF IInv

\* A call reads the next slot: DelSeen and QuietPrefix say what it finds.
LEMMA DeliverNextIInv ==
  ASSUME IInv, NEW e \in Deliverers, DeliverNext(e)
  PROVE  IInv'
<1> USE MaxLenAssumption, NilAssumption DEF Running, Locked
<1> DEFINE k == del[e].i
           x == heap[del[e].arr][k]
<1>a. /\ UNCHANGED <<heap, cap, cur, unreg, snap, seen, stayed, quiet>>
      /\ del[e].active /\ k <= del[e].len
      /\ got' = [got EXCEPT ![e] = Append(@, x)]
      /\ del' = [del EXCEPT ![e].i = @ + 1]
  BY DEF DeliverNext
<1>t. /\ del \in [Deliverers -> [active : BOOLEAN, arr : Arrays \cup {NoArray},
                                 len : 0 .. MaxLen, i : 1 .. MaxLen + 1]]
      /\ got \in [Deliverers -> Seq(Convs)] /\ seen \in [Deliverers -> SUBSET Convs]
  BY DEF IInv, TypeOK
<1>b. k \in 1 .. del[e].len /\ k + 1 \in 1 .. MaxLen + 1 /\ del[e].arr \in Arrays
  BY <1>a, <1>t DEF IInv, Headers
<1>c. x \in seen[e] /\ x \in Convs
  BY <1>a, <1>b, <1>t DEF IInv, DelSeen
<1>d. del'[e] = [active |-> del[e].active, arr |-> del[e].arr, len |-> del[e].len, i |-> k + 1]
  BY <1>a, <1>t
<1>e. \A d \in Deliverers :
        /\ del'[d].active = del[d].active /\ del'[d].arr = del[d].arr /\ del'[d].len = del[d].len
        /\ d # e => del'[d] = del[d] /\ got'[d] = got[d]
  BY <1>a, <1>d, <1>t
<1>f. got'[e] = Append(got[e], x) /\ got[e] \in Seq(Convs) /\ del'[e].i = k + 1
  BY <1>a, <1>d, <1>t
<1>g. /\ Len(got'[e]) = Len(got[e]) + 1 /\ Len(got[e]) \in Nat
      /\ \A i \in 1 .. Len(got'[e]) :
           got'[e][i] = IF i <= Len(got[e]) THEN got[e][i] ELSE x
  <2> HIDE DEF x
  <2> QED BY <1>c, <1>f
<1>1. TypeOK'
  <2>1. del' \in [Deliverers -> [active : BOOLEAN, arr : Arrays \cup {NoArray},
                                len : 0 .. MaxLen, i : 1 .. MaxLen + 1]]
    BY <1>a, <1>b, <1>d, <1>t
  <2>2. got' \in [Deliverers -> Seq(Convs)]
    <3> HIDE DEF x
    <3> QED BY <1>a, <1>c, <1>t
  <2> QED BY <1>a, <2>1, <2>2 DEF IInv, TypeOK
<1>2. Headers' /\ Compaction' /\ CurSeen' /\ DelSeen'
  BY <1>a, <1>e DEF IInv, Headers, Compaction, CurSeen, DelSeen
<1>3. IdleEmpty'
  BY <1>a, <1>e DEF IInv, IdleEmpty
<1>4. QuietPrefix'
  BY <1>a, <1>e DEF IInv, QuietPrefix
<1>5. NoGhostDelivery'
  BY <1>a, <1>c, <1>e, <1>g DEF IInv, NoGhostDelivery
<1>6. ExactWhileQuiet'
  <2> SUFFICES ASSUME NEW d \in Deliverers, quiet[d]
               PROVE  /\ Len(got'[d]) = del'[d].i - 1
                      /\ \A i \in 1 .. Len(got'[d]) : got'[d][i] = snap[d][i]
    BY <1>a DEF ExactWhileQuiet
  <2>1. CASE d # e
    BY <1>e, <2>1 DEF IInv, ExactWhileQuiet
  <2>2. CASE d = e
    <3>1. Len(got[e]) = k - 1 /\ \A i \in 1 .. Len(got[e]) : got[e][i] = snap[e][i]
      BY <2>2 DEF IInv, ExactWhileQuiet
    <3>2. x = snap[e][k]
      BY <1>a, <1>b, <2>2 DEF IInv, QuietPrefix
    <3> HIDE DEF x, k
    <3>3. k \in Nat
      BY <1>b
    <3> QED BY <1>f, <1>g, <2>2, <3>1, <3>2, <3>3
  <2> QED BY <2>1, <2>2
<1> QED BY <1>1, <1>2, <1>3, <1>4, <1>5, <1>6 DEF IInv

\* A call returns and leaves nothing behind.
LEMMA DeliverReturnIInv ==
  ASSUME IInv, NEW e \in Deliverers, DeliverReturn(e)
  PROVE  IInv'
<1> USE MaxLenAssumption, NilAssumption DEF Running, Locked
<1>t. /\ del \in [Deliverers -> [active : BOOLEAN, arr : Arrays \cup {NoArray},
                                 len : 0 .. MaxLen, i : 1 .. MaxLen + 1]]
      /\ got \in [Deliverers -> Seq(Convs)] /\ snap \in [Deliverers -> Seq(Convs)]
      /\ seen \in [Deliverers -> SUBSET Convs] /\ stayed \in [Deliverers -> SUBSET Convs]
      /\ quiet \in [Deliverers -> BOOLEAN]
  BY DEF IInv, TypeOK
<1>a. /\ UNCHANGED <<heap, cap, cur, unreg>>
      /\ del'[e] = Idle /\ got'[e] = << >>
      /\ \A d \in Deliverers : d # e =>
           /\ del'[d] = del[d] /\ got'[d] = got[d] /\ snap'[d] = snap[d]
           /\ seen'[d] = seen[d] /\ quiet'[d] = quiet[d]
  BY <1>t DEF DeliverReturn
<1>b. ~del'[e].active /\ del'[e].arr = NoArray /\ del'[e].len = 0 /\ del'[e].i = 1
  BY <1>a DEF Idle
<1>c. Idle \in [active : BOOLEAN, arr : Arrays \cup {NoArray}, len : 0 .. MaxLen, i : 1 .. MaxLen + 1]
  BY DEF Idle
<1>1. TypeOK'
  BY <1>t, <1>c DEF IInv, TypeOK, DeliverReturn
<1>2. Headers' /\ Compaction'
  <2>1. Headers'
    <3>1. Headers
      BY DEF IInv
    <3> QED BY <1>a, <1>b, <3>1 DEF Headers
  <2>2. Compaction'
    BY <1>a DEF IInv, Compaction
  <2> QED BY <2>1, <2>2
<1>3. CurSeen' /\ DelSeen'
  <2>1. CurSeen'
    BY <1>a, <1>b DEF IInv, CurSeen
  <2>2. DelSeen'
    BY <1>a, <1>b DEF IInv, DelSeen
  <2> QED BY <2>1, <2>2
<1>4. IdleEmpty' /\ QuietPrefix'
  BY <1>a, <1>b DEF IInv, IdleEmpty, QuietPrefix
<1>5. NoGhostDelivery' /\ ExactWhileQuiet'
  BY <1>a, <1>b DEF IInv, NoGhostDelivery, ExactWhileQuiet
<1> QED BY <1>1, <1>2, <1>3, <1>4, <1>5 DEF IInv

----------------------------------------------------------------------------
\* Every step keeps the invariant: one case per action.
LEMMA NextIInv == IInv /\ [Next]_vars => IInv'
<1> SUFFICES ASSUME IInv, [Next]_vars PROVE IInv'
  OBVIOUS
<1>1. ASSUME NEW c \in Convs, Register(c) PROVE IInv'
  BY <1>1, AppendInPlaceIInv, AppendGrowIInv DEF Register
<1>2. ASSUME NEW c \in Convs, UnregisterLock(c) PROVE IInv'
  BY <1>2, UnregisterLockIInv
<1>3. CASE UnregisterStep
  BY <1>3, UnregisterStepIInv
<1>4. CASE UnregisterUnlock
  BY <1>4, UnregisterUnlockIInv
<1>5. ASSUME NEW d \in Deliverers, Deliver(d) PROVE IInv'
  BY <1>5, DeliverIInv
<1>6. ASSUME NEW d \in Deliverers, DeliverNext(d) PROVE IInv'
  BY <1>6, DeliverNextIInv
<1>7. ASSUME NEW d \in Deliverers, DeliverReturn(d) PROVE IInv'
  BY <1>7, DeliverReturnIInv
<1>8. CASE UNCHANGED vars
  <2>1. UNCHANGED <<heap, cap, cur, unreg, del, got, snap, seen, stayed, quiet>>
    BY <1>8 DEF vars, hist
  <2>2. TypeOK' /\ Headers' /\ Compaction'
    BY <2>1 DEF IInv, TypeOK, Headers, Compaction, Locked
  <2>3. CurSeen' /\ DelSeen' /\ IdleEmpty' /\ QuietPrefix'
    BY <2>1 DEF IInv, CurSeen, DelSeen, IdleEmpty, QuietPrefix, Running, Locked
  <2>4. NoGhostDelivery' /\ ExactWhileQuiet'
    BY <2>1 DEF IInv, NoGhostDelivery, ExactWhileQuiet
  <2> QED BY <2>2, <2>3, <2>4 DEF IInv
<1> QED BY <1>1, <1>2, <1>3, <1>4, <1>5, <1>6, <1>7, <1>8 DEF Next

\* The manager's variables keep their types: slice headers stay within their
\* arrays whatever Register and Unregister do (events.go:124-148).
THEOREM TypeCorrect == Spec => []TypeOK
<1>1. IInv => TypeOK
  BY DEF IInv
<1> QED BY InitIInv, NextIInv, <1>1, PTL DEF Spec

\* No delivery reaches a conversation that was unregistered for the whole of
\* the call, although the call walks an array without a lock (events.go:151-178).
THEOREM NoGhostDeliveryHolds == Spec => []NoGhostDelivery
<1>1. IInv => NoGhostDelivery
  BY DEF IInv
<1> QED BY InitIInv, NextIInv, <1>1, PTL DEF Spec

\* Without a concurrent Unregister a delivery reaches exactly the list it copied.
THEOREM ExactWhileQuietHolds == Spec => []ExactWhileQuiet
<1>1. IInv => ExactWhileQuiet
  BY DEF IInv
<1> QED BY InitIInv, NextIInv, <1>1, PTL DEF Spec

----------------------------------------------------------------------------
(* The refinement of ConversationRegistry.  While Unregister holds cm.mu its
   slots 1 .. w are what is left of the part of the list it has read; "from"
   says where each of them came from, and the rest is still to be read. *)
CameFrom(from) ==
  /\ from \in [1 .. unreg.w -> 1 .. unreg.i - 1]
  /\ \A j, k \in 1 .. unreg.w : j < k => from[j] < from[k]
  /\ {from[j] : j \in 1 .. unreg.w} = {k \in 1 .. unreg.i - 1 : unreg.before[k] # unreg.conv}
  /\ \A j \in 1 .. unreg.w : heap[cur.arr][j] = unreg.before[from[j]]

Compacted == Locked =>
  /\ unreg.conv \in Convs
  /\ Len(unreg.before) = cur.len
  /\ \A k \in unreg.i .. cur.len : heap[cur.arr][k] = unreg.before[k]
  /\ \E from : CameFrom(from)

RInv == IInv /\ Compacted

\* The elements that the stored header shows.
CurElements ==
  /\ Elements(cur) \in Seq(Convs) /\ Len(Elements(cur)) = cur.len
  /\ \A i \in 1 .. cur.len : Elements(cur)[i] = heap[cur.arr][i]

\* They are a sequence of conversations.
LEMMA ElementsOfCur == IInv => CurElements
<1> SUFFICES ASSUME IInv PROVE CurElements
  OBVIOUS
<1>1. cur.len \in 0 .. MaxLen /\ cur.arr \in Arrays \cup {NoArray}
  BY DEF IInv, TypeOK, Header
<1>2. \A i \in 1 .. cur.len : heap[cur.arr][i] \in Convs
  BY <1>1, MaxLenAssumption DEF IInv, Headers
<1> QED BY <1>1, <1>2 DEF Elements, CurElements

\* Unregister begins with the whole list still to be read.
LEMMA LockCompacted ==
  ASSUME IInv, NEW c \in Convs, UnregisterLock(c)
  PROVE  Compacted'
<1>1. /\ UNCHANGED <<heap, cur>>
      /\ unreg'.conv = c /\ unreg'.i = 1 /\ unreg'.w = 0 /\ unreg'.before = Elements(cur)
  BY DEF UnregisterLock
<1>2. CameFrom([j \in {} |-> j])'
  <2>1. 1 .. unreg'.w = {} /\ 1 .. unreg'.i - 1 = {}
    BY <1>1
  <2> QED BY <2>1 DEF CameFrom
<1>3. Len(unreg'.before) = cur'.len /\ \A k \in unreg'.i .. cur'.len : heap'[cur'.arr][k] = unreg'.before[k]
  BY <1>1, ElementsOfCur DEF CurElements
<1> QED BY <1>1, <1>2, <1>3 DEF Compacted

\* One iteration reads the next element and, if it stays, writes it to a slot
\* that has been read already.
LEMMA StepCompacted ==
  ASSUME RInv, UnregisterStep
  PROVE  Compacted'
<1> DEFINE r == unreg.i
           w == unreg.w
           before == unreg.before
           row == heap[cur.arr]
<1>1. /\ Locked /\ r <= cur.len /\ cur' = cur
      /\ IF row[r] = unreg.conv
         THEN unreg' = [unreg EXCEPT !.i = @ + 1] /\ heap' = heap
         ELSE unreg' = [unreg EXCEPT !.i = @ + 1, !.w = @ + 1] /\ heap' = [heap EXCEPT ![cur.arr][w + 1] = row[r]]
  BY DEF UnregisterStep
<1>2. /\ cur.len \in 0 .. MaxLen /\ r \in 1 .. MaxLen + 1 /\ w \in 0 .. MaxLen /\ cur.arr \in Arrays \cup {NoArray}
      /\ unreg = [active |-> unreg.active, conv |-> unreg.conv, i |-> r, w |-> w, before |-> before]
      /\ heap \in [Arrays -> [Slots -> Convs \cup {NoConv}]]
  BY DEF RInv, IInv, TypeOK, Header
<1>3. w < r /\ r \in 1 .. cur.len /\ MaxLen \in Nat
  BY <1>1, <1>2, MaxLenAssumption DEF RInv, IInv, Compaction
<1>4. cur.arr \in Arrays
  BY <1>2, <1>3 DEF RInv, IInv, Headers
<1>5. /\ unreg.conv \in Convs /\ Len(before) = cur.len
      /\ \A k \in r .. cur.len : row[k] = before[k]
  BY <1>1 DEF RInv, Compacted
<1>6. PICK from : CameFrom(from)
  BY <1>1 DEF RInv, Compacted
<1>7. row[r] = before[r]
  BY <1>3, <1>5
<1>8. /\ from \in [1 .. w -> 1 .. r - 1]
      /\ \A j, k \in 1 .. w : j < k => from[j] < from[k]
      /\ {from[j] : j \in 1 .. w} = {k \in 1 .. r - 1 : before[k] # unreg.conv}
      /\ \A j \in 1 .. w : row[j] = before[from[j]]
  BY <1>6 DEF CameFrom
<1>9. CASE row[r] = unreg.conv
  <2>1. /\ unreg'.i = r + 1 /\ unreg'.w = w /\ unreg'.before = before /\ unreg'.conv = unreg.conv
        /\ heap' = heap
    BY <1>1, <1>2, <1>9
  <2>2. from \in [1 .. w -> 1 .. r]
    BY <1>2, <1>8
  <2>3. {k \in 1 .. r : before[k] # unreg.conv} = {k \in 1 .. r - 1 : before[k] # unreg.conv}
    <3>1. \A k : k \in 1 .. r <=> k \in 1 .. r - 1 \/ k = r
      BY <1>2
    <3>2. before[r] = unreg.conv
      BY <1>7, <1>9
    <3> HIDE DEF r, before
    <3> QED BY <3>1, <3>2
  <2>4. 1 .. unreg'.i - 1 = 1 .. r
    BY <1>2, <2>1
  <2>5. CameFrom(from)'
    BY <1>1, <1>8, <2>1, <2>2, <2>3, <2>4 DEF CameFrom
  <2>6. \A k \in unreg'.i .. cur'.len : heap'[cur'.arr][k] = unreg'.before[k]
    BY <1>1, <1>2, <1>5, <2>1
  <2> QED BY <1>1, <1>5, <2>1, <2>5, <2>6 DEF Compacted
<1>10. CASE row[r] # unreg.conv
  <2>1. /\ unreg'.i = r + 1 /\ unreg'.w = w + 1 /\ unreg'.before = before /\ unreg'.conv = unreg.conv
        /\ heap' = [heap EXCEPT ![cur.arr][w + 1] = row[r]]
    BY <1>1, <1>2, <1>10
  <2>a. w + 1 \in Slots
    BY <1>2, <1>3 DEF Slots
  <2>2. heap'[cur.arr] = [row EXCEPT ![w + 1] = row[r]] /\ row \in [Slots -> Convs \cup {NoConv}]
    BY <1>2, <1>4, <2>1
  <2> DEFINE row1 == heap'[cur.arr]
             x == row[r]
  <2>3. row1[w + 1] = x /\ \A k \in Slots : k # w + 1 => row1[k] = row[k]
    BY <2>a, <2>2
  <2> HIDE DEF row1, x, row, before, r, w
  <2>4. \A j \in 1 .. w : j \in Slots /\ j # w + 1 /\ j \in 1 .. w + 1
    BY <1>2, <1>3 DEF Slots
  <2>5. \A k \in r + 1 .. cur.len : k \in Slots /\ k # w + 1 /\ k \in r .. cur.len
    BY <1>2, <1>3 DEF Slots
  <2>6. \A j \in 1 .. w + 1 : j = w + 1 \/ (j \in 1 .. w /\ j # w + 1)
    BY <1>2
  <2>g. PICK g : g = [j \in 1 .. w + 1 |-> IF j = w + 1 THEN r ELSE from[j]]
    OBVIOUS
  <2>7. g[w + 1] = r /\ \A j \in 1 .. w : g[j] = from[j] /\ from[j] \in 1 .. r - 1
    BY <1>2, <1>8, <2>4, <2>g
  <2>8. g \in [1 .. w + 1 -> 1 .. r]
    <3>1. \A j \in 1 .. w + 1 : g[j] \in 1 .. r
      BY <1>2, <2>6, <2>7
    <3> QED BY <2>g, <3>1
  <2>9. \A j, k \in 1 .. w + 1 : j < k => g[j] < g[k]
    <3> SUFFICES ASSUME NEW j \in 1 .. w + 1, NEW k \in 1 .. w + 1, j < k PROVE g[j] < g[k]
      OBVIOUS
    <3>1. j \in 1 .. w
      BY <1>2
    <3>2. CASE k = w + 1
      BY <1>2, <2>7, <3>1, <3>2
    <3>3. CASE k \in 1 .. w
      BY <1>8, <2>7, <3>1, <3>3
    <3> QED BY <2>6, <3>2, <3>3
  <2>10. {g[j] : j \in 1 .. w + 1} = {k \in 1 .. r : before[k] # unreg.conv}
    <3>1. ASSUME NEW j \in 1 .. w + 1 PROVE g[j] \in {k \in 1 .. r : before[k] # unreg.conv}
      <4>1. CASE j = w + 1
        BY <1>2, <1>7, <1>10, <2>7, <4>1 DEF x
      <4>2. CASE j \in 1 .. w
        <5>1. from[j] \in {k \in 1 .. r - 1 : before[k] # unreg.conv}
          BY <1>8, <4>2
        <5> QED BY <1>2, <2>7, <4>2, <5>1
      <4> QED BY <2>6, <4>1, <4>2
    <3>2. ASSUME NEW k \in 1 .. r, before[k] # unreg.conv PROVE \E j \in 1 .. w + 1 : g[j] = k
      <4>1. CASE k = r
        <5>1. w + 1 \in 1 .. w + 1
          BY <1>2
        <5> QED BY <2>7, <4>1, <5>1
      <4>2. CASE k # r
        <5>1. k \in {q \in 1 .. r - 1 : before[q] # unreg.conv}
          BY <1>2, <3>2, <4>2
        <5>2. PICK j \in 1 .. w : from[j] = k
          BY <1>8, <5>1
        <5> QED BY <2>4, <2>7, <5>2
      <4> QED BY <4>1, <4>2
    <3> QED BY <3>1, <3>2
  <2>11. \A j \in 1 .. w + 1 : row1[j] = before[g[j]]
    <3> SUFFICES ASSUME NEW j \in 1 .. w + 1 PROVE row1[j] = before[g[j]]
      OBVIOUS
    <3>1. CASE j = w + 1
      BY <1>7, <2>3, <2>7, <3>1 DEF x
    <3>2. CASE j \in 1 .. w
      BY <1>8, <2>3, <2>4, <2>7, <3>2
    <3> QED BY <2>6, <3>1, <3>2
  <2>12. 1 .. unreg'.i - 1 = 1 .. r
    BY <1>2, <2>1
  <2>13. CameFrom(g)'
    BY <1>1, <2>1, <2>8, <2>9, <2>10, <2>11, <2>12 DEF CameFrom, row1
  <2>14. \A k \in unreg'.i .. cur'.len : heap'[cur'.arr][k] = unreg'.before[k]
    BY <1>1, <1>5, <2>1, <2>3, <2>5 DEF row1, row
  <2> QED BY <1>1, <1>5, <2>1, <2>13, <2>14 DEF Compacted, before
<1> QED BY <1>9, <1>10

\* No other step touches a compaction: Register, and a new delivery, wait for
\* cm.mu, and a running one writes nothing.
LEMMA NextCompacted ==
  ASSUME RInv, [Next]_vars
  PROVE  Compacted'
<1>1. ASSUME NEW c \in Convs, Register(c) PROVE Compacted'
  BY <1>1 DEF Register, Compacted, Locked
<1>2. ASSUME NEW c \in Convs, UnregisterLock(c) PROVE Compacted'
  BY <1>2, LockCompacted DEF RInv
<1>3. CASE UnregisterStep
  BY <1>3, StepCompacted
<1>4. CASE UnregisterUnlock
  BY <1>4 DEF UnregisterUnlock, Unlocked, Compacted, Locked
<1>5. CASE UNCHANGED <<heap, cur, unreg>>
  BY <1>5 DEF RInv, Compacted, CameFrom, Locked
<1>6. ASSUME NEW d \in Deliverers, Deliver(d) \/ DeliverNext(d) \/ DeliverReturn(d) PROVE Compacted'
  BY <1>5, <1>6 DEF Deliver, DeliverNext, DeliverReturn
<1>7. CASE UNCHANGED vars
  BY <1>5, <1>7 DEF vars
<1> QED BY <1>1, <1>2, <1>3, <1>4, <1>6, <1>7 DEF Next

\* The list that ConversationRegistry keeps.
RegistryList == IF Locked THEN unreg.before ELSE Elements(cur)

\* Register appends to that list, in the array at hand or in a new one.
LEMMA RegisterImplements ==
  ASSUME RInv, RInv', NEW c \in Convs, Register(c)
  PROVE  Registry!Register(c)
<1> DEFINE n == cur.len + 1
<1>1. ~Locked /\ ~Locked' /\ cur.len < MaxLen
  BY DEF Register, Locked
<1>2. /\ Elements(cur) \in Seq(Convs) /\ Len(Elements(cur)) = cur.len
      /\ \A i \in 1 .. cur.len : Elements(cur)[i] = heap[cur.arr][i]
  BY ElementsOfCur DEF RInv, CurElements
<1>3. /\ Elements(cur)' \in Seq(Convs) /\ Len(Elements(cur)') = cur'.len
      /\ \A i \in 1 .. cur'.len : Elements(cur)'[i] = heap'[cur'.arr][i]
  <2>1. RInv' => IInv'
    BY DEF RInv
  <2>2. CurElements'
    BY <2>1, ElementsOfCur, PTL
  <2> QED BY <2>2 DEF CurElements
<1>4. /\ cur.len \in 0 .. MaxLen /\ MaxLen \in Nat /\ cur.arr \in Arrays \cup {NoArray}
      /\ cur = [arr |-> cur.arr, len |-> cur.len]
      /\ heap \in [Arrays -> [Slots -> Convs \cup {NoConv}]]
  BY MaxLenAssumption DEF RInv, IInv, TypeOK, Header
<1>5. n \in Slots /\ \A i \in 1 .. cur.len : i \in Slots /\ i # n /\ i <= cur.len
  BY <1>1, <1>4 DEF Slots
<1>6. cur'.len = n /\ heap'[cur'.arr][n] = c /\ \A i \in 1 .. cur.len : heap'[cur'.arr][i] = heap[cur.arr][i]
  <2>1. CASE AppendInPlace(c)
    BY <1>4, <1>5, <2>1 DEF AppendInPlace
  <2>2. CASE AppendGrow(c)
    <3>1. PICK a \in Arrays \ Referenced :
            /\ heap' = [heap EXCEPT ![a] = [i \in Slots |->
                          IF i <= cur.len THEN heap[cur.arr][i]
                          ELSE IF i = cur.len + 1 THEN c ELSE NoConv]]
            /\ cur'  = [arr |-> a, len |-> cur.len + 1]
      BY <2>2 DEF AppendGrow
    <3>2. heap'[a] = [i \in Slots |-> IF i <= cur.len THEN heap[cur.arr][i]
                                      ELSE IF i = cur.len + 1 THEN c ELSE NoConv]
      BY <1>4, <3>1
    <3>3. ~(n <= cur.len)
      BY <1>4
    <3> QED BY <1>5, <3>1, <3>2, <3>3
  <2> QED BY <2>1, <2>2 DEF Register
<1> DEFINE old == Elements(cur)
           new == Elements(cur)'
<1>7. \A i \in 1 .. n : i = n \/ i \in 1 .. cur.len
  BY <1>4
<1>8. new[n] = c /\ \A i \in 1 .. cur.len : new[i] = old[i]
  BY <1>2, <1>3, <1>4, <1>6
<1>9. new \in Seq(Convs) /\ old \in Seq(Convs) /\ Len(new) = n /\ Len(old) = cur.len /\ cur.len \in Nat
  BY <1>2, <1>3, <1>4, <1>6
<1> HIDE DEF old, new
<1>10. Append(old, c) \in Seq(Convs) /\ Len(Append(old, c)) = n
  BY <1>9
<1>11. \A i \in 1 .. n : Append(old, c)[i] = new[i]
  BY <1>7, <1>8, <1>9
<1>12. new = Append(old, c)
  BY <1>9, <1>10, <1>11, SeqEqual
<1> QED BY <1>1, <1>2, <1>12 DEF Registry!Register, old, new

\* When Unregister stores its header, what that header shows is the list with
\* every occurrence of its conversation removed.
LEMMA UnlockImplements ==
  ASSUME RInv, RInv', UnregisterUnlock
  PROVE  Registry!Unregister(unreg.conv)
<1> DEFINE before == unreg.before
           kept == Elements(cur)'
<1>1. Locked /\ ~Locked' /\ unreg.i > cur.len /\ heap' = heap
  BY DEF UnregisterUnlock, Locked, Unlocked
<1>2. /\ cur.len \in 0 .. MaxLen /\ unreg.i \in 1 .. MaxLen + 1 /\ unreg.w \in 0 .. MaxLen
      /\ cur = [arr |-> cur.arr, len |-> cur.len] /\ MaxLen \in Nat /\ before \in Seq(Convs)
  BY MaxLenAssumption DEF RInv, IInv, TypeOK, Header
<1>3. unreg.i = cur.len + 1 /\ Len(before) = cur.len
  BY <1>1, <1>2 DEF RInv, IInv, Compaction, Compacted
<1>4. PICK from : CameFrom(from)
  BY <1>1 DEF RInv, Compacted
<1>5. /\ from \in [1 .. unreg.w -> 1 .. cur.len]
      /\ \A j, k \in 1 .. unreg.w : j < k => from[j] < from[k]
      /\ {from[j] : j \in 1 .. unreg.w} = {k \in 1 .. cur.len : before[k] # unreg.conv}
      /\ \A j \in 1 .. unreg.w : heap[cur.arr][j] = before[from[j]]
  <2>1. unreg.i - 1 = cur.len
    BY <1>2, <1>3
  <2> QED BY <1>4, <2>1 DEF CameFrom
<1>6. kept \in Seq(Convs) /\ Len(kept) = cur'.len /\ \A i \in 1 .. cur'.len : kept[i] = heap[cur'.arr][i]
  <2>1. RInv' => IInv'
    BY DEF RInv
  <2>2. CurElements'
    BY <2>1, ElementsOfCur, PTL
  <2> QED BY <1>1, <2>2 DEF CurElements
<1>7. cur'.len = unreg.w /\ (unreg.w # 0 => cur'.arr = cur.arr)
  <2>1. CASE unreg.w = 0
    BY <2>1 DEF UnregisterUnlock, NilSlice
  <2>2. CASE unreg.w # 0
    BY <1>2, <2>2 DEF UnregisterUnlock
  <2> QED BY <2>1, <2>2
<1>8. \A j \in 1 .. unreg.w : kept[j] = before[from[j]]
  <2>1. \A j \in 1 .. unreg.w : unreg.w # 0
    BY <1>2
  <2> QED BY <1>5, <1>6, <1>7, <2>1
<1>9. DOMAIN before = 1 .. cur.len /\ DOMAIN kept = 1 .. unreg.w
  BY <1>2, <1>3, <1>6, <1>7
<1> HIDE DEF before, kept
<1>10. Registry!Without(before, unreg.conv, kept)
  BY <1>5, <1>8, <1>9 DEF Registry!Without
<1> QED BY <1>1, <1>6, <1>10 DEF Registry!Unregister, before, kept

\* Every other step leaves the list that ConversationRegistry keeps as it was.
LEMMA OthersStutter ==
  ASSUME RInv, \/ \E c \in Convs : UnregisterLock(c)
               \/ UnregisterStep
               \/ \E d \in Deliverers : Deliver(d) \/ DeliverNext(d) \/ DeliverReturn(d)
               \/ UNCHANGED vars
  PROVE  RegistryList' = RegistryList
<1>1. ASSUME NEW c \in Convs, UnregisterLock(c) PROVE RegistryList' = RegistryList
  BY <1>1 DEF UnregisterLock, RegistryList, Locked
<1>2. CASE UnregisterStep
  <2>1. unreg'.active = unreg.active /\ unreg'.before = unreg.before
    BY <1>2 DEF UnregisterStep, RInv, IInv, TypeOK
  <2> QED BY <1>2, <2>1 DEF UnregisterStep, RegistryList, Locked
<1>3. CASE UNCHANGED <<heap, cur, unreg>>
  BY <1>3 DEF RegistryList, Locked, Elements
<1> QED BY <1>1, <1>2, <1>3 DEF Deliver, DeliverNext, DeliverReturn, vars

\* Every step of the manager is a step of the registry or changes nothing in it.
LEMMA StepImplements == RInv /\ RInv' /\ [Next]_vars => [Registry!Next]_RegistryList
<1> SUFFICES ASSUME RInv, RInv', [Next]_vars PROVE [Registry!Next]_RegistryList
  OBVIOUS
<1>1. ASSUME NEW c \in Convs, Register(c) PROVE Registry!Next
  BY <1>1, RegisterImplements DEF Registry!Next
<1>2. CASE UnregisterUnlock
  <2>1. unreg.conv \in Convs
    BY <1>2 DEF RInv, Compacted, UnregisterUnlock
  <2> QED BY <1>2, <2>1, UnlockImplements DEF Registry!Next
<1> QED BY <1>1, <1>2, OthersStutter DEF Next

\* The slices, the in-place compaction and the deliveries implement the list of
\* ConversationRegistry: Register adds at its end, Unregister removes every
\* occurrence and keeps the order (events.go:123-148).
THEOREM ImplementsRegistryHolds == Spec => ImplementsRegistry
<1>1. Init => RInv /\ Registry!Init
  <2>1. Init => Elements(cur) = << >> /\ ~Locked
    BY DEF Init, NilSlice, Unlocked, Locked, Elements
  <2> QED BY <2>1, InitIInv DEF RInv, Compacted, Registry!Init
<1>2. RInv /\ [Next]_vars => RInv'
  BY NextIInv, NextCompacted DEF RInv
<1>3. RInv /\ RInv' /\ [Next]_vars => [Registry!Next]_(IF Locked THEN unreg.before ELSE Elements(cur))
  BY StepImplements DEF RegistryList
<1> QED BY <1>1, <1>2, <1>3, PTL DEF Spec, ImplementsRegistry, Registry!Spec

=============================================================================
