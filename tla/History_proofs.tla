--------------------------- MODULE History_proofs ---------------------------
(***************************************************************************)
(* Proofs about History for chats, pages and limits of any size.  The      *)
(* induction knows, while a call runs, what lies on either side of its     *)
(* offset: everything given is at or above it, everything still to be      *)
(* given is below it.                                                      *)
(***************************************************************************)
EXTENDS MCHistory, FiniteSetTheorems, SequenceTheorems, WellFoundedInduction, TLAPS

USE MaxIdAssumption, BatchSizeAssumption, LimitsAssumption

Active == call.pc # "idle"
JSONL  == call.how = "ExportHistoryJSONL"

\* What each place of a call says about the sequences it works on.
Places ==
  /\ call.pc = "serve" => call.how = "IterMessages" /\ buf # << >> /\ call.offset > 0
  /\ call.pc \in {"flush", "save"} => got # << >>
  /\ call.pc \in {"flush", "save", "finish"} => JSONL
  /\ call.pc \in {"fetch", "save"} => buf = << >>
  /\ ~JSONL => call.minID = 0
  /\ call.how = "StreamHistoryBatches" => call.limit = 0
  /\ Active => (call.minID = 0 <=> call.total = 0)
  /\ call.pc \in {"fetch", "serve"} => ~call.last

\* An export that was begun anew has its lines in the file and in the buffer;
\* one that was resumed asks for ids between last and last + 1.
Lines ==
  Active /\ JSONL =>
    IF call.minID = 0 THEN got = file \o buf
    ELSE got = << >> /\ buf = << >> /\ call.offset = call.minID + 1

\* The offset divides what has been given from what is still to come.
Divided ==
  /\ Active => \A i \in 1 .. Len(got) : got[i] >= call.offset /\ call.offset > 0
  /\ call.how = "IterMessages" =>
       /\ Descending(buf)
       /\ \A i \in 1 .. Len(buf) : buf[i] >= call.offset
       /\ \A i \in 1 .. Len(got), j \in 1 .. Len(buf) : got[i] > buf[j]

Below ==
  (call.limit > 0 /\ call.pc \in {"fetch", "serve", "flush", "save"}) => Len(got) < call.limit

\* A message that is there from the beginning of the call has been given, is
\* in the buffer, or lies below the offset.
Pending ==
  /\ \A m \in present : m <= Len(chat) /\ chat[m] = "message"
  /\ (Active /\ Whole /\ call.minID = 0) =>
       \A m \in present :
         \/ m \in Elements(got)
         \/ m \in Elements(buf)
         \/ call.pc # "finish" /\ ~call.last /\ (call.offset = 0 \/ m < call.offset)
         \/ call.pc = "finish" /\ call.limit > 0 /\ Len(got) >= call.limit

\* A call that runs has no result yet.
Finished == Active => call.result = "none"

IInv == /\ TypeOK /\ Places /\ Lines /\ Divided /\ Below /\ Pending
        /\ Finished
        /\ NewestFirst /\ StateBehindFile /\ LimitRespected /\ NothingSkipped

----------------------------------------------------------------------------
(* Sequences. *)

\* What a concatenation holds at each place.
LEMMA Concatenation ==
  ASSUME NEW S, NEW a \in Seq(S), NEW b \in Seq(S)
  PROVE  /\ a \o b \in Seq(S)
         /\ Len(a \o b) = Len(a) + Len(b)
         /\ \A i \in 1 .. Len(a) : (a \o b)[i] = a[i]
         /\ \A i \in 1 .. Len(b) : (a \o b)[Len(a) + i] = b[i]
         /\ \A i \in Len(a) + 1 .. Len(a) + Len(b) : (a \o b)[i] = b[i - Len(a)]
  OBVIOUS

\* Lengths, and the sequence of length zero.
LEMMA Empty ==
  ASSUME NEW S, NEW s \in Seq(S)
  PROVE  Len(s) \in Nat /\ (Len(s) = 0 <=> s = << >>)
  OBVIOUS

\* The first n elements of a sequence.
LEMMA Prefixes ==
  ASSUME NEW S, NEW s \in Seq(S), NEW n \in 0 .. Len(s)
  PROVE  /\ SubSeq(s, 1, n) \in Seq(S)
         /\ Len(SubSeq(s, 1, n)) = n
         /\ \A i \in 1 .. n : SubSeq(s, 1, n)[i] = s[i]
  OBVIOUS

\* A page is a short descending sequence of ids.
LEMMA PageIsSequence ==
  ASSUME NEW p \in Pages
  PROVE  p \in Seq(1 .. MaxId) /\ Len(p) <= BatchSize /\ Descending(p)
  <1>1. PICK n \in 0 .. BatchSize : p \in [1 .. n -> 1 .. MaxId]
    BY DEF Pages
  <1>2. p \in Seq(1 .. MaxId) /\ Len(p) = n
    BY <1>1
  <1> QED
    BY <1>1, <1>2 DEF Pages

\* Descending sequences, one above the other, make a descending sequence.
LEMMA JoinDescending ==
  ASSUME NEW a \in Seq(Nat), NEW b \in Seq(Nat), Descending(a), Descending(b),
         \A i \in 1 .. Len(a), j \in 1 .. Len(b) : a[i] > b[j]
  PROVE  Descending(a \o b)
  <1> SUFFICES ASSUME NEW i \in 1 .. Len(a \o b), NEW j \in 1 .. Len(a \o b), i < j
               PROVE  (a \o b)[i] > (a \o b)[j]
    BY DEF Descending
  <1>1. CASE j <= Len(a)
    BY <1>1, Concatenation DEF Descending
  <1>2. CASE i <= Len(a) /\ j > Len(a)
    BY <1>2, Concatenation
  <1>3. CASE i > Len(a)
    <2>1. /\ i - Len(a) \in 1 .. Len(b) /\ j - Len(a) \in 1 .. Len(b)
          /\ (a \o b)[i] = b[i - Len(a)] /\ (a \o b)[j] = b[j - Len(a)]
      BY <1>3, Concatenation
    <2>2. i - Len(a) < j - Len(a)
      OBVIOUS
    <2> QED
      BY <2>1, <2>2 DEF Descending
  <1>4. i \in Nat /\ j \in Nat /\ Len(a) \in Nat
    OBVIOUS
  <1> QED
    BY <1>1, <1>2, <1>3, <1>4

\* A prefix of a descending sequence descends.
LEMMA PrefixDescending ==
  ASSUME NEW s \in Seq(Nat), NEW n \in 0 .. Len(s), Descending(s)
  PROVE  Descending(SubSeq(s, 1, n))
  BY Prefixes DEF Descending

\* The elements of a concatenation.
LEMMA JoinElements ==
  ASSUME NEW S, NEW a \in Seq(S), NEW b \in Seq(S)
  PROVE  Elements(a \o b) = Elements(a) \cup Elements(b)
  <1>1. ASSUME NEW x \in Elements(a) PROVE x \in Elements(a \o b)
    BY Concatenation DEF Elements
  <1>2. ASSUME NEW x \in Elements(b) PROVE x \in Elements(a \o b)
    <2>1. PICK i \in 1 .. Len(b) : x = b[i]
      BY DEF Elements
    <2>2. Len(a) + i \in 1 .. Len(a \o b) /\ x = (a \o b)[Len(a) + i]
      BY <2>1, Concatenation
    <2> QED
      BY <2>2 DEF Elements
  <1>3. ASSUME NEW x \in Elements(a \o b) PROVE x \in Elements(a) \cup Elements(b)
    <2>1. PICK i \in 1 .. Len(a \o b) : x = (a \o b)[i]
      BY DEF Elements
    <2>2. CASE i <= Len(a)
      BY <2>1, <2>2, Concatenation DEF Elements
    <2>3. CASE i > Len(a)
      <3>1. i - Len(a) \in 1 .. Len(b) /\ x = b[i - Len(a)]
        BY <2>1, <2>3, Concatenation
      <3> QED
        BY <3>1 DEF Elements
    <2> QED
      BY <2>1, <2>2, <2>3, Concatenation
  <1> QED
    BY <1>1, <1>2, <1>3

\* The elements of a prefix.
LEMMA PrefixElements ==
  ASSUME NEW S, NEW s \in Seq(S), NEW n \in 0 .. Len(s)
  PROVE  Elements(SubSeq(s, 1, n)) = {s[i] : i \in 1 .. n}
  BY Prefixes DEF Elements

----------------------------------------------------------------------------
(* Pages and batches. *)

\* There is room for at least one message, and a page is no larger than a batch.
LEMMA RoomPositive ==
  ASSUME TypeOK
  PROVE  Room \in Nat \ {0} /\ PageSize \in Nat \ {0} /\ PageSize <= BatchSize
  <1>1. call.limit \in Nat /\ call.total \in Nat /\ Len(got) \in Nat
    BY DEF TypeOK
  <1>2. Room \in Nat \ {0}
    BY <1>1 DEF Room
  <1> QED
    BY <1>2 DEF PageSize

\* A batch is cut only where the limit is reached.
LEMMA CutIsPrefix ==
  ASSUME TypeOK, NEW n \in Nat
  PROVE  /\ Cut(n) \in 0 .. n
         /\ n > 0 => Cut(n) > 0
         /\ Cut(n) < n => LimitReached(n) /\ Cut(n) = Room
  BY RoomPositive DEF Cut, LimitReached

\* What a batch that is not empty looks like.
LEMMA BatchShape ==
  ASSUME TypeOK, NEW p \in Pages, NEW b \in Pages, IsPage(p, PageSize), Batch(p, b), b # << >>
  PROVE  /\ b \in Seq(1 .. MaxId) /\ b \in Seq(Nat) /\ Len(b) \in 1 .. BatchSize /\ Descending(b)
         /\ Cursor(b) \in 1 .. MaxId /\ (call.offset = 0 \/ Cursor(b) < call.offset)
         /\ \A i \in 1 .. Len(b) : b[i] >= Cursor(b)
         /\ \A i \in 1 .. Len(b) : /\ b[i] \in 1 .. MaxId
                                   /\ call.offset = 0 \/ b[i] < call.offset
                                   /\ b[i] > call.minID
  <1>1. b \in Seq(1 .. MaxId) /\ Len(b) <= BatchSize /\ Descending(b)
    BY PageIsSequence
  <1>2. Len(b) \in 1 .. BatchSize /\ b \in Seq(Nat)
    BY <1>1
  <1>3. \A i \in 1 .. Len(b) : b[i] \in 1 .. MaxId
    BY <1>1
  <1>4. Cursor(b) \in 1 .. MaxId /\ \A i \in 1 .. Len(b) : b[i] >= Cursor(b)
    <2>1. \A i \in 1 .. Len(b) : i < Len(b) => b[i] > b[Len(b)]
      BY <1>1, <1>2 DEF Descending
    <2> QED
      BY <2>1, <1>2, <1>3 DEF Cursor
  <1>5. \A i \in 1 .. Len(b) : b[i] \in Visible
    <2>1. \A i \in 1 .. Len(b) : b[i] \in Elements(b)
      BY DEF Elements
    <2>2. Elements(b) \subseteq Elements(p)
      BY DEF Batch
    <2> QED
      BY <2>1, <2>2 DEF IsPage
  <1>6. \A i \in 1 .. Len(b) : /\ call.offset = 0 \/ b[i] < call.offset
                               /\ b[i] > call.minID
    BY <1>5 DEF Visible
  <1>7. call.offset = 0 \/ Cursor(b) < call.offset
    BY <1>2, <1>6 DEF Cursor
  <1> QED
    BY <1>1, <1>2, <1>3, <1>4, <1>6, <1>7

\* A message below the offset is in the batch, or below all of a full page.
LEMMA BatchCovers ==
  ASSUME TypeOK, NEW p \in Pages, NEW b \in Pages, IsPage(p, PageSize), Batch(p, b),
         call.minID = 0,
         NEW m \in 1 .. Len(chat), chat[m] = "message", call.offset = 0 \/ m < call.offset
  PROVE  \/ m \in Elements(b)
         \/ /\ m \notin Elements(b) /\ Len(p) = PageSize
            /\ \A i \in 1 .. Len(b) : m < b[i]
  <1>1. m \in Visible
    BY DEF Visible, TypeOK
  <1>2. CASE m \in Elements(p)
    BY <1>2 DEF Batch
  <1>3. CASE m \notin Elements(p)
    <2>1. Len(p) = PageSize /\ \A i \in 1 .. Len(p) : m < p[i]
      BY <1>1, <1>3 DEF IsPage
    <2>2. \A x \in Elements(p) : m < x
      BY <2>1 DEF Elements
    <2>3. \A x \in Elements(b) : m < x /\ x \in Elements(p)
      BY <2>2 DEF Batch
    <2>4. \A i \in 1 .. Len(b) : m < b[i]
      BY <2>3 DEF Elements
    <2> QED
      BY <2>1, <2>3, <2>4, <1>3
  <1> QED
    BY <1>2, <1>3

\* What giving the first n messages of a batch does to what has been given.
LEMMA Give ==
  ASSUME TypeOK, Divided, Active, Descending(got),
         NEW p \in Pages, NEW b \in Pages, IsPage(p, PageSize), Batch(p, b), b # << >>,
         NEW n \in 0 .. Len(b)
  PROVE  LET g == got \o SubSeq(b, 1, n)
         IN  /\ g \in Seq(1 .. MaxId) /\ Len(g) = Len(got) + n /\ Descending(g)
             /\ \A i \in 1 .. Len(g) : g[i] >= Cursor(b)
             /\ Elements(g) = Elements(got) \cup {b[i] : i \in 1 .. n}
  <1>1. PICK t : t = SubSeq(b, 1, n)
    OBVIOUS
  <1>2. /\ b \in Seq(1 .. MaxId) /\ b \in Seq(Nat) /\ Descending(b) /\ Cursor(b) \in 1 .. MaxId
        /\ call.offset = 0 \/ Cursor(b) < call.offset
        /\ \A i \in 1 .. Len(b) : /\ b[i] \in 1 .. MaxId /\ b[i] >= Cursor(b)
                                  /\ call.offset = 0 \/ b[i] < call.offset
    BY BatchShape
  <1>3. /\ t \in Seq(1 .. MaxId) /\ t \in Seq(Nat) /\ Len(t) = n /\ Descending(t)
        /\ \A i \in 1 .. n : t[i] = b[i]
    BY <1>1, <1>2, Prefixes, PrefixDescending
  <1>4. \A i \in 1 .. Len(t) : /\ t[i] \in 1 .. MaxId /\ t[i] >= Cursor(b)
                               /\ call.offset = 0 \/ t[i] < call.offset
    <2> SUFFICES ASSUME NEW i \in 1 .. Len(t)
                 PROVE  i \in 1 .. Len(b) /\ t[i] = b[i]
      BY <1>2
    <2> QED
      BY <1>2, <1>3
  <1>5. got \in Seq(1 .. MaxId) /\ got \in Seq(Nat) /\ call.offset \in Nat
    BY DEF TypeOK
  <1>6. \A i \in 1 .. Len(got) : got[i] \in 1 .. MaxId /\ got[i] >= call.offset /\ call.offset > 0
    BY <1>5 DEF Divided
  <1>7. \A i \in 1 .. Len(got) : got[i] \in Nat /\ got[i] >= Cursor(b)
    <2> SUFFICES ASSUME NEW i \in 1 .. Len(got) PROVE got[i] \in Nat /\ got[i] >= Cursor(b)
      OBVIOUS
    <2>1. got[i] \in Nat /\ got[i] >= call.offset /\ call.offset > 0
      BY <1>6
    <2>2. Cursor(b) \in Nat /\ Cursor(b) < call.offset
      BY <1>2, <2>1, <1>5
    <2> QED
      BY <2>1, <2>2, <1>5
  <1>8. \A i \in 1 .. Len(got), j \in 1 .. Len(t) : got[i] > t[j]
    <2> SUFFICES ASSUME NEW i \in 1 .. Len(got), NEW j \in 1 .. Len(t) PROVE got[i] > t[j]
      OBVIOUS
    <2>1. got[i] \in Nat /\ got[i] >= call.offset /\ call.offset > 0
      BY <1>6
    <2>2. t[j] \in Nat /\ (call.offset = 0 \/ t[j] < call.offset)
      BY <1>4
    <2> QED
      BY <2>1, <2>2, <1>5
  <1>9. Descending(got \o t)
    BY <1>3, <1>5, <1>8, JoinDescending
  <1>10. got \o t \in Seq(1 .. MaxId) /\ Len(got \o t) = Len(got) + n
    <2>1. got \in Seq(1 .. MaxId) /\ t \in Seq(1 .. MaxId) /\ Len(t) = n
      BY <1>3, <1>5
    <2> QED
      BY <2>1, Concatenation
  <1>11. Elements(got \o t) = Elements(got) \cup {b[i] : i \in 1 .. n}
    <2>1. Elements(got \o t) = Elements(got) \cup Elements(t)
      BY <1>3, <1>5, JoinElements
    <2>2. Elements(t) = {b[i] : i \in 1 .. n}
      BY <1>1, <1>2, PrefixElements
    <2> QED
      BY <2>1, <2>2
  <1>12. \A i \in 1 .. Len(got \o t) : (got \o t)[i] >= Cursor(b)
    <2> SUFFICES ASSUME NEW i \in 1 .. Len(got \o t) PROVE (got \o t)[i] >= Cursor(b)
      OBVIOUS
    <2>1. CASE i <= Len(got)
      BY <2>1, <1>5, <1>7
    <2>2. CASE i > Len(got)
      <3>1. i - Len(got) \in 1 .. n /\ (got \o t)[i] = t[i - Len(got)]
        BY <2>2, <1>3, <1>5, <1>10
      <3> QED
        BY <3>1, <1>3, <1>4
    <2> QED
      BY <2>1, <2>2, <1>5, <1>10
  <1> QED
    BY <1>1, <1>9, <1>10, <1>11, <1>12

----------------------------------------------------------------------------
(* Types and places. *)

Record == [pc : {"idle", "fetch", "serve", "flush", "save", "finish"},
           how : Readers \cup {"ExportHistoryJSONL"}, limit : Nat, minDate : Nat,
           offset : 0 .. MaxId + 1, minID : 0 .. MaxId, total : Nat, last : BOOLEAN,
           result : {"none", "ok", "error", "stopped", "crash"}]

Sequences == /\ got \in Seq(1 .. MaxId) /\ buf \in Seq(1 .. MaxId) /\ file \in Seq(0 .. MaxId)
             /\ state \in [last : 1 .. MaxId, total : Nat] \cup {NoState}

Rest == /\ chat \in Seq({"message", "service", "gone"}) /\ Len(chat) <= MaxId
        /\ present \subseteq 1 .. MaxId
        /\ pages \subseteq {"short", "empty"}

\* The type invariant in the parts that the steps change.
LEMMA TypeParts == TypeOK <=> call \in Record /\ Sequences /\ Rest
  BY DEF TypeOK, Record, Sequences, Rest

\* The chat and the histories keep their types whatever the step is.
LEMMA RestStep ==
  ASSUME TypeOK, Next
  PROVE  Rest'
  <1> USE DEF TypeOK, Rest
  <1>1. \A p, b \in Pages : Batch(p, b) => pages' \subseteq {"short", "empty"}
    BY DEF Batch
  <1>2. ASSUME NEW option, Begin(option) \/ BeginJSONL(option) PROVE Rest'
    BY <1>2 DEF Begin, BeginJSONL
  <1>3. ASSUME NEW p \in Pages, NEW b \in Pages, Read(p, b) PROVE Rest'
    BY <1>1, <1>3 DEF Read, GetNothing, ExportHistory, IterHistoryBatches,
                      StreamHistoryBatches, FetchBatch, WriteLines
  <1>4. CASE NextMessage \/ Flush \/ GetFails \/ Abandon
    BY <1>4 DEF NextMessage, Flush, GetFails, Abandon
  <1>5. ASSUME NEW done \in BOOLEAN, Save(done) \/ Finish(done) PROVE Rest'
    BY <1>5 DEF Save, Finish
  <1>6. ASSUME NEW n \in 0 .. Len(buf), NEW torn \in BOOLEAN, WriteFails(n, torn) \/ Crash(n, torn)
        PROVE  Rest'
    BY <1>6 DEF WriteFails, Crash
  <1>7. ASSUME NEW sort \in {"message", "service"}, NewMessage(sort) PROVE Rest'
    <2>1. chat' \in Seq({"message", "service", "gone"}) /\ Len(chat') = Len(chat) + 1
      BY <1>7 DEF NewMessage
    <2> QED
      BY <2>1, <1>7 DEF NewMessage
  <1>8. ASSUME NEW m \in 1 .. Len(chat), DeleteMessage(m) PROVE Rest'
    BY <1>8 DEF DeleteMessage
  <1> QED
    BY <1>2, <1>3, <1>4, <1>5, <1>6, <1>7, <1>8 DEF Next, Step, Fault

----------------------------------------------------------------------------
(* The two ways in which a step leaves the record of the call. *)

Kept == /\ call'.how = call.how /\ call'.limit = call.limit /\ call'.minDate = call.minDate
        /\ call'.minID = call.minID /\ call'.total = call.total

\* A call that returns keeps its parameters.
LEMMA ReturnKeeps ==
  ASSUME call \in Record, NEW r \in {"ok", "error", "stopped", "crash"}, Return(r)
  PROVE  call' \in Record /\ Kept /\ call'.pc = "idle" /\ call'.result = r
  BY DEF Return, Record, Kept

\* Going on behind a page moves the cursor and nothing else of the call.
LEMMA AdvanceKeeps ==
  ASSUME call \in Record, NEW b, Cursor(b) \in 1 .. MaxId, NEW pc \in {"fetch", "serve"},
         Advance(b, pc)
  PROVE  /\ call' \in Record /\ Kept
         /\ call'.pc = pc /\ call'.offset = Cursor(b) /\ call'.result = call.result
         /\ call'.last = call.last
  <1>1. call' = [call EXCEPT !.pc = pc, !.offset = Cursor(b)]
    BY DEF Advance
  <1>2. Cursor(b) \in 0 .. MaxId + 1 /\ pc \in {"idle", "fetch", "serve", "flush", "save", "finish"}
    OBVIOUS
  <1>3. call' \in Record
    BY <1>1, <1>2 DEF Record
  <1> QED
    BY <1>1, <1>3 DEF Record, Kept

\* One page given by a reader that keeps nothing in a buffer: the first n
\* messages of the batch, all of them if the reader goes on.
Gives(p, b, n) ==
  /\ call.pc = "fetch"
  /\ call.how \in {"ExportHistory", "IterHistoryBatches", "StreamHistoryBatches"}
  /\ IsPage(p, PageSize) /\ Batch(p, b) /\ b # << >>
  /\ got' = got \o SubSeq(b, 1, n)
  /\ UNCHANGED <<chat, buf, output, present>>
  /\ call.how = "ExportHistory" /\ call.limit > 0 => n <= Room
  /\ \/ Advance(b, "fetch") /\ n = Len(b) /\ ~LimitReached(n)
     \/ Return("error") \/ Return("stopped")
     \/ /\ Return("ok")
        /\ \/ LimitReached(n)
           \/ n < Len(b) /\ \A i \in n + 1 .. Len(b) : b[i] < call.minDate
           \/ n = Len(b) /\ Len(b) < BatchSize

\* What a reader gives of a batch, with the cursor behind it.
LEMMA ReadersGive ==
  ASSUME IInv, call.pc = "fetch", NEW p \in Pages, NEW b \in Pages, IsPage(p, PageSize),
         \/ \E k \in 0 .. Len(b) : \/ ExportHistory(p, b, k)
                                   \/ \E more \in BOOLEAN : IterHistoryBatches(p, b, k, more)
         \/ \E sent \in BOOLEAN : StreamHistoryBatches(p, b, sent)
  PROVE  \E n \in 0 .. Len(b) : Gives(p, b, n)
  <1> USE DEF Gives
  <1>0. b \in Seq(1 .. MaxId) /\ Len(b) \in Nat /\ Len(b) <= BatchSize
    BY PageIsSequence
  <1>1. ASSUME NEW k \in 0 .. Len(b), Young(b, k)
        PROVE  k < Len(b) => \A i \in k + 1 .. Len(b) : b[i] < call.minDate
    <2>1. \A i \in k + 1 .. Len(b) : i \in 1 .. Len(b) /\ ~(i <= k) /\ b[i] \in Nat
      BY <1>0
    <2>2. call.minDate \in Nat
      BY DEF IInv, TypeOK
    <2> QED
      BY <1>1, <2>1, <2>2 DEF Young
  <1>2. ASSUME NEW k \in 0 .. Len(b), ExportHistory(p, b, k)
        PROVE  Gives(p, b, Cut(k)) /\ Cut(k) \in 0 .. Len(b)
    <2>1. Cut(k) \in 0 .. Len(b) /\ Room \in Nat
      <3>1. Cut(k) \in 0 .. k
        BY <1>0, CutIsPrefix DEF IInv
      <3> QED
        BY <1>0, <3>1, RoomPositive DEF IInv
    <2>2. call.limit > 0 => Cut(k) <= Room
      BY <1>2, RoomPositive DEF IInv, ExportHistory, Cut, Capped, LimitReached
    <2>3. LimitReached(k) => LimitReached(Cut(k))
      BY <1>2, RoomPositive DEF IInv, ExportHistory, Cut, Capped, LimitReached
    <2>4. ~LimitReached(k) => Cut(k) = k
      BY DEF Cut
    <2> QED
      BY <1>0, <1>1, <1>2, <2>1, <2>2, <2>3, <2>4 DEF ExportHistory
  <1>3. ASSUME NEW k \in 0 .. Len(b), NEW more \in BOOLEAN, IterHistoryBatches(p, b, k, more)
        PROVE  Gives(p, b, k)
    BY <1>0, <1>1, <1>3 DEF IterHistoryBatches
  <1>4. ASSUME NEW sent \in BOOLEAN, StreamHistoryBatches(p, b, sent)
        PROVE  Gives(p, b, IF sent THEN Len(b) ELSE 0)
    <2>1. SubSeq(b, 1, Len(b)) = b /\ got \o SubSeq(b, 1, 0) = got
      BY <1>0 DEF IInv, TypeOK
    <2>2. ~LimitReached(Len(b))
      BY <1>4 DEF IInv, Places, StreamHistoryBatches, LimitReached
    <2>3. CASE sent
      BY <1>0, <1>4, <2>1, <2>2, <2>3 DEF StreamHistoryBatches
    <2>4. CASE ~sent
      BY <1>0, <1>4, <2>1, <2>4 DEF StreamHistoryBatches
    <2> QED
      BY <2>3, <2>4
  <1> HIDE DEF Gives
  <1> QED
    <2>1. CASE \E k \in 0 .. Len(b) : ExportHistory(p, b, k)
      BY <2>1, <1>2
    <2>2. CASE \E k \in 0 .. Len(b), more \in BOOLEAN : IterHistoryBatches(p, b, k, more)
      BY <2>2, <1>3
    <2>3. CASE \E sent \in BOOLEAN : StreamHistoryBatches(p, b, sent)
      BY <2>3, <1>0, <1>4
    <2> QED
      BY <2>1, <2>2, <2>3

\* Giving a batch keeps the history divided at the cursor.
LEMMA GivesKeeps ==
  ASSUME IInv, NEW p \in Pages, NEW b \in Pages, NEW n \in 0 .. Len(b), Gives(p, b, n), Rest'
  PROVE  IInv'
  <1>0. /\ TypeOK /\ Active /\ ~JSONL /\ call.how # "IterMessages" /\ buf = << >>
        /\ call \in Record /\ call.minID = 0 /\ call.total = 0 /\ ~call.last
    BY TypeParts DEF Gives, IInv, Places, Active, JSONL
  <1>1. /\ b \in Seq(1 .. MaxId) /\ Len(b) \in 1 .. BatchSize /\ n \in Nat /\ n <= Len(b)
        /\ Cursor(b) \in 1 .. MaxId /\ \A i \in 1 .. Len(b) : b[i] \in 1 .. MaxId
    BY <1>0, BatchShape DEF Gives
  <1>2. /\ got' \in Seq(1 .. MaxId) /\ Len(got') = Len(got) + n /\ Descending(got')
        /\ \A i \in 1 .. Len(got') : got'[i] >= Cursor(b)
        /\ Elements(got') = Elements(got) \cup {b[i] : i \in 1 .. n}
    <2>1. got' = got \o SubSeq(b, 1, n) /\ Descending(got) /\ Divided
      BY DEF Gives, IInv, NewestFirst
    <2> QED
      BY <2>1, <1>0, Give DEF Gives
  <1>3. Room = call.limit - Len(got) \/ call.limit = 0
    BY <1>0 DEF IInv, Below, Room, Gives, TypeOK
  <1>4. /\ call' \in Record /\ Kept
        /\ \/ /\ call'.pc = "fetch" /\ ~call'.last /\ call'.offset = Cursor(b) /\ call'.result = call.result
              /\ n = Len(b) /\ ~LimitReached(n)
           \/ /\ call'.pc = "idle" /\ call'.result \in {"ok", "error", "stopped"}
              /\ call'.result = "ok" => \/ LimitReached(n)
                                        \/ n < Len(b) /\ \A i \in n + 1 .. Len(b) : b[i] < call.minDate
                                        \/ n = Len(b) /\ Len(b) < BatchSize
    BY <1>0, <1>1, ReturnKeeps, AdvanceKeeps DEF Gives
  <1>5. TypeOK'
    <2>1. Sequences'
      BY <1>0, <1>2, TypeParts DEF Gives, output, Sequences
    <2> QED
      BY <1>4, <2>1 DEF TypeOK, Record, Rest, Sequences
  <1>6. Places' /\ Lines'
    <2>1. call'.how # "ExportHistoryJSONL" /\ buf' = << >>
      BY <1>0, <1>4 DEF Gives, Kept, JSONL
    <2>2. call'.how = "StreamHistoryBatches" => call'.limit = 0
      BY <1>4 DEF IInv, Places, Kept
    <2> QED
      BY <1>0, <1>4, <2>1, <2>2 DEF Places, Lines, Kept, Active, JSONL
  <1>7. Divided'
    BY <1>0, <1>1, <1>2, <1>4 DEF Divided, Kept, Active
  <1>8. Below'
    BY <1>0, <1>2, <1>3, <1>4 DEF Below, LimitReached, Kept, Record
  <1>9. ASSUME Whole', NEW m \in present
        PROVE  /\ m \in Nat
               /\ \/ m \in Elements(got)
                  \/ \E i \in 1 .. Len(b) : m = b[i]
                  \/ Len(b) = BatchSize /\ \A i \in 1 .. Len(b) : m < b[i]
    <2>1. Whole /\ Len(b) = Len(p)
      BY <1>0, <1>4, <1>9 DEF Whole, Batch, Gives, Kept
    <2>2. m \in 1 .. Len(chat) /\ chat[m] = "message" /\ m \in Nat
      BY DEF IInv, TypeOK, Pending
    <2>3. \/ m \in Elements(got)
          \/ m \in Elements(buf)
          \/ call.offset = 0 \/ m < call.offset
      <3>1. call.pc = "fetch"
        BY DEF Gives
      <3> QED
        BY <1>0, <2>1, <3>1 DEF IInv, Pending
    <2>4. m \notin Elements(buf)
      BY <1>0 DEF Elements
    <2>5. PageSize = BatchSize
      BY <1>0 DEF PageSize
    <2>6. CASE m \in Elements(got)
      BY <2>2, <2>6
    <2>7. CASE call.offset = 0 \/ m < call.offset
      <3>1. \/ m \in Elements(b)
            \/ Len(p) = PageSize /\ \A i \in 1 .. Len(b) : m < b[i]
        BY <1>0, <2>2, <2>7, BatchCovers DEF Gives
      <3> QED
        BY <3>1, <2>1, <2>2, <2>5 DEF Elements
    <2> QED
      BY <2>3, <2>4, <2>6, <2>7
  <1>10. Pending'
    <2>1. \A m \in present' : m <= Len(chat') /\ chat'[m] = "message"
      BY DEF IInv, Pending, Gives
    <2>2. ASSUME Active', Whole', NEW m \in present
          PROVE  m \in Elements(got') \/ (call'.pc # "finish" /\ ~call'.last /\ m < call'.offset)
      <3>1. call'.pc = "fetch" /\ ~call'.last /\ n = Len(b) /\ call'.offset = b[Len(b)]
        BY <1>4, <2>2 DEF Active, Cursor
      <3> QED
        BY <1>1, <1>2, <1>9, <2>2, <3>1
    <2> QED
      BY <2>1, <2>2 DEF Pending, Gives
  <1>11. NewestFirst' /\ StateBehindFile'
    BY <1>2 DEF Gives, output, IInv, NewestFirst, StateBehindFile
  <1>12. LimitRespected'
    <2>1. CASE call.limit = 0
      BY <2>1, <1>4 DEF LimitRespected, Kept
    <2>2. CASE call.limit > 0
      <3>1. Len(got) < call.limit /\ Room = call.limit - Len(got)
        BY <1>0, <1>3, <2>2 DEF IInv, Below, Gives
      <3>2. call.how # "StreamHistoryBatches"
        BY <2>2 DEF IInv, Places
      <3>3. CASE call.how = "ExportHistory"
        BY <1>0, <1>1, <1>2, <1>4, <2>2, <3>1, <3>3 DEF Gives, LimitRespected, Kept, Record
      <3>4. CASE call.how = "IterHistoryBatches"
        <4>1. n \in Nat /\ n <= BatchSize /\ Len(got') = Len(got) + n /\ Len(got) \in Nat
          BY <1>0, <1>1, <1>2
        <4>2. Len(got') < call.limit + BatchSize
          BY <3>1, <4>1, <1>0, BatchSizeAssumption DEF Record
        <4> QED
          BY <1>4, <3>4, <4>2 DEF LimitRespected, Kept
      <3> QED
        BY <3>2, <3>3, <3>4 DEF Gives
    <2> QED
      BY <1>0, <2>1, <2>2 DEF Record
  <1>13. NothingSkipped'
    <2> SUFFICES ASSUME call'.result = "ok", Whole', call.limit = 0 \/ Len(got') < call.limit,
                        NEW m \in present, m >= call.minDate
                 PROVE  m \in Elements(got')
      BY <1>0, <1>4 DEF NothingSkipped, Given, Kept, JSONL, Gives
    <2>1. call'.pc = "idle"
      BY <1>0, <1>4 DEF IInv, Finished, Active
    <2>2. ~LimitReached(n)
      BY <1>0, <1>1, <1>2, <1>3 DEF LimitReached, Record
    <2>3. \/ n < Len(b) /\ \A i \in n + 1 .. Len(b) : b[i] < call.minDate
          \/ n = Len(b) /\ Len(b) < BatchSize
      BY <1>4, <2>1, <2>2
    <2>4. call.minDate \in Nat
      BY <1>0 DEF Record
    <2>5. CASE \E i \in 1 .. Len(b) : m = b[i]
      <3>1. PICK i \in 1 .. Len(b) : m = b[i]
        BY <2>5
      <3>2. i \in 1 .. n
        BY <1>1, <2>3, <2>4, <3>1
      <3> QED
        BY <1>2, <3>1, <3>2
    <2>6. CASE Len(b) = BatchSize /\ \A i \in 1 .. Len(b) : m < b[i]
      <3>1. b[Len(b)] < call.minDate /\ m < b[Len(b)] /\ b[Len(b)] \in Nat
        BY <1>1, <2>3, <2>6
      <3> QED
        BY <1>9, <2>4, <3>1
    <2> QED
      BY <1>2, <1>9, <2>5, <2>6
  <1>14. Finished'
    BY <1>0, <1>4 DEF IInv, Finished, Active
  <1> QED
    BY <1>5, <1>6, <1>7, <1>8, <1>11, <1>12, <1>13, <1>10, <1>14 DEF IInv

----------------------------------------------------------------------------
(* The other steps. *)

\* A chat of which nothing has been read.
LEMMA Init_IInv == Init => IInv
  <1> SUFFICES ASSUME Init PROVE IInv
    OBVIOUS
  <1>1. call.pc = "idle" /\ call.how = "ExportHistory" /\ call.result = "error"
        /\ call.limit = 0 /\ call.minID = 0 /\ call \in Record
    <2>1. call = [pc |-> "idle", how |-> "ExportHistory", limit |-> 0, minDate |-> 0, offset |-> 0,
                  minID |-> 0, total |-> 0, last |-> FALSE, result |-> "error"]
      BY DEF Init, Call, NoState
    <2> QED
      BY <2>1 DEF Record, Readers
  <1>2. got = << >> /\ buf = << >> /\ file = << >> /\ chat = << >> /\ state = NoState
        /\ present = {} /\ pages = {}
    BY DEF Init
  <1>3. TypeOK
    BY <1>1, <1>2 DEF TypeOK, Record
  <1>4. Places /\ Lines /\ Divided /\ Below /\ Pending /\ Finished
    BY <1>1, <1>2 DEF Places, Lines, Divided, Below, Pending, Finished, Active, JSONL
  <1>5. NewestFirst /\ StateBehindFile /\ LimitRespected /\ NothingSkipped
    BY <1>1, <1>2 DEF NewestFirst, StateBehindFile, LimitRespected, NothingSkipped, Descending
  <1> QED
    BY <1>3, <1>4, <1>5 DEF IInv

\* A call begins, an export with what its state file says.
LEMMA BeginKeeps ==
  ASSUME IInv, Rest',
         NEW how \in Readers \cup {"ExportHistoryJSONL"}, NEW option \in Options(how),
         IF how = "ExportHistoryJSONL" THEN BeginJSONL(option) ELSE Begin(option)
  PROVE  IInv'
  <1> DEFINE stored == IF how = "ExportHistoryJSONL" THEN state ELSE NoState
             offset == IF stored = NoState THEN 0 ELSE stored.last + 1
  <1>1. /\ option.how = how /\ option.limit \in Nat /\ option.minDate \in Nat
        /\ how = "StreamHistoryBatches" => option.limit = 0
    <2>1. /\ option.how = how
          /\ option.limit \in IF how = "StreamHistoryBatches" THEN {0} ELSE Limits
          /\ option.minDate \in IF how \in {"ExportHistory", "IterHistoryBatches"}
                                THEN MinDates ELSE {0}
      BY DEF Options
    <2>2. option.limit \in Limits \cup {0} /\ option.minDate \in MinDates \cup {0}
      BY <2>1
    <2>3. option.limit \in Nat /\ option.minDate \in Nat
      <3>1. \A x \in Limits \cup MinDates \cup {0} : x \in Nat
        OBVIOUS
      <3> QED
        BY <2>2, <3>1
    <2>4. how = "StreamHistoryBatches" => option.limit = 0
      BY DEF Options
    <2> QED
      BY <2>1, <2>3, <2>4
  <1>2. /\ state \in [last : 1 .. MaxId, total : Nat] \cup {NoState}
        /\ state # NoState => state.total > 0
        /\ TypeOK /\ file \in Seq(0 .. MaxId)
    BY DEF IInv, TypeOK, StateBehindFile
  <1>3. /\ stored.last \in 0 .. MaxId /\ stored.total \in Nat /\ offset \in 0 .. MaxId + 1
        /\ stored.last = 0 <=> stored = NoState
        /\ stored.last = 0 <=> stored.total = 0
        /\ stored.last > 0 => offset = stored.last + 1
    BY <1>2 DEF NoState
  <1>4. /\ call' = Call("fetch", option, offset, stored)
        /\ got' = << >> /\ buf' = << >> /\ chat' = chat /\ state' = state /\ pages' = {}
        /\ present' = {m \in 1 .. Len(chat) : chat[m] = "message"}
        /\ how = "ExportHistoryJSONL" => file' = IF state = NoState THEN << >> ELSE file
        /\ how # "ExportHistoryJSONL" => file' = file
    BY DEF Begin, BeginJSONL, output
  <1>5. /\ call' \in Record
        /\ call'.pc = "fetch" /\ call'.how = how /\ call'.result = "none"
        /\ call'.limit = option.limit /\ call'.offset = offset
        /\ call'.minID = stored.last /\ call'.total = stored.total /\ ~call'.last
    BY <1>1, <1>3, <1>4 DEF Call, Record
  <1>6. TypeOK'
    <2>1. got' \in Seq(1 .. MaxId) /\ buf' \in Seq(1 .. MaxId)
      BY <1>4
    <2>2. file' \in Seq(0 .. MaxId)
      <3>1. << >> \in Seq(0 .. MaxId) /\ (file' = file \/ file' = << >>)
        BY <1>4
      <3> QED
        BY <1>2, <3>1
    <2>3. Sequences'
      BY <1>2, <1>4, <2>1, <2>2 DEF Sequences
    <2> QED
      BY <1>5, <2>3 DEF TypeOK, Record, Rest, Sequences
  <1>7. Places' /\ Finished'
    BY <1>1, <1>3, <1>4, <1>5 DEF Places, Finished, JSONL, Active
  <1>8. Lines'
    <2>1. CASE stored.last = 0
      BY <1>3, <1>4, <1>5, <2>1 DEF Lines, JSONL
    <2>2. CASE stored.last # 0
      BY <1>3, <1>4, <1>5, <2>2 DEF Lines
    <2> QED
      BY <2>1, <2>2
  <1>9. Divided' /\ Below'
    BY <1>1, <1>4, <1>5 DEF Divided, Below, Descending
  <1>10. Pending'
    <2>1. \A m \in present' : m <= Len(chat') /\ chat'[m] = "message"
      BY <1>2, <1>4 DEF TypeOK
    <2>2. call'.minID = 0 => call'.offset = 0
      BY <1>3, <1>5
    <2> QED
      BY <1>5, <2>1, <2>2 DEF Pending
  <1>11. NewestFirst' /\ StateBehindFile'
    BY <1>4 DEF IInv, NewestFirst, StateBehindFile, Descending
  <1>12. LimitRespected' /\ NothingSkipped'
    BY <1>1, <1>4, <1>5 DEF LimitRespected, NothingSkipped
  <1> QED
    BY <1>6, <1>7, <1>8, <1>9, <1>10, <1>11, <1>12 DEF IInv

\* A call that ends otherwise than with success, giving nothing more.
LEMMA StopKeeps ==
  ASSUME IInv, Rest', NEW r \in {"error", "stopped", "crash"}, Return(r),
         UNCHANGED <<chat, got, buf, state, present>>,
         file' \in Seq(0 .. MaxId), Descending(file'), StateBehindFile'
  PROVE  IInv'
  <1>1. call' \in Record /\ Kept /\ call'.pc = "idle" /\ call'.result = r /\ call'.offset = call.offset
    BY ReturnKeeps, TypeParts DEF IInv, Return, Record
  <1>2. TypeOK'
    BY <1>1 DEF IInv, TypeOK, Record, Rest
  <1>3. Places' /\ Lines' /\ Below' /\ Finished' /\ NothingSkipped'
    BY <1>1 DEF IInv, Places, Lines, Below, Finished, NothingSkipped, Kept, Active, JSONL
  <1>4. Divided' /\ Pending'
    BY <1>1 DEF IInv, Divided, Pending, Kept, Active
  <1>5. NewestFirst' /\ LimitRespected'
    BY <1>1 DEF IInv, NewestFirst, LimitRespected, Kept
  <1> QED
    BY <1>2, <1>3, <1>4, <1>5 DEF IInv

\* A step of the chat alone.
LEMMA ChatKeeps ==
  ASSUME IInv, Rest', UNCHANGED <<call, got, buf, output, pages>>,
         present' \subseteq present,
         \A m \in present' : m <= Len(chat') /\ chat'[m] = "message"
  PROVE  IInv'
  <1>1. TypeOK' /\ Places' /\ Lines' /\ Divided' /\ Below' /\ Finished'
    BY DEF IInv, TypeOK, Places, Lines, Divided, Below, Finished, Active, JSONL, Rest, output
  <1>2. Pending'
    BY DEF IInv, Pending, Whole, Active
  <1>3. NewestFirst' /\ StateBehindFile' /\ LimitRespected' /\ NothingSkipped'
    BY DEF IInv, NewestFirst, StateBehindFile, LimitRespected, NothingSkipped, Whole, Given, output
  <1> QED
    BY <1>1, <1>2, <1>3 DEF IInv

\* With an empty batch nothing is left to give.
LEMMA NothingLeft ==
  ASSUME IInv, call.pc = "fetch", call.minID = 0, NEW p \in Pages, NEW b \in Pages,
         IsPage(p, PageSize), Batch(p, b), b = << >>, Kept, Whole', NEW m \in present
  PROVE  m \in Elements(got)
  <1>1. p \in Seq(1 .. MaxId) /\ Len(p) \in Nat /\ Len(b) = 0
    BY PageIsSequence
  <1>2. Whole /\ Len(p) = 0
    BY <1>1 DEF Whole, Batch, Kept
  <1>3. Elements(b) = {} /\ Elements(buf) = {} /\ Len(p) # PageSize /\ Active
    BY <1>1, <1>2, RoomPositive DEF Elements, IInv, Places, Active
  <1>4. m \in 1 .. Len(chat) /\ chat[m] = "message"
    BY DEF IInv, TypeOK, Pending
  <1>5. ~(call.offset = 0 \/ m < call.offset)
    BY <1>3, <1>4, BatchCovers DEF IInv
  <1> QED
    BY <1>2, <1>3, <1>5 DEF IInv, Pending

\* An empty batch ends the call, or service messages do.
LEMMA GetNothingKeeps ==
  ASSUME IInv, Rest', call.pc = "fetch", NEW p \in Pages, NEW b \in Pages,
         IsPage(p, PageSize), GetNothing(p, b)
  PROVE  IInv'
  <1>1. /\ Batch(p, b) /\ b = << >> /\ Active /\ call \in Record
        /\ UNCHANGED <<chat, got, buf, file, state, present>>
    BY TypeParts DEF GetNothing, Active, IInv, output
  <1>2. /\ call' \in Record /\ Kept /\ call'.offset = call.offset
        /\ \/ JSONL /\ call'.pc = "finish" /\ call'.result = call.result
           \/ ~JSONL /\ call'.pc = "idle" /\ call'.result = "ok"
    <2>1. CASE JSONL
      BY <1>1, <2>1 DEF GetNothing, JSONL, Kept, Record
    <2>2. CASE ~JSONL
      BY <1>1, <2>2, ReturnKeeps DEF GetNothing, JSONL, Return, Record
    <2> QED
      BY <2>1, <2>2
  <1>3. TypeOK'
    BY <1>1, <1>2 DEF IInv, TypeOK, Record, Rest
  <1>4. Places' /\ Lines' /\ Below' /\ Finished'
    BY <1>1, <1>2 DEF IInv, Places, Lines, Below, Finished, Kept, Active, JSONL
  <1>5. Divided'
    BY <1>1, <1>2 DEF IInv, Divided, Kept, Active
  <1>6. ASSUME Whole', call.minID = 0, NEW m \in present PROVE m \in Elements(got')
    BY <1>1, <1>2, <1>6, NothingLeft
  <1>7. Pending'
    <2>1. \A m \in present' : m <= Len(chat') /\ chat'[m] = "message"
      BY <1>1 DEF IInv, Pending
    <2> QED
      BY <1>1, <1>2, <1>6, <2>1 DEF Pending, Kept
  <1>8. NewestFirst' /\ StateBehindFile' /\ LimitRespected'
    BY <1>1, <1>2 DEF IInv, NewestFirst, StateBehindFile, LimitRespected, Kept
  <1>9. NothingSkipped'
    <2>1. CASE JSONL
      BY <1>1, <1>2, <2>1 DEF NothingSkipped, IInv, Finished
    <2>2. CASE ~JSONL
      <3>1. call.minID = 0
        BY <2>2 DEF IInv, Places
      <3> QED
        BY <1>1, <1>2, <1>6, <2>2, <3>1 DEF NothingSkipped, Given, JSONL, Kept
    <2> QED
      BY <2>1, <2>2
  <1> QED
    BY <1>3, <1>4, <1>5, <1>7, <1>8, <1>9 DEF IInv

\* A batch arrives.
LEMMA FetchBatchKeeps ==
  ASSUME IInv, Rest', call.pc = "fetch", NEW p \in Pages, NEW b \in Pages,
         IsPage(p, PageSize), FetchBatch(p, b)
  PROVE  IInv'
  <1>1. /\ Batch(p, b) /\ b # << >> /\ Active /\ call \in Record /\ TypeOK
        /\ call.how = "IterMessages" /\ call.minID = 0 /\ buf = << >> /\ ~call.last
        /\ buf' = b /\ UNCHANGED <<chat, got, file, state, present>>
    BY TypeParts DEF FetchBatch, Active, IInv, Places, JSONL, output
  <1>2. /\ b \in Seq(1 .. MaxId) /\ Len(b) \in 1 .. BatchSize /\ Descending(b)
        /\ Cursor(b) \in 1 .. MaxId /\ (call.offset = 0 \/ Cursor(b) < call.offset)
        /\ \A i \in 1 .. Len(b) : b[i] >= Cursor(b) /\ (call.offset = 0 \/ b[i] < call.offset)
        /\ \A i \in 1 .. Len(b) : b[i] \in 1 .. MaxId
    BY <1>1, BatchShape
  <1>3. /\ call' \in Record /\ Kept /\ call'.pc = "serve" /\ call'.offset = Cursor(b)
        /\ call'.result = call.result /\ ~call'.last
    BY <1>1, <1>2, AdvanceKeeps DEF FetchBatch
  <1>4. TypeOK'
    BY <1>1, <1>2, <1>3 DEF IInv, TypeOK, Record, Rest
  <1>5. Places' /\ Lines' /\ Below' /\ Finished'
    <2>1. call'.offset > 0
      BY <1>2, <1>3
    <2> QED
      BY <1>1, <1>3, <2>1 DEF IInv, Places, Lines, Below, Finished, Kept, Active, JSONL
  <1>6. Divided'
    <2>1. \A i \in 1 .. Len(got) : got[i] \in Nat /\ got[i] >= call.offset /\ call.offset > 0
      BY <1>1 DEF IInv, TypeOK, Divided
    <2>2. call.offset \in Nat
      BY <1>1 DEF Record
    <2>3. \A i \in 1 .. Len(got), j \in 1 .. Len(b) : got[i] > b[j] /\ got[i] >= Cursor(b)
      <3> SUFFICES ASSUME NEW i \in 1 .. Len(got), NEW j \in 1 .. Len(b)
                   PROVE  got[i] > b[j] /\ got[i] >= Cursor(b)
        OBVIOUS
      <3> QED
        BY <1>2, <2>1, <2>2
    <2>4. \A i \in 1 .. Len(got) : got[i] >= Cursor(b)
      <3>1. 1 \in 1 .. Len(b)
        BY <1>2
      <3> QED
        BY <2>3, <3>1
    <2> QED
      BY <1>1, <1>2, <1>3, <2>3, <2>4 DEF Divided
  <1>7. Pending'
    <2>1. \A m \in present' : m <= Len(chat') /\ chat'[m] = "message"
      BY <1>1 DEF IInv, Pending
    <2>2. ASSUME Whole', NEW m \in present
          PROVE  m \in Elements(got') \/ m \in Elements(buf') \/ m < Cursor(b)
      <3>1. Whole /\ Elements(buf) = {}
        BY <1>1, <1>3, <2>2 DEF Whole, Batch, Kept, Elements
      <3>2. m \in Elements(got) \/ call.offset = 0 \/ m < call.offset
        BY <1>1, <3>1 DEF IInv, Pending, FetchBatch
      <3>3. m \in 1 .. Len(chat) /\ chat[m] = "message"
        BY <1>1 DEF IInv, TypeOK, Pending
      <3>4. CASE call.offset = 0 \/ m < call.offset
        <4>1. m \in Elements(b) \/ \A i \in 1 .. Len(b) : m < b[i]
          BY <1>1, <3>3, <3>4, BatchCovers
        <4> QED
          BY <1>1, <1>2, <4>1 DEF Cursor
      <3> QED
        BY <1>1, <3>2, <3>4
    <2> QED
      BY <1>1, <1>3, <2>1, <2>2 DEF Pending
  <1>8. NewestFirst' /\ StateBehindFile' /\ LimitRespected' /\ NothingSkipped'
    BY <1>1, <1>3 DEF IInv, Finished, NewestFirst, StateBehindFile, LimitRespected, NothingSkipped, Kept
  <1> QED
    BY <1>4, <1>5, <1>6, <1>7, <1>8 DEF IInv

\* Moving the head of one sequence to the end of another.
LEMMA MoveHead ==
  ASSUME NEW a \in Seq(1 .. MaxId), NEW b \in Seq(1 .. MaxId), b # << >>
  PROVE  /\ Append(a, Head(b)) \in Seq(1 .. MaxId) /\ Len(Append(a, Head(b))) = Len(a) + 1
         /\ \A i \in 1 .. Len(a) : Append(a, Head(b))[i] = a[i]
         /\ Append(a, Head(b))[Len(a) + 1] = b[1]
         /\ Tail(b) \in Seq(1 .. MaxId) /\ Len(Tail(b)) = Len(b) - 1
         /\ \A i \in 1 .. Len(b) - 1 : Tail(b)[i] = b[i + 1]
         /\ Elements(a) \cup Elements(b) \subseteq Elements(Append(a, Head(b))) \cup Elements(Tail(b))
  <1>1. /\ Append(a, Head(b)) \in Seq(1 .. MaxId) /\ Len(Append(a, Head(b))) = Len(a) + 1
        /\ \A i \in 1 .. Len(a) : Append(a, Head(b))[i] = a[i]
        /\ Append(a, Head(b))[Len(a) + 1] = b[1]
    OBVIOUS
  <1>2. /\ Tail(b) \in Seq(1 .. MaxId) /\ Len(Tail(b)) = Len(b) - 1
        /\ \A i \in 1 .. Len(b) - 1 : Tail(b)[i] = b[i + 1]
    OBVIOUS
  <1>3. ASSUME NEW x \in Elements(a) PROVE x \in Elements(Append(a, Head(b)))
    BY <1>1 DEF Elements
  <1>4. ASSUME NEW x \in Elements(b)
        PROVE  x \in Elements(Append(a, Head(b))) \cup Elements(Tail(b))
    <2>1. PICK i \in 1 .. Len(b) : x = b[i]
      BY DEF Elements
    <2>2. CASE i = 1
      <3>1. Len(a) + 1 \in 1 .. Len(Append(a, Head(b)))
        BY <1>1
      <3> QED
        BY <1>1, <2>1, <2>2, <3>1 DEF Elements
    <2>3. CASE i > 1
      <3>1. i - 1 \in 1 .. Len(Tail(b)) /\ Tail(b)[i - 1] = x
        BY <1>2, <2>1, <2>3
      <3> QED
        BY <3>1 DEF Elements
    <2> QED
      BY <2>2, <2>3
  <1> QED
    BY <1>1, <1>2, <1>3, <1>4

\* A message of the batch is given by itself.
LEMMA NextMessageKeeps ==
  ASSUME IInv, Rest', NextMessage
  PROVE  IInv'
  <1>1. /\ call.pc = "serve" /\ call.how = "IterMessages" /\ buf # << >> /\ Active
        /\ call.minID = 0 /\ call.total = 0 /\ ~call.last /\ call \in Record
        /\ got \in Seq(1 .. MaxId) /\ buf \in Seq(1 .. MaxId) /\ call.offset \in Nat
        /\ got' = Append(got, Head(buf)) /\ buf' = Tail(buf)
        /\ UNCHANGED <<chat, file, state, present, pages>>
    BY TypeParts DEF NextMessage, IInv, Places, Active, JSONL, TypeOK, output
  <1>2. /\ got' \in Seq(1 .. MaxId) /\ Len(got') = Len(got) + 1
        /\ \A i \in 1 .. Len(got) : got'[i] = got[i]
        /\ got'[Len(got) + 1] = buf[1]
        /\ buf' \in Seq(1 .. MaxId) /\ Len(buf') = Len(buf) - 1
        /\ \A i \in 1 .. Len(buf) - 1 : buf'[i] = buf[i + 1]
        /\ Elements(got) \cup Elements(buf) \subseteq Elements(got') \cup Elements(buf')
    BY <1>1, MoveHead
  <1>3. Room = call.limit - Len(got) \/ call.limit = 0
    BY <1>1 DEF IInv, Below, Room, Record
  <1>4. /\ call' \in Record /\ Kept /\ call'.offset = call.offset /\ ~call'.last
        /\ \/ call'.pc = "idle" /\ call'.result = "ok" /\ LimitReached(1)
           \/ /\ call'.pc = IF Len(buf) = 1 THEN "fetch" ELSE "serve"
              /\ call'.result = call.result /\ ~LimitReached(1)
    <2>1. CASE LimitReached(1)
      BY <1>1, <2>1, ReturnKeeps DEF NextMessage, Return, Record
    <2>2. CASE ~LimitReached(1)
      BY <1>1, <2>2 DEF NextMessage, Kept, Record
    <2> QED
      BY <2>1, <2>2
  <1>5. TypeOK'
    BY <1>1, <1>2, <1>4 DEF IInv, TypeOK, Record, Rest
  <1>6. Places' /\ Lines' /\ Finished'
    <2>1. Len(buf') \in Nat /\ Len(buf) \in Nat /\ (Len(buf') = 0 <=> buf' = << >>)
      BY <1>2, <1>1, Empty
    <2>2. Len(buf) = 1 <=> buf' = << >>
      BY <1>2, <2>1
    <2> QED
      BY <1>1, <1>4, <2>1, <2>2 DEF IInv, Places, Lines, Finished, Kept, Active, JSONL
  <1>7. Below' /\ LimitRespected'
    BY <1>1, <1>2, <1>3, <1>4 DEF IInv, Below, LimitRespected, LimitReached, Kept, Record
  <1>8. /\ Descending(buf) /\ Descending(got)
        /\ \A i \in 1 .. Len(buf) : buf[i] \in 1 .. MaxId /\ buf[i] >= call.offset
        /\ \A i \in 1 .. Len(got) : got[i] \in 1 .. MaxId /\ got[i] >= call.offset /\ call.offset > 0
        /\ \A i \in 1 .. Len(got), j \in 1 .. Len(buf) : got[i] > buf[j]
    <2>1. Descending(buf) /\ \A i \in 1 .. Len(buf) : buf[i] >= call.offset
      BY <1>1 DEF IInv, Divided
    <2>2. Descending(got) /\ \A i \in 1 .. Len(got) : got[i] >= call.offset /\ call.offset > 0
      BY <1>1 DEF IInv, Divided, NewestFirst
    <2>3. \A i \in 1 .. Len(got), j \in 1 .. Len(buf) : got[i] > buf[j]
      BY <1>1 DEF IInv, Divided
    <2>4. \A i \in 1 .. Len(buf) : buf[i] \in 1 .. MaxId
      BY <1>1
    <2>5. \A i \in 1 .. Len(got) : got[i] \in 1 .. MaxId
      BY <1>1
    <2> QED
      BY <2>1, <2>2, <2>3, <2>4, <2>5
  <1>9. /\ \A i, j \in 1 .. Len(got') : i < j => got'[i] > got'[j]
        /\ \A i, j \in 1 .. Len(buf') : i < j => buf'[i] > buf'[j]
        /\ \A i \in 1 .. Len(buf') : buf'[i] >= call.offset
        /\ \A i \in 1 .. Len(got'), j \in 1 .. Len(buf') : got'[i] > buf'[j]
        /\ \A i \in 1 .. Len(got') : got'[i] >= call.offset
    <2>1. \A i \in 1 .. Len(got') : (i \in 1 .. Len(got) /\ got'[i] = got[i])
                                    \/ (i = Len(got) + 1 /\ got'[i] = buf[1])
      <3>1. Len(got) \in Nat /\ Len(got') = Len(got) + 1
        BY <1>1, <1>2
      <3>2. \A i \in 1 .. Len(got') : i \in 1 .. Len(got) \/ i = Len(got) + 1
        BY <3>1
      <3> QED
        BY <1>2, <3>2
    <2>2. \A j \in 1 .. Len(buf') : j + 1 \in 2 .. Len(buf) /\ buf'[j] = buf[j + 1]
      BY <1>1, <1>2
    <2>3. 1 \in 1 .. Len(buf) /\ \A j \in 2 .. Len(buf) : buf[1] > buf[j]
      BY <1>1, <1>8 DEF Descending
    <2>4. \A i, j \in 1 .. Len(got') : i < j => got'[i] > got'[j]
      <3> SUFFICES ASSUME NEW i \in 1 .. Len(got'), NEW j \in 1 .. Len(got'), i < j
                   PROVE  got'[i] > got'[j]
        OBVIOUS
      <3>1. i \in 1 .. Len(got) /\ got'[i] = got[i]
        BY <1>1, <1>2
      <3> QED
        BY <2>1, <2>3, <3>1, <1>8 DEF Descending
    <2>5. \A i, j \in 1 .. Len(buf') : i < j => buf'[i] > buf'[j]
      BY <2>2, <1>8 DEF Descending
    <2>6. \A i \in 1 .. Len(buf') : buf'[i] >= call.offset
      BY <2>2, <1>8
    <2>7. \A i \in 1 .. Len(got'), j \in 1 .. Len(buf') : got'[i] > buf'[j]
      BY <2>1, <2>2, <2>3, <1>8
    <2>8. \A i \in 1 .. Len(got') : got'[i] >= call.offset
      BY <2>1, <2>3, <1>8
    <2> QED
      BY <2>4, <2>5, <2>6, <2>7, <2>8
  <1>10. Divided'
    <2>1. call.offset > 0
      BY <1>1 DEF IInv, Places
    <2> QED
      BY <1>4, <1>9, <2>1 DEF Divided, Descending
  <1>11. Pending'
    BY <1>1, <1>2, <1>4 DEF IInv, Pending, Whole, Kept
  <1>12. NewestFirst' /\ StateBehindFile'
    BY <1>1, <1>9 DEF IInv, NewestFirst, StateBehindFile, Descending
  <1>13. NothingSkipped'
    BY <1>1, <1>2, <1>3, <1>4 DEF IInv, Finished, NothingSkipped, LimitReached, Kept, Record
  <1> QED
    BY <1>5, <1>6, <1>7, <1>10, <1>11, <1>12, <1>13 DEF IInv

----------------------------------------------------------------------------
(* The steps of ExportHistoryJSONL. *)

\* An export that has a page to write was begun anew, and its file holds
\* what it has written so far.
LEMMA OnlyFresh ==
  ASSUME IInv, call.pc = "fetch", JSONL,
         NEW p \in Pages, NEW b \in Pages, IsPage(p, PageSize), Batch(p, b), b # << >>
  PROVE  call.minID = 0 /\ call.total = 0 /\ buf = << >> /\ got = file
  <1>1. call \in Record /\ TypeOK /\ Active /\ buf = << >> /\ file \in Seq(0 .. MaxId)
    BY TypeParts DEF IInv, Places, Active, TypeOK
  <1>2. CASE call.minID # 0
    <2>1. call.offset = call.minID + 1 /\ call.minID \in Nat
      BY <1>1, <1>2 DEF IInv, Lines, Record
    <2>2. 1 \in 1 .. Len(b) /\ b[1] \in Nat /\ b[1] < call.offset /\ b[1] > call.minID
      BY <1>1, <2>1, BatchShape
    <2> QED
      BY <2>1, <2>2
  <1>3. CASE call.minID = 0
    <2>1. got = file \o buf /\ call.total = 0
      BY <1>1, <1>3 DEF IInv, Lines, Places
    <2>2. file \o << >> = file
      BY <1>1
    <2> QED
      BY <1>1, <1>3, <2>1, <2>2
  <1> QED
    BY <1>2, <1>3

\* The lines of a batch go to the buffer of the file.
LEMMA WriteLinesKeeps ==
  ASSUME IInv, Rest', call.pc = "fetch", NEW p \in Pages, NEW b \in Pages,
         IsPage(p, PageSize), WriteLines(p, b)
  PROVE  IInv'
  <1> DEFINE n == Cut(Len(b))
  <1>1. /\ Batch(p, b) /\ b # << >> /\ JSONL /\ Active /\ call \in Record /\ TypeOK
        /\ call.how = "ExportHistoryJSONL" /\ ~call.last /\ Descending(got) /\ Divided
        /\ got' = got \o SubSeq(b, 1, n) /\ buf' = SubSeq(b, 1, n)
        /\ UNCHANGED <<chat, file, state, present>>
    BY TypeParts DEF WriteLines, Active, IInv, Places, JSONL, output, NewestFirst
  <1>2. call.minID = 0 /\ call.total = 0 /\ buf = << >> /\ got = file
    BY <1>1, OnlyFresh
  <1>3. /\ b \in Seq(1 .. MaxId) /\ Len(b) \in 1 .. BatchSize
        /\ Cursor(b) \in 1 .. MaxId /\ \A i \in 1 .. Len(b) : b[i] \in 1 .. MaxId
    BY <1>1, BatchShape
  <1>4. n \in 1 .. Len(b) /\ n \in 0 .. Len(b) /\ (n < Len(b) => LimitReached(Len(b)) /\ n = Room)
    <2>1. Len(b) \in Nat /\ Len(b) > 0
      BY <1>3
    <2>2. /\ n \in 0 .. Len(b) /\ n > 0
          /\ n < Len(b) => LimitReached(Len(b)) /\ n = Room
      BY <1>1, <2>1, CutIsPrefix
    <2> QED
      BY <2>1, <2>2
  <1>5. LimitReached(Len(b)) => n = Room
    BY <1>1 DEF Cut, Capped
  <1> HIDE DEF n
  <1>6. /\ got' \in Seq(1 .. MaxId) /\ Len(got') = Len(got) + n /\ Descending(got')
        /\ \A i \in 1 .. Len(got') : got'[i] >= Cursor(b)
        /\ Elements(got') = Elements(got) \cup {b[i] : i \in 1 .. n}
    BY <1>1, <1>4, Give
  <1>7. buf' \in Seq(1 .. MaxId) /\ Len(got) \in Nat
    <2>1. got \in Seq(1 .. MaxId)
      BY <1>1 DEF TypeOK
    <2>2. SubSeq(b, 1, n) \in Seq(1 .. MaxId)
      BY <1>3, <1>4, Prefixes
    <2> QED
      BY <1>1, <2>1, <2>2
  <1>8. /\ call' \in Record /\ Kept /\ call'.offset = Cursor(b) /\ call'.result = call.result
        /\ call'.pc = IF LimitReached(Len(b)) THEN "finish" ELSE "flush"
        /\ call'.last = (Len(b) < BatchSize)
    <2>1. call' = [call EXCEPT !.pc = IF LimitReached(Len(b)) THEN "finish" ELSE "flush",
                               !.offset = Cursor(b), !.last = Len(b) < BatchSize]
      BY DEF WriteLines
    <2>2. Cursor(b) \in 0 .. MaxId + 1 /\ (Len(b) < BatchSize) \in BOOLEAN
      BY <1>3
    <2>3. call' \in Record
      BY <1>1, <2>1, <2>2 DEF Record
    <2> QED
      BY <1>1, <2>1, <2>3 DEF Record, Kept
  <1>9. Room = call.limit - Len(got) \/ call.limit = 0
    BY <1>1, <1>2 DEF IInv, Below, Room, Record, WriteLines
  <1>10. TypeOK'
    BY <1>1, <1>6, <1>7, <1>8 DEF IInv, TypeOK, Record, Rest
  <1>11. Places' /\ Lines' /\ Finished'
    <2>1. got' # << >>
      BY <1>4, <1>6, <1>7
    <2>2. got' = file' \o buf'
      BY <1>1, <1>2
    <2> QED
      BY <1>1, <1>2, <1>8, <2>1, <2>2
         DEF IInv, Places, Lines, Finished, Kept, Active, JSONL
  <1>12. Divided'
    BY <1>1, <1>3, <1>6, <1>8 DEF Divided, Kept
  <1>limit. call.limit > 0 => IF LimitReached(Len(b)) THEN Len(got') = call.limit
                              ELSE Len(got') < call.limit
    <2> SUFFICES ASSUME call.limit > 0
                 PROVE  IF LimitReached(Len(b)) THEN Len(got') = call.limit
                        ELSE Len(got') < call.limit
      OBVIOUS
    <2>1. /\ Room = call.limit - Len(got) /\ call.limit \in Nat /\ Len(got) \in Nat
          /\ Len(got') = Len(got) + n /\ Len(b) \in Nat /\ n \in 1 .. Len(b)
      <3>1. call.limit \in Nat
        BY <1>1 DEF Record
      <3>2. Len(b) \in Nat
        BY <1>3
      <3> QED
        BY <1>4, <1>6, <1>7, <1>9, <3>1, <3>2
    <2>2. CASE LimitReached(Len(b))
      BY <1>5, <2>1, <2>2
    <2>3. CASE ~LimitReached(Len(b))
      <3>1. n = Len(b)
        BY <1>4, <2>1, <2>3
      <3>2. Len(b) < Room
        BY <2>1, <2>3 DEF LimitReached
      <3> QED
        BY <2>1, <2>3, <3>1, <3>2
    <2> QED
      BY <2>2, <2>3
  <1>13. Below' /\ LimitRespected'
    <2>1. call'.limit = call.limit /\ call'.how = "ExportHistoryJSONL" /\ call.limit \in Nat
      BY <1>1, <1>8 DEF Kept, Record
    <2>2. Len(got') \in Nat
      BY <1>6
    <2>3. LimitRespected'
      BY <1>limit, <2>1, <2>2 DEF LimitRespected
    <2>4. Below'
      BY <1>limit, <1>8, <2>1, <2>2 DEF Below
    <2> QED
      BY <2>3, <2>4
  <1>14. Pending'
    <2>1. \A m \in present' : m <= Len(chat') /\ chat'[m] = "message"
      BY <1>1 DEF IInv, Pending
    <2>2. ASSUME Whole', NEW m \in present
          PROVE  \/ m \in Elements(got')
                 \/ call'.pc # "finish" /\ ~call'.last /\ m < call'.offset
                 \/ call'.pc = "finish" /\ call'.limit > 0 /\ Len(got') >= call'.limit
      <3>1. Whole /\ Len(b) = Len(p) /\ PageSize = BatchSize /\ Elements(buf) = {}
        <4>1. call'.how = "ExportHistoryJSONL"
          BY <1>1, <1>8 DEF Kept
        <4>2. Whole /\ Len(b) = Len(p)
          BY <1>1, <2>2, <4>1 DEF Whole, Batch
        <4>3. PageSize = BatchSize
          BY <1>1 DEF PageSize
        <4>4. Elements(buf) = {}
          BY <1>2 DEF Elements
        <4> QED
          BY <4>2, <4>3, <4>4
      <3>2. m \in 1 .. Len(chat) /\ chat[m] = "message"
        BY <1>1 DEF IInv, TypeOK, Pending
      <3>3. m \in Elements(got) \/ call.offset = 0 \/ m < call.offset
        BY <1>1, <1>2, <3>1 DEF IInv, Pending, WriteLines
      <3>4. CASE m \in Elements(got)
        BY <1>6, <3>4
      <3>5. CASE LimitReached(Len(b))
        <4>1. call.limit > 0
          BY <3>5 DEF LimitReached
        <4>2. call'.pc = "finish" /\ call'.limit = call.limit
          BY <1>8, <3>5 DEF Kept
        <4>3. Len(got') = call.limit /\ call.limit \in Nat
          BY <1>1, <1>limit, <3>5, <4>1 DEF Record
        <4> QED
          BY <4>1, <4>2, <4>3
      <3>6. CASE (call.offset = 0 \/ m < call.offset) /\ ~LimitReached(Len(b))
        <4>1. \/ m \in Elements(b)
              \/ Len(p) = PageSize /\ \A i \in 1 .. Len(b) : m < b[i]
          BY <1>1, <1>2, <3>2, <3>6, BatchCovers
        <4>2. n = Len(b)
          BY <1>3, <1>4, <3>6
        <4>3. CASE m \in Elements(b)
          BY <1>6, <4>2, <4>3 DEF Elements
        <4>4. CASE Len(p) = PageSize /\ \A i \in 1 .. Len(b) : m < b[i]
          <5>1. call'.pc = "flush" /\ ~call'.last
            <6>1. ~(Len(b) < BatchSize)
              BY <3>1, <4>4
            <6> QED
              BY <1>8, <3>6, <6>1
          <5>2. m < call'.offset
            BY <1>3, <1>8, <4>4 DEF Cursor
          <5> QED
            BY <5>1, <5>2
        <4> QED
          BY <4>1, <4>3, <4>4
      <3> QED
        BY <3>3, <3>4, <3>5, <3>6
    <2> QED
      BY <1>1, <2>1, <2>2 DEF Pending
  <1>15. NewestFirst' /\ StateBehindFile' /\ NothingSkipped'
    BY <1>1, <1>6, <1>8 DEF IInv, Finished, NewestFirst, StateBehindFile, NothingSkipped
  <1> QED
    BY <1>10, <1>11, <1>12, <1>13, <1>14, <1>15 DEF IInv

\* What holds between the buffer and the file while an export runs.
LEMMA Buffered ==
  ASSUME IInv, Active, JSONL
  PROVE  /\ file \in Seq(0 .. MaxId) /\ buf \in Seq(1 .. MaxId) /\ buf \in Seq(0 .. MaxId)
         /\ got \in Seq(1 .. MaxId) /\ file \o buf \in Seq(0 .. MaxId)
         /\ call.minID = 0 => got = file \o buf
         /\ call.minID # 0 => got = << >> /\ buf = << >> /\ file \o buf = file
  <1>1. file \in Seq(0 .. MaxId) /\ buf \in Seq(1 .. MaxId) /\ got \in Seq(1 .. MaxId)
    BY DEF IInv, TypeOK
  <1>2. buf \in Seq(0 .. MaxId)
    BY <1>1
  <1>3. file \o buf \in Seq(0 .. MaxId)
    BY <1>1, <1>2, Concatenation
  <1>4. file \o << >> = file
    BY <1>1
  <1> QED
    BY <1>1, <1>2, <1>3, <1>4 DEF IInv, Lines

\* Appending to the file keeps it ahead of the state.
LEMMA LongerFile ==
  ASSUME StateBehindFile, state' = state, state \in [last : 1 .. MaxId, total : Nat] \cup {NoState},
         file \in Seq(0 .. MaxId), file' \in Seq(0 .. MaxId), Len(file') >= Len(file),
         \A i \in 1 .. Len(file) : file'[i] = file[i]
  PROVE  StateBehindFile'
  BY DEF StateBehindFile

\* The file after a flush.
LEMMA FlushedFile ==
  ASSUME NEW f \in Seq(0 .. MaxId), NEW t \in Seq(0 .. MaxId)
  PROVE  /\ f \o t \in Seq(0 .. MaxId) /\ Len(f \o t) >= Len(f)
         /\ \A i \in 1 .. Len(f) : (f \o t)[i] = f[i]
  BY Concatenation

\* The buffer is flushed to the file.
LEMMA FlushKeeps ==
  ASSUME IInv, Rest', Flush
  PROVE  IInv'
  <1>1. /\ call.pc = "flush" /\ JSONL /\ Active /\ got # << >> /\ call \in Record
        /\ file' = file \o buf /\ buf' = << >>
        /\ call' = [call EXCEPT !.pc = "save"]
        /\ UNCHANGED <<chat, got, state, present, pages>>
    BY TypeParts DEF Flush, IInv, Places, Active
  <1>2. call.minID = 0 /\ got = file \o buf /\ file' \in Seq(0 .. MaxId)
    BY <1>1, Buffered
  <1>3. /\ call' \in Record /\ Kept /\ call'.pc = "save" /\ call'.offset = call.offset
        /\ call'.last = call.last /\ call'.result = call.result
    BY <1>1 DEF Record, Kept
  <1>4. TypeOK'
    <2>1. got' \in Seq(1 .. MaxId) /\ state' \in [last : 1 .. MaxId, total : Nat] \cup {NoState}
      BY <1>1, TypeParts DEF IInv, Sequences
    <2>2. buf' \in Seq(1 .. MaxId)
      BY <1>1
    <2> QED
      BY <1>2, <1>3, <2>1, <2>2 DEF TypeOK, Record, Rest
  <1>5. Places' /\ Below' /\ Finished'
    BY <1>1, <1>2, <1>3 DEF IInv, Places, Below, Finished, Kept, Active, JSONL
  <1>6. Lines'
    <2>1. file' \o << >> = file'
      BY <1>2
    <2> QED
      BY <1>1, <1>2, <1>3, <2>1 DEF Lines, Kept
  <1>7. Divided'
    BY <1>1, <1>3 DEF IInv, Divided, Kept, Active, JSONL
  <1>8. Elements(buf) \subseteq Elements(got)
    <2>1. Elements(file \o buf) = Elements(file) \cup Elements(buf)
      BY <1>1, Buffered, JoinElements
    <2> QED
      BY <2>1, <1>2
  <1>9. Pending'
    BY <1>1, <1>2, <1>3, <1>8 DEF IInv, Pending, Whole, Kept, Active
  <1>10. StateBehindFile'
    <2>1. /\ file \in Seq(0 .. MaxId) /\ buf \in Seq(0 .. MaxId)
          /\ state \in [last : 1 .. MaxId, total : Nat] \cup {NoState}
      BY <1>1, Buffered DEF IInv, TypeOK
    <2>2. /\ Len(file') >= Len(file)
          /\ \A i \in 1 .. Len(file) : file'[i] = file[i]
      BY <1>1, <2>1, FlushedFile
    <2> QED
      BY <1>1, <1>2, <2>1, <2>2, LongerFile DEF IInv
  <1>11. NewestFirst' /\ LimitRespected' /\ NothingSkipped'
    BY <1>1, <1>2, <1>3 DEF IInv, Finished, NewestFirst, LimitRespected, NothingSkipped, Kept
  <1> QED
    BY <1>4, <1>5, <1>6, <1>7, <1>9, <1>10, <1>11 DEF IInv

\* The state is saved, behind the file that was flushed.
LEMMA SaveKeeps ==
  ASSUME IInv, Rest', NEW saved \in BOOLEAN, Save(saved)
  PROVE  IInv'
  <1>1. /\ call.pc = "save" /\ JSONL /\ Active /\ got # << >> /\ buf = << >> /\ call \in Record
        /\ call' = [call EXCEPT !.pc = IF call.last THEN "finish" ELSE "fetch"]
        /\ UNCHANGED <<chat, got, buf, file, present, pages>>
    BY TypeParts DEF Save, IInv, Places, Active
  <1>2. call.minID = 0 /\ call.total = 0 /\ got = file \o buf
    BY <1>1, Buffered DEF IInv, Places
  <1>3. got = file /\ got \in Seq(1 .. MaxId) /\ Len(got) \in Nat /\ Len(got) > 0
        /\ got[Len(got)] \in 1 .. MaxId
    <2>1. got = file /\ got \in Seq(1 .. MaxId)
      BY <1>1, <1>2, Buffered
    <2>2. Len(got) \in Nat /\ Len(got) > 0
      BY <1>1, <2>1, Empty
    <2> QED
      BY <2>1, <2>2
  <1>4. /\ call' \in Record /\ Kept /\ call'.offset = call.offset
        /\ call'.pc = (IF call.last THEN "finish" ELSE "fetch")
        /\ call'.last = call.last /\ call'.result = call.result
    BY <1>1 DEF Record, Kept
  <1>5. state' = state \/ state' = [last |-> got[Len(got)], total |-> Len(got)]
    <2>1. call.total + Len(got) = Len(got)
      BY <1>2, <1>3
    <2> QED
      BY <2>1 DEF Save
  <1>6. TypeOK'
    <2>1. Sequences'
      BY <1>1, <1>3, <1>5, TypeParts DEF IInv, Sequences
    <2> QED
      BY <1>4, <2>1 DEF TypeOK, Record, Rest, Sequences
  <1>7. Places' /\ Below' /\ Finished'
    BY <1>1, <1>2, <1>4 DEF IInv, Places, Below, Finished, Kept, Active, JSONL
  <1>8. Lines' /\ Divided'
    BY <1>1, <1>2, <1>4 DEF IInv, Lines, Divided, Kept, Active, JSONL
  <1>9. Pending'
    BY <1>1, <1>2, <1>4 DEF IInv, Pending, Whole, Kept, Active
  <1>10. StateBehindFile'
    BY <1>1, <1>3, <1>5 DEF IInv, StateBehindFile
  <1>11. NewestFirst' /\ LimitRespected' /\ NothingSkipped'
    BY <1>1, <1>4 DEF IInv, Finished, NewestFirst, LimitRespected, NothingSkipped, Kept
  <1> QED
    BY <1>6, <1>7, <1>8, <1>9, <1>10, <1>11 DEF IInv

\* An export flushes its last lines and may remove its state file.
LEMMA FinishKeeps ==
  ASSUME IInv, Rest', NEW removed \in BOOLEAN, Finish(removed)
  PROVE  IInv'
  <1>1. /\ call.pc = "finish" /\ JSONL /\ Active /\ call \in Record
        /\ file' = file \o buf /\ buf' = << >> /\ Return("ok")
        /\ state' = state \/ state' = NoState
        /\ UNCHANGED <<chat, got, present, pages>>
    BY TypeParts DEF Finish, IInv, Places, Active
  <1>2. /\ file' \in Seq(0 .. MaxId)
        /\ call.minID = 0 => got = file'
        /\ call.minID # 0 => file' = file
    BY <1>1, Buffered
  <1>3. /\ call' \in Record /\ Kept /\ call'.pc = "idle" /\ call'.result = "ok"
        /\ call'.offset = call.offset /\ call'.how = "ExportHistoryJSONL"
    BY <1>1, ReturnKeeps DEF Return, Record, Kept, JSONL
  <1>4. TypeOK'
    <2>1. Sequences'
      BY <1>1, <1>2, TypeParts DEF IInv, Sequences
    <2> QED
      BY <1>3, <2>1 DEF TypeOK, Record, Rest, Sequences
  <1>5. Places' /\ Lines' /\ Below' /\ Finished' /\ Divided'
    BY <1>1, <1>3 DEF IInv, Places, Lines, Below, Finished, Divided, Kept, Active, JSONL
  <1>6. Pending'
    BY <1>1, <1>3 DEF IInv, Pending, Active
  <1>7. StateBehindFile'
    <2>1. CASE state' = state
      BY <1>1, <2>1, Buffered, FlushedFile, LongerFile DEF IInv, TypeOK
    <2>2. CASE state' = NoState
      BY <2>2 DEF StateBehindFile
    <2> QED
      BY <1>1, <2>1, <2>2
  <1>8. NewestFirst' /\ LimitRespected'
    BY <1>1, <1>2, <1>3 DEF IInv, NewestFirst, LimitRespected, Kept
  <1>9. NothingSkipped'
    <2> SUFFICES ASSUME Whole', call.total = 0, call.limit = 0 \/ Len(got) < call.limit,
                        NEW m \in present
                 PROVE  m \in Elements(file')
      BY <1>1, <1>3 DEF NothingSkipped, Given, Kept
    <2>1. call.minID = 0 /\ Whole
      BY <1>1, <1>3 DEF IInv, Places, Whole, Kept
    <2>2. Elements(file') = Elements(file) \cup Elements(buf)
      BY <1>1, Buffered, JoinElements
    <2>3. m \in Elements(got) \/ m \in Elements(buf)
      BY <1>1, <2>1 DEF IInv, Pending, Record
    <2> QED
      BY <1>2, <2>1, <2>2, <2>3
  <1> QED
    BY <1>4, <1>5, <1>6, <1>7, <1>8, <1>9 DEF IInv

\* What a failed write or a crash leaves in the file.
LEMMA BreakKeeps ==
  ASSUME IInv, Active, JSONL, NEW n \in 0 .. Len(buf), NEW torn \in BOOLEAN, Break(n, torn),
         state' = state
  PROVE  file' \in Seq(0 .. MaxId) /\ Descending(file') /\ StateBehindFile'
  <1>1. /\ file \in Seq(0 .. MaxId) /\ file \in Seq(Nat)
        /\ buf \in Seq(1 .. MaxId) /\ buf \in Seq(0 .. MaxId)
        /\ state \in [last : 1 .. MaxId, total : Nat] \cup {NoState}
    BY Buffered DEF IInv, TypeOK
  <1>2. PICK kept : kept = SubSeq(buf, 1, n)
    OBVIOUS
  <1>3. PICK rest : rest = IF torn /\ n < Len(buf) THEN <<Torn>> ELSE << >>
    OBVIOUS
  <1>4. file' = (file \o kept) \o rest
    BY <1>2, <1>3 DEF Break
  <1>5. /\ kept \in Seq(0 .. MaxId) /\ Len(kept) = n /\ kept \in Seq(1 .. MaxId)
        /\ \A i \in 1 .. n : kept[i] = buf[i]
    BY <1>1, <1>2, Prefixes
  <1>6. rest \in Seq(0 .. MaxId) /\ (rest = << >> \/ (rest = <<0>> /\ n < Len(buf)))
    <2>1. rest = << >> \/ (rest = <<0>> /\ n < Len(buf))
      BY <1>3 DEF Torn
    <2>2. << >> \in Seq(0 .. MaxId) /\ <<0>> \in Seq(0 .. MaxId)
      OBVIOUS
    <2> QED
      BY <2>1, <2>2
  <1>7. file \o kept \in Seq(0 .. MaxId) /\ Len(file \o kept) = Len(file) + n /\ Len(file) \in Nat
    <2>1. file \in Seq(0 .. MaxId) /\ kept \in Seq(0 .. MaxId) /\ Len(kept) = n
      BY <1>1, <1>5
    <2>2. file \o kept \in Seq(0 .. MaxId) /\ Len(file \o kept) = Len(file) + Len(kept)
      BY <2>1, Concatenation
    <2>3. Len(file) \in Nat
      BY <2>1
    <2> QED
      BY <2>1, <2>2, <2>3
  <1>8. /\ file' \in Seq(0 .. MaxId) /\ Len(file') >= Len(file \o kept)
        /\ \A i \in 1 .. Len(file \o kept) : file'[i] = (file \o kept)[i]
    BY <1>4, <1>6, <1>7, FlushedFile
  <1>9. /\ Len(file') >= Len(file)
        /\ \A i \in 1 .. Len(file) : file'[i] = file[i]
    <2>1. \A i \in 1 .. Len(file) : (file \o kept)[i] = file[i] /\ i \in 1 .. Len(file \o kept)
      BY <1>1, <1>5, <1>7, FlushedFile
    <2> QED
      BY <1>7, <1>8, <2>1
  <1>10. StateBehindFile'
    BY <1>1, <1>8, <1>9, LongerFile DEF IInv
  <1>11. CASE call.minID # 0
    <2>1. buf = << >> /\ n = 0 /\ rest = << >> /\ kept = << >>
      BY <1>1, <1>5, <1>6, <1>11, Buffered, Empty
    <2>2. file' = file
      BY <1>1, <1>4, <2>1
    <2> QED
      BY <1>8, <1>10, <2>2 DEF IInv, NewestFirst
  <1>12. CASE call.minID = 0
    <2>1. got = file \o buf /\ got \in Seq(1 .. MaxId) /\ Descending(got)
          /\ Len(got) = Len(file) + Len(buf)
      <3>1. got = file \o buf /\ got \in Seq(1 .. MaxId)
        BY <1>1, <1>12, Buffered
      <3>2. Descending(got)
        BY DEF IInv, NewestFirst
      <3>3. file \in Seq(0 .. MaxId) /\ buf \in Seq(0 .. MaxId)
        BY <1>1
      <3>4. Len(file \o buf) = Len(file) + Len(buf)
        BY <3>3, Concatenation
      <3> QED
        BY <3>1, <3>2, <3>4
    <2>2. \A i \in 1 .. Len(file \o kept) : i \in 1 .. Len(got) /\ (file \o kept)[i] = got[i]
      <3> SUFFICES ASSUME NEW i \in 1 .. Len(file \o kept)
                   PROVE  i \in 1 .. Len(got) /\ (file \o kept)[i] = got[i]
        OBVIOUS
      <3>1. i \in 1 .. Len(got)
        BY <1>7, <2>1, Empty, <1>1
      <3>2. CASE i <= Len(file)
        BY <1>1, <1>5, <2>1, <3>2, Concatenation
      <3>3. CASE i > Len(file)
        <4>1. i - Len(file) \in 1 .. n /\ i - Len(file) \in 1 .. Len(buf)
          BY <1>7, <3>1, <3>3, <2>1
        <4>2. (file \o kept)[i] = kept[i - Len(file)] /\ got[i] = buf[i - Len(file)]
          BY <1>1, <1>5, <1>7, <2>1, <3>1, <3>3, Concatenation
        <4> QED
          BY <1>5, <3>1, <4>1, <4>2
      <3> QED
        BY <1>7, <3>2, <3>3
    <2>3. \A i \in 1 .. Len(got) : got[i] \in Nat /\ got[i] > 0
      BY <2>1
    <2>4. Descending(file \o kept) /\ file \o kept \in Seq(Nat) /\ rest \in Seq(Nat)
      <3>1. Descending(file \o kept)
        BY <2>1, <2>2 DEF Descending
      <3>2. file \o kept \in Seq(Nat)
        BY <1>7
      <3>3. rest \in Seq(Nat)
        BY <1>6
      <3> QED
        BY <3>1, <3>2, <3>3
    <2>5. Descending(rest)
      BY <1>6 DEF Descending
    <2>6. \A i \in 1 .. Len(file \o kept), j \in 1 .. Len(rest) : (file \o kept)[i] > rest[j]
      <3>1. \A j \in 1 .. Len(rest) : rest[j] = 0
        BY <1>6
      <3> QED
        BY <2>2, <2>3, <3>1
    <2>7. Descending(file')
      BY <1>4, <2>4, <2>5, <2>6, JoinDescending
    <2> QED
      BY <1>8, <1>10, <2>7
  <1> QED
    BY <1>11, <1>12

\* Every step keeps the invariant.
LEMMA Inductive == IInv /\ [Next]_vars => IInv'
  <1> SUFFICES ASSUME IInv, [Next]_vars PROVE IInv'
    OBVIOUS
  <1>1. CASE UNCHANGED vars
    BY <1>1, ChatKeeps, TypeParts DEF vars, output, IInv, Rest, Pending
  <1> SUFFICES ASSUME Next PROVE IInv'
    BY <1>1
  <1>2. Rest'
    BY RestStep DEF IInv
  <1>3. ASSUME NEW how \in Readers, NEW option \in Options(how), Begin(option) PROVE IInv'
    <2>1. how # "ExportHistoryJSONL"
      BY DEF Readers
    <2> QED
      BY <1>2, <1>3, <2>1, BeginKeeps
  <1>4. ASSUME NEW option \in Options("ExportHistoryJSONL"), BeginJSONL(option) PROVE IInv'
    BY <1>2, <1>4, BeginKeeps
  <1>5. ASSUME call.pc = "fetch", NEW p \in Pages, IsPage(p, PageSize), NEW b \in Pages, Read(p, b)
        PROVE  IInv'
    <2>1. CASE GetNothing(p, b)
      BY <1>2, <1>5, <2>1, GetNothingKeeps
    <2>2. CASE \/ \E k \in 0 .. Len(b) : \/ ExportHistory(p, b, k)
                                         \/ \E more \in BOOLEAN : IterHistoryBatches(p, b, k, more)
               \/ \E sent \in BOOLEAN : StreamHistoryBatches(p, b, sent)
      BY <1>2, <1>5, <2>2, ReadersGive, GivesKeeps
    <2>3. CASE FetchBatch(p, b)
      BY <1>2, <1>5, <2>3, FetchBatchKeeps
    <2>4. CASE WriteLines(p, b)
      BY <1>2, <1>5, <2>4, WriteLinesKeeps
    <2> QED
      BY <1>5, <2>1, <2>2, <2>3, <2>4 DEF Read
  <1>6. CASE NextMessage
    BY <1>2, <1>6, NextMessageKeeps
  <1>7. CASE Flush
    BY <1>2, <1>7, FlushKeeps
  <1>8. ASSUME NEW done \in BOOLEAN, Save(done) \/ Finish(done) PROVE IInv'
    BY <1>2, <1>8, SaveKeeps, FinishKeeps
  <1>9. CASE GetFails \/ Abandon
    <2>1. /\ Return("error") \/ Return("stopped")
          /\ UNCHANGED <<chat, got, buf, file, state, present>>
      BY <1>9 DEF GetFails, Abandon, output
    <2>2. file' \in Seq(0 .. MaxId) /\ Descending(file') /\ StateBehindFile'
      BY <2>1 DEF IInv, TypeOK, NewestFirst, StateBehindFile
    <2> QED
      BY <1>2, <2>1, <2>2, StopKeeps
  <1>10. ASSUME NEW n \in 0 .. Len(buf), NEW torn \in BOOLEAN, WriteFails(n, torn) \/ Crash(n, torn)
         PROVE  IInv'
    <2>1. /\ Return("error") \/ Return("crash")
          /\ UNCHANGED <<chat, got, buf, state, present>>
          /\ Break(n, torn) /\ Active /\ JSONL
      BY <1>10 DEF WriteFails, Crash, Active, JSONL, IInv, Places
    <2>2. file' \in Seq(0 .. MaxId) /\ Descending(file') /\ StateBehindFile'
      BY <2>1, BreakKeeps
    <2> QED
      BY <1>2, <2>1, <2>2, StopKeeps
  <1>11. ASSUME NEW sort \in {"message", "service"}, NewMessage(sort) PROVE IInv'
    <2>1. \A m \in present : m <= Len(chat') /\ chat'[m] = "message"
      <3>1. \A m \in present : m \in 1 .. Len(chat) /\ chat[m] = "message"
        BY DEF IInv, TypeOK, Pending
      <3>2. chat' = Append(chat, sort) /\ chat \in Seq({"message", "service", "gone"})
        BY <1>11 DEF NewMessage, IInv, TypeOK
      <3> QED
        BY <3>1, <3>2
    <2> QED
      BY <1>2, <1>11, <2>1, ChatKeeps DEF NewMessage
  <1>12. ASSUME NEW m \in 1 .. Len(chat), DeleteMessage(m) PROVE IInv'
    <2>1. \A x \in present' : x <= Len(chat') /\ chat'[x] = "message"
      <3>1. \A x \in present : x \in 1 .. Len(chat) /\ chat[x] = "message"
        BY DEF IInv, TypeOK, Pending
      <3>2. chat' = [chat EXCEPT ![m] = "gone"] /\ chat \in Seq({"message", "service", "gone"})
        BY <1>12 DEF DeleteMessage, IInv, TypeOK
      <3>3. present' = present \ {m}
        BY <1>12 DEF DeleteMessage
      <3> QED
        BY <3>1, <3>2, <3>3
    <2> QED
      BY <1>2, <1>12, <2>1, ChatKeeps DEF DeleteMessage
  <1> QED
    BY <1>3, <1>4, <1>5, <1>6, <1>7, <1>8, <1>9, <1>10, <1>11, <1>12 DEF Next, Step, Fault

\* The invariant holds in every state.
LEMMA Invariant == Spec => []IInv
  BY Init_IInv, Inductive, PTL DEF Spec

----------------------------------------------------------------------------
(* The theorems. *)

\* Every variable keeps to its set (the state of downloads.go:194-340,
\* iter.go:45-195 and history.go:75-249).
THEOREM TypeCorrect == Spec => []TypeOK
  <1>1. IInv => TypeOK
    BY DEF IInv
  <1> QED
    BY <1>1, Invariant, PTL

\* Readers and output file go strictly down in ids, whatever arrives, is
\* deleted, fails or crashes: the offset that each page hands to the next
\* one (downloads.go:249, iter.go:191, history.go:223) excludes what was given.
THEOREM GivenNewestFirst == Spec => []NewestFirst
  <1>1. IInv => NewestFirst
    BY DEF IInv
  <1> QED
    BY <1>1, Invariant, PTL

\* A reader that ends with success, below its limit and not misled by service
\* messages, has given all that was there throughout the call.
THEOREM NothingIsSkipped == Spec => []NothingSkipped
  <1>1. IInv => NothingSkipped
    BY DEF IInv
  <1> QED
    BY <1>1, Invariant, PTL

\* Limit bounds what a call gives, with the slack of one batch that
\* IterHistoryBatches takes (downloads.go:322-326).
THEOREM LimitIsRespected == Spec => []LimitRespected
  <1>1. IInv => LimitRespected
    BY DEF IInv
  <1> QED
    BY <1>1, Invariant, PTL

\* After every crash and failed write the state file names a line that the
\* output file holds, at the place that its count says (history.go:208-220).
THEOREM StateIsBehindFile == Spec => []StateBehindFile
  <1>1. IInv => StateBehindFile
    BY DEF IInv
  <1> QED
    BY <1>1, Invariant, PTL

-----------------------------------------------------------------------------
(* The listings that MCHistory adds: the dialogs, the posts of a forum and the
   buffered iterator.  Each has an invariant of its own, whatever the subject. *)

DialogRecord == [sort : {"plain", "migrated", "hidden"}, date : 0 .. MaxDate, message : BOOLEAN, pinned : BOOLEAN]
Entry == [peer : Peers, dialog : DialogRecord]
IterRecord ==
  [pc : {"fetch", "page", "idle"}, params : Params, offset : 0 .. MaxDate, seen : SUBSET Peers, page : Seq(Entry),
   more : BOOLEAN, last : DialogRecord, result : {"none", "ok", "error"}, stuck : BOOLEAN, misled : BOOLEAN]

\* The account: its dialogs have dates of their own, and few are pinned.
Account ==
  /\ dialogs \in [Peers -> DialogRecord]
  /\ \A p, q \in Peers : dialogs[p].date = dialogs[q].date => p = q \/ dialogs[p].date = 0
  /\ Cardinality({p \in Peers : dialogs[p].pinned}) <= BatchSize
  /\ steady \in SUBSET Peers

DialogsTypes == iter \in IterRecord /\ Len(iter.page) <= BatchSize /\ given \in Seq(Peers)

\* Whatever was given counts as seen.
GivenSeen ==
  /\ \A i \in 1 .. Len(given) : given[i] \in iter.seen
  /\ \A i, j \in 1 .. Len(given) : given[i] = given[j] => i = j
  /\ iter.params.Limit > 0 => Len(given) <= iter.params.Limit /\ (iter.pc # "idle" => Len(given) < iter.params.Limit)
  /\ iter.pc # "idle" => iter.result = "none"

\* A pinned dialog on a first page does not stand where its date would put it.
OutOfPlace(d) == iter.offset = 0 /\ d.pinned

\* What is left of a page shows the dialogs that have not moved as they are, and
\* those that stand by their date in that order.
PageAsShown ==
  /\ \A i \in 1 .. Len(iter.page) :
       iter.page[i].peer \in steady => iter.page[i].dialog = dialogs[iter.page[i].peer]
  /\ \A i, j \in 1 .. Len(iter.page) :
       i < j /\ ~OutOfPlace(iter.page[i].dialog) => iter.page[i].dialog.date > iter.page[j].dialog.date

\* A dialog that was asked for, has not moved and is still to be given ...
Owed(p) == p \in steady /\ Dialogs!AskedFor(p) /\ \A i \in 1 .. Len(given) : given[i] # p
Complete == iter.params.Limit <= 0 /\ ~iter.misled

\* ... lies behind the cursor and behind the last one given on this page, and is
\* on the rest of the page or behind it.
BehindCursor(p) == iter.offset # 0 => dialogs[p].date < iter.offset /\ ~dialogs[p].pinned
BehindLast(p) == iter.last # Dialogs!NoDialog /\ ~OutOfPlace(iter.last) => dialogs[p].date < iter.last.date
OnPage(p) == \E i \in 1 .. Len(iter.page) : iter.page[i].peer = p
BehindPage(p) ==
  /\ iter.more
  /\ iter.offset = 0 => ~dialogs[p].pinned
  /\ \A i \in 1 .. Len(iter.page) : ~OutOfPlace(iter.page[i].dialog) => dialogs[p].date < iter.page[i].dialog.date
StillToCome ==
  \A p \in Peers : Owed(p) =>
    /\ p \notin iter.seen
    /\ Complete =>
         /\ iter.pc # "idle" => BehindCursor(p)
         /\ iter.pc = "page" => BehindLast(p) /\ (OnPage(p) \/ BehindPage(p))
         /\ iter.result # "ok"

DialogsInv == Account /\ DialogsTypes /\ GivenSeen /\ PageAsShown /\ StillToCome

-----------------------------------------------------------------------------
Sorts == {"post", "odd", "gone"}
WalkRecord ==
  [pc : {"fetch", "idle"}, how : {"IterTopics", "IterTopicMessages"}, reverse : BOOLEAN, offset : 0 .. MaxPost,
   result : {"none", "ok", "stopped", "error"}, odd : BOOLEAN]

ForumTypes ==
  /\ posts \in Seq(Sorts) /\ Len(posts) <= MaxPost
  /\ walk \in WalkRecord /\ walk.offset <= Len(posts)
  /\ walk.how = "IterTopics" => ~walk.reverse
  /\ walk.pc = "fetch" => walk.result = "none"
  /\ shown \in Seq(1 .. Len(posts))

\* The histories name posts: those that are there, and those that still are.
Histories ==
  /\ ever \in SUBSET (1 .. Len(posts)) /\ stayed \in SUBSET ever
  /\ \A i \in 1 .. Len(posts) : posts[i] # "gone" => i \in ever
  /\ \A i \in stayed : posts[i] = "post"

\* The cursor divides the posts shown from those to come, pages that are turned
\* round excepted; those that stayed are on the right side of it in any case.
CursorDivides ==
  /\ ~walk.reverse =>
       /\ \A i, j \in 1 .. Len(shown) : i < j => shown[i] > shown[j]
       /\ walk.pc = "fetch" => \A i \in 1 .. Len(shown) : shown[i] >= walk.offset /\ walk.offset > 0
  /\ walk.pc = "fetch" => \A p \in stayed \ Elements(shown) : walk.offset = 0 \/ p < walk.offset

\* Behind the first page of topics there is nothing, or that page was full.
FullPage ==
  walk.how = "IterTopics" /\ walk.pc = "fetch" /\ walk.offset # 0 =>
    \/ \A i \in 1 .. Len(posts) : posts[i] # "gone" => i >= walk.offset
    \/ Cardinality({i \in ever : i >= walk.offset}) >= BatchSize

ForumInv ==
  /\ ForumTypes /\ Histories /\ CursorDivides /\ FullPage
  /\ walk.result = "ok" /\ ~walk.odd /\ (walk.how = "IterTopics" => Cardinality(ever) <= 2 * BatchSize)
       => stayed \subseteq Elements(shown)

-----------------------------------------------------------------------------
ItemsServed == Len(taken) + Cardinality(dropped)

IterTypes ==
  /\ it \in [limit : Int, left : Int, buffer : Seq(1 .. Items), bufPos : Nat, done : BOOLEAN, initialized : BOOLEAN]
  /\ fetched \in 0 .. Items /\ taken \in Seq(1 .. Items) /\ dropped \in SUBSET (1 .. Items)
  /\ user \in [by : {"program", "channel"}, busy : BOOLEAN, result : {"none", "item", "end", "error"}]

\* The items served are the first ones, and the buffer goes on where they end.
ServedSoFar ==
  /\ it.bufPos <= Len(it.buffer)
  /\ ItemsServed = fetched - Len(it.buffer) + it.bufPos
  /\ \A i \in 1 .. Len(it.buffer) : it.buffer[i] = fetched - Len(it.buffer) + i
  /\ ~it.initialized => it.buffer = << >> /\ fetched = 0
  /\ \A i, j \in 1 .. Len(taken) : i < j => taken[i] < taken[j]
  /\ Elements(taken) \cup dropped = 1 .. ItemsServed

\* What is left of the limit, and when the iterator is done.
LeftOfLimit ==
  /\ IF it.limit > 0 THEN it.left = it.limit - ItemsServed /\ it.left >= 0 ELSE it.left = -1
  /\ it.limit > 0 /\ it.left = 0 => it.done
  /\ it.done => ItemsServed = Items \/ ItemsServed = it.limit
  /\ user.result = "end" => it.done

IterInv == IterTypes /\ ServedSoFar /\ LeftOfLimit

-----------------------------------------------------------------------------
(* The buffered iterator. *)

\* Counting in the iterator's own module and in this one is the same.
LEMMA CountItems == Iter!Served = ItemsServed
<1>1. Iter!Cardinality(dropped) = Cardinality(dropped)
  BY DEF Iter!Cardinality, Cardinality
<1> QED BY <1>1 DEF Iter!Served, ItemsServed

\* Sequences of numbers and what is added to them.
LEMMA AppendElements ==
  ASSUME NEW S, NEW s \in Seq(S), NEW x \in S
  PROVE  /\ Append(s, x) \in Seq(S) /\ Len(Append(s, x)) = Len(s) + 1 /\ Len(s) \in Nat
         /\ \A i \in 1 .. Len(s) : Append(s, x)[i] = s[i]
         /\ Append(s, x)[Len(s) + 1] = x
         /\ Elements(Append(s, x)) = Elements(s) \cup {x}
<1>1. /\ Append(s, x) \in Seq(S) /\ Len(Append(s, x)) = Len(s) + 1 /\ Len(s) \in Nat
      /\ \A i \in 1 .. Len(s) : Append(s, x)[i] = s[i]
      /\ Append(s, x)[Len(s) + 1] = x
  OBVIOUS
<1>2. \A i \in 1 .. Len(s) + 1 : i \in 1 .. Len(s) \/ i = Len(s) + 1
  BY <1>1
<1>3. \A i \in 1 .. Len(s) : i \in 1 .. Len(s) + 1
  BY <1>1
<1>4. Len(s) + 1 \in 1 .. Len(s) + 1
  BY <1>1
<1> QED BY <1>1, <1>2, <1>3, <1>4 DEF Elements

\* A page of the source, of n items.
LEMMA PageOfSource ==
  ASSUME IterTypes, NEW n \in Nat, fetched + n <= Items, Iter!ParametersOK
  PROVE  /\ Iter!PageOf(n) \in Seq(1 .. Items) /\ Len(Iter!PageOf(n)) = n
         /\ \A i \in 1 .. n : Iter!PageOf(n)[i] = fetched + i
<1>1. \A i \in 1 .. n : fetched + i \in 1 .. Items
  BY DEF IterTypes, Iter!ParametersOK
<1> QED BY <1>1 DEF Iter!PageOf

\* Steps that move nothing but the caller.
LEMMA CallerKeeps ==
  ASSUME IterInv, UNCHANGED <<it, fetched, taken, dropped>>,
         user' \in [by : {"program", "channel"}, busy : BOOLEAN, result : {"none", "item", "end", "error"}],
         user'.result = "end" => it.done
  PROVE  IterInv'
<1>1. ItemsServed' = ItemsServed
  BY DEF ItemsServed
<1> QED BY <1>1 DEF IterInv, IterTypes, ServedSoFar, LeftOfLimit

\* A call of Next is taken up and ended by somebody.
LEMMA ReturnTypes ==
  ASSUME IterTypes, NEW r \in {"item", "end", "error"}, Iter!Return(r)
  PROVE  /\ user' \in [by : {"program", "channel"}, busy : BOOLEAN, result : {"none", "item", "end", "error"}]
         /\ user'.result = r
<1>1. user.by \in {"program", "channel"}
  BY DEF IterTypes
<1> QED BY <1>1 DEF Iter!Return

\* The buffer is filled with n items, and n = 0 ends an iterator that had begun.
Refilled(n) ==
  it' = [limit |-> it.limit, left |-> it.left, buffer |-> Iter!PageOf(n), bufPos |-> 0,
         done |-> (n = 0 /\ it.initialized), initialized |-> TRUE]

\* The first page, or the next one when the buffer has been used up.
LEMMA FillKeeps ==
  ASSUME IterInv, Iter!ParametersOK, NEW n \in Nat, fetched + n <= Items, fetched' = fetched + n,
         UNCHANGED <<taken, dropped>>,
         it.bufPos >= Len(it.buffer),
         Refilled(n), ~it.done, n = 0 /\ it.initialized => fetched = Items,
         user' \in [by : {"program", "channel"}, busy : BOOLEAN, result : {"none", "item", "end", "error"}],
         user'.result = "end" => it'.done
  PROVE  IterInv'
<1>1. ItemsServed' = ItemsServed
  BY DEF ItemsServed
<1>2. /\ it \in [limit : Int, left : Int, buffer : Seq(1 .. Items), bufPos : Nat, done : BOOLEAN, initialized : BOOLEAN]
      /\ fetched \in 0 .. Items /\ Items \in Nat
  BY DEF IterInv, IterTypes, Iter!ParametersOK
<1>3. it.bufPos = Len(it.buffer) /\ ItemsServed = fetched
  BY <1>2 DEF IterInv, ServedSoFar
<1> DEFINE page == Iter!PageOf(n)
<1>4. page \in Seq(1 .. Items) /\ Len(page) = n /\ \A i \in 1 .. n : page[i] = fetched + i
  BY PageOfSource DEF IterInv
<1> HIDE DEF page
<1>5. /\ it'.limit = it.limit /\ it'.left = it.left /\ it'.buffer = page /\ it'.bufPos = 0
      /\ it'.done = (n = 0 /\ it.initialized) /\ it'.initialized = TRUE
  BY DEF page, Refilled
<1>6. it' \in [limit : Int, left : Int, buffer : Seq(1 .. Items), bufPos : Nat, done : BOOLEAN, initialized : BOOLEAN]
  BY <1>2, <1>4 DEF page, Refilled
<1>7. IterTypes'
  BY <1>2, <1>6 DEF IterInv, IterTypes
<1>8. ServedSoFar'
  <2>1. /\ it'.bufPos <= Len(it'.buffer)
        /\ ItemsServed' = fetched' - Len(it'.buffer) + it'.bufPos
    <3>1. Len(it'.buffer) = n
      BY <1>4, <1>5
    <3> QED BY <1>1, <1>2, <1>3, <1>5, <3>1
  <2>2. ASSUME NEW i \in 1 .. Len(it'.buffer) PROVE it'.buffer[i] = fetched' - Len(it'.buffer) + i
    <3>1. Len(it'.buffer) = n /\ i \in 1 .. n
      BY <1>4, <1>5
    <3>2. it'.buffer[i] = fetched + i
      BY <1>4, <1>5, <3>1
    <3> QED BY <1>2, <3>1, <3>2
  <2>3. /\ ~it'.initialized => it'.buffer = << >> /\ fetched' = 0
        /\ \A i, j \in 1 .. Len(taken') : i < j => taken'[i] < taken'[j]
        /\ Elements(taken') \cup dropped' = 1 .. ItemsServed'
    BY <1>1, <1>5 DEF IterInv, ServedSoFar
  <2> QED BY <2>1, <2>2, <2>3 DEF ServedSoFar
<1>9. LeftOfLimit'
  BY <1>1, <1>2, <1>3, <1>5 DEF IterInv, LeftOfLimit
<1> QED BY <1>7, <1>8, <1>9 DEF IterInv

\* The next item of the buffer is served, or lost with Channel's context.
Handed(x) ==
  \/ taken' = Append(taken, x) /\ dropped' = dropped
  \/ taken' = taken /\ dropped' = dropped \cup {x}
Served(left, done) ==
  it' = [limit |-> it.limit, left |-> left, buffer |-> it.buffer, bufPos |-> it.bufPos + 1,
         done |-> done, initialized |-> it.initialized]

\* An item that is handed out is the next one, and counts.
LEMMA HandedCounts ==
  ASSUME IterInv, NEW x \in 1 .. Items, x = ItemsServed + 1, Handed(x)
  PROVE  /\ taken' \in Seq(1 .. Items) /\ dropped' \in SUBSET (1 .. Items)
         /\ ItemsServed' = ItemsServed + 1 /\ ItemsServed \in Nat
         /\ \A i, j \in 1 .. Len(taken') : i < j => taken'[i] < taken'[j]
         /\ Elements(taken') \cup dropped' = 1 .. ItemsServed'
<1>1. /\ taken \in Seq(1 .. Items) /\ dropped \in SUBSET (1 .. Items) /\ Items \in Int
      /\ \A i, j \in 1 .. Len(taken) : i < j => taken[i] < taken[j]
      /\ Elements(taken) \cup dropped = 1 .. ItemsServed
  BY ListsAssumption DEF IterInv, IterTypes, ServedSoFar, Iter!ParametersOK
<1>2. IsFiniteSet(dropped) /\ Cardinality(dropped) \in Nat
  <2>1. IsFiniteSet(1 .. Items)
    BY <1>1, FS_Interval
  <2> QED BY <1>1, <2>1, FS_Subset, FS_CardinalityType
<1>3. ItemsServed = Len(taken) + Cardinality(dropped) /\ ItemsServed \in Nat /\ Len(taken) \in Nat
  BY <1>1, <1>2 DEF ItemsServed
<1>4. 1 .. ItemsServed + 1 = (1 .. ItemsServed) \cup {x}
  BY <1>3
<1>5. CASE taken' = Append(taken, x) /\ dropped' = dropped
  <2>1. /\ taken' \in Seq(1 .. Items) /\ Len(taken') = Len(taken) + 1
        /\ \A i \in 1 .. Len(taken) : taken'[i] = taken[i]
        /\ taken'[Len(taken) + 1] = x /\ Elements(taken') = Elements(taken) \cup {x}
    BY <1>1, <1>5, AppendElements
  <2>2. ItemsServed' = ItemsServed + 1
    BY <1>2, <1>3, <1>5, <2>1 DEF ItemsServed
  <2>3. ASSUME NEW i \in 1 .. Len(taken'), NEW j \in 1 .. Len(taken'), i < j PROVE taken'[i] < taken'[j]
    <3>1. i \in 1 .. Len(taken) /\ (j \in 1 .. Len(taken) \/ j = Len(taken) + 1)
      BY <1>3, <2>1, <2>3
    <3>2. CASE j \in 1 .. Len(taken)
      BY <1>1, <2>1, <2>3, <3>1, <3>2
    <3>3. CASE j = Len(taken) + 1
      <4>1. taken[i] \in 1 .. ItemsServed
        BY <1>1, <3>1 DEF Elements
      <4> QED BY <1>3, <2>1, <3>1, <3>3, <4>1
    <3> QED BY <3>1, <3>2, <3>3
  <2>4. Elements(taken') \cup dropped' = 1 .. ItemsServed'
    BY <1>1, <1>4, <1>5, <2>1, <2>2
  <2> QED BY <1>1, <1>3, <1>5, <2>1, <2>2, <2>3, <2>4
<1>6. CASE taken' = taken /\ dropped' = dropped \cup {x}
  <2>1. x \notin dropped
    BY <1>1, <1>3
  <2>2. Cardinality(dropped') = Cardinality(dropped) + 1
    BY <1>2, <1>6, <2>1, FS_AddElement
  <2>3. ItemsServed' = ItemsServed + 1
    BY <1>2, <1>3, <1>6, <2>2 DEF ItemsServed
  <2>4. Elements(taken') \cup dropped' = 1 .. ItemsServed'
    BY <1>1, <1>4, <1>6, <2>3
  <2> QED BY <1>1, <1>3, <1>6, <2>3, <2>4
<1> QED BY <1>5, <1>6 DEF Handed

\* An item is served from the buffer.
LEMMA ServeKeeps ==
  ASSUME IterInv, Iter!ParametersOK, Iter!Serve
  PROVE  IterInv'
<1>1. /\ user.busy /\ ~it.done /\ it.initialized /\ it.bufPos < Len(it.buffer) /\ fetched' = fetched
      /\ Handed(it.buffer[it.bufPos + 1])
      /\ \E r \in {"item", "error"} : Iter!Return(r)
  BY DEF Iter!Serve, Iter!Running, Handed
<1>2. /\ it \in [limit : Int, left : Int, buffer : Seq(1 .. Items), bufPos : Nat, done : BOOLEAN, initialized : BOOLEAN]
      /\ fetched \in 0 .. Items /\ Items \in Nat
  BY DEF IterInv, IterTypes, Iter!ParametersOK
<1>3. Served(IF it.left > 0 THEN it.left - 1 ELSE it.left, it.left = 1)
  BY <1>2 DEF Iter!Serve, Served
<1> DEFINE left == IF it.left > 0 THEN it.left - 1 ELSE it.left
           n == Len(it.buffer)
           k == it.bufPos + 1
           x == it.buffer[k]
<1>4. k \in 1 .. n /\ x \in 1 .. Items /\ n \in Nat
  BY <1>1, <1>2
<1>5. ItemsServed = fetched - n + it.bufPos /\ x = ItemsServed + 1
  BY <1>2, <1>4 DEF IterInv, ServedSoFar
<1>6. /\ taken' \in Seq(1 .. Items) /\ dropped' \in SUBSET (1 .. Items)
      /\ ItemsServed' = ItemsServed + 1 /\ ItemsServed \in Nat
      /\ \A i, j \in 1 .. Len(taken') : i < j => taken'[i] < taken'[j]
      /\ Elements(taken') \cup dropped' = 1 .. ItemsServed'
  <2> HIDE DEF x, k
  <2>1. Handed(x)
    BY <1>1 DEF x, k
  <2> QED BY <1>4, <1>5, <2>1, HandedCounts
<1>7. /\ it'.limit = it.limit /\ it'.left = left /\ it'.buffer = it.buffer /\ it'.bufPos = k
      /\ it'.done = (it.left = 1) /\ it'.initialized
      /\ it' \in [limit : Int, left : Int, buffer : Seq(1 .. Items), bufPos : Nat, done : BOOLEAN, initialized : BOOLEAN]
  BY <1>1, <1>2, <1>3 DEF Served
<1>8. /\ user' \in [by : {"program", "channel"}, busy : BOOLEAN, result : {"none", "item", "end", "error"}]
      /\ user'.result # "end"
  <2>1. PICK r \in {"item", "error"} : Iter!Return(r)
    BY <1>1
  <2> QED BY <2>1, ReturnTypes DEF IterInv
<1>9. IterTypes'
  BY <1>1, <1>2, <1>6, <1>7, <1>8 DEF IterTypes
<1>10. ServedSoFar'
  <2>1. /\ it'.bufPos <= Len(it'.buffer) /\ ItemsServed' = fetched' - Len(it'.buffer) + it'.bufPos
    BY <1>1, <1>2, <1>4, <1>5, <1>6, <1>7
  <2>2. \A i \in 1 .. Len(it'.buffer) : it'.buffer[i] = fetched' - Len(it'.buffer) + i
    BY <1>1, <1>7 DEF IterInv, ServedSoFar
  <2> QED BY <1>6, <1>7, <2>1, <2>2 DEF ServedSoFar
<1>11. LeftOfLimit'
  <2>1. /\ IF it.limit > 0 THEN it.left = it.limit - ItemsServed /\ it.left >= 0 ELSE it.left = -1
        /\ it.limit > 0 /\ it.left = 0 => it.done
    BY DEF IterInv, LeftOfLimit
  <2>2. it.limit \in Int /\ it.left \in Int
    BY <1>2
  <2>3. IF it'.limit > 0 THEN it'.left = it'.limit - ItemsServed' /\ it'.left >= 0 ELSE it'.left = -1
    BY <1>1, <1>6, <1>7, <2>1, <2>2
  <2>4. it'.limit > 0 /\ it'.left = 0 => it'.done
    BY <1>1, <1>6, <1>7, <2>1, <2>2
  <2>5. it'.done => ItemsServed' = it'.limit
    BY <1>1, <1>6, <1>7, <2>1, <2>2
  <2> QED BY <1>8, <2>3, <2>4, <2>5 DEF LeftOfLimit
<1> QED BY <1>9, <1>10, <1>11 DEF IterInv

\* A page that cannot be fetched empties the buffer, which had been used up.
LEMMA LoadFailsKeeps ==
  ASSUME IterInv, Iter!ParametersOK, Iter!LoadFails
  PROVE  IterInv'
<1>1. /\ ~it.done /\ it.initialized /\ it.bufPos >= Len(it.buffer)
      /\ UNCHANGED <<fetched, taken, dropped>>
      /\ it' = [it EXCEPT !.buffer = << >>, !.bufPos = 0]
      /\ Iter!Return("error")
  BY DEF Iter!LoadFails, Iter!Running
<1>2. /\ it \in [limit : Int, left : Int, buffer : Seq(1 .. Items), bufPos : Nat, done : BOOLEAN, initialized : BOOLEAN]
      /\ fetched \in 0 .. Items
  BY DEF IterInv, IterTypes
<1>a. << >> \in Seq(1 .. Items)
  OBVIOUS
<1>3. /\ it'.limit = it.limit /\ it'.left = it.left /\ it'.buffer = << >> /\ it'.bufPos = 0
      /\ it'.done = it.done /\ it'.initialized = it.initialized
      /\ it' \in [limit : Int, left : Int, buffer : Seq(1 .. Items), bufPos : Nat, done : BOOLEAN, initialized : BOOLEAN]
  BY <1>1, <1>2, <1>a
<1>4. /\ user' \in [by : {"program", "channel"}, busy : BOOLEAN, result : {"none", "item", "end", "error"}]
      /\ user'.result # "end"
  BY <1>1, ReturnTypes DEF IterInv
<1>5. ItemsServed' = ItemsServed
  BY <1>1 DEF ItemsServed
<1>6. ItemsServed = fetched
  BY <1>1, <1>2 DEF IterInv, ServedSoFar
<1>7. ServedSoFar'
  <2>1. Len(it'.buffer) = 0 /\ it'.bufPos = 0
    BY <1>3
  <2>2. it'.bufPos <= Len(it'.buffer) /\ ItemsServed' = fetched' - Len(it'.buffer) + it'.bufPos
    BY <1>1, <1>2, <1>5, <1>6, <2>1
  <2>3. \A i \in 1 .. Len(it'.buffer) : it'.buffer[i] = fetched' - Len(it'.buffer) + i
    BY <2>1
  <2> QED BY <1>1, <1>3, <1>5, <2>2, <2>3 DEF IterInv, ServedSoFar
<1>8. IterTypes' /\ LeftOfLimit'
  BY <1>1, <1>3, <1>4, <1>5 DEF IterInv, IterTypes, LeftOfLimit
<1> QED BY <1>7, <1>8 DEF IterInv

\* Every step of the iterator keeps the invariant.
LEMMA IterKeeps == IterInv /\ Iter!ParametersOK /\ [Iter!Next]_iterVars => IterInv'
<1> SUFFICES ASSUME IterInv, Iter!ParametersOK, [Iter!Next]_iterVars PROVE IterInv'
  OBVIOUS
<1> DEFINE Users == [by : {"program", "channel"}, busy : BOOLEAN, result : {"none", "item", "end", "error"}]
<1>1. /\ user \in Users /\ fetched \in 0 .. Items /\ Items \in Nat /\ MaxPage \in Nat \ {0}
      /\ it = [limit |-> it.limit, left |-> it.left, buffer |-> it.buffer, bufPos |-> it.bufPos,
               done |-> it.done, initialized |-> it.initialized]
      /\ it.bufPos \in Nat /\ Len(it.buffer) \in Nat /\ it.done \in BOOLEAN /\ it.initialized \in BOOLEAN
  BY DEF IterInv, IterTypes, Iter!ParametersOK
<1>2. CASE Iter!CallNext \/ Iter!Channel
  <2>1. user' \in Users /\ (user'.result = "end" => user.result = "end") /\ UNCHANGED <<it, fetched, taken, dropped>>
    BY <1>1, <1>2 DEF Iter!CallNext, Iter!Channel
  <2>2. user'.result = "end" => it.done
    BY <2>1 DEF IterInv, LeftOfLimit
  <2> QED BY <2>1, <2>2, CallerKeeps
<1>3. CASE Iter!Exhausted
  BY <1>3, ReturnTypes, CallerKeeps DEF Iter!Exhausted, IterInv
<1>4. CASE Iter!InitFails
  <2>1. /\ UNCHANGED <<fetched, taken, dropped>> /\ ~it.done /\ ~it.initialized /\ Iter!Return("error")
        /\ it' = [limit |-> it.limit, left |-> it.left, buffer |-> it.buffer, bufPos |-> it.bufPos,
                  done |-> it.done, initialized |-> TRUE]
    BY <1>1, <1>4 DEF Iter!InitFails
  <2>2. user' \in Users /\ user'.result # "end"
    BY <2>1, ReturnTypes DEF IterInv
  <2>3. ItemsServed' = ItemsServed
    BY <2>1 DEF ItemsServed
  <2>4. it'.limit = it.limit /\ it'.left = it.left /\ it'.buffer = it.buffer /\ it'.bufPos = it.bufPos
        /\ it'.done = it.done /\ it'.initialized
    BY <2>1
  <2>5. IterTypes'
    BY <2>1, <2>2 DEF IterInv, IterTypes
  <2> QED BY <2>1, <2>2, <2>3, <2>4, <2>5 DEF IterInv, ServedSoFar, LeftOfLimit
<1>5. CASE Iter!Serve
  BY <1>5, ServeKeeps
<1>6. CASE Iter!LoadFails
  BY <1>6, LoadFailsKeeps
<1>7. \A n \in {0} \cup Iter!Sizes : n \in Nat /\ fetched + n <= Items /\ (n \in Iter!Sizes /\ n = 0 => fetched = Items)
  BY <1>1 DEF Iter!Sizes
<1>8. ASSUME NEW n \in {0} \cup Iter!Sizes, Iter!Initialize(n) PROVE IterInv'
  <2>1. /\ ~it.done /\ ~it.initialized /\ fetched' = fetched + n /\ UNCHANGED <<taken, dropped, user>>
        /\ it' = [it EXCEPT !.initialized = TRUE, !.buffer = Iter!PageOf(n)]
    BY <1>8 DEF Iter!Initialize
  <2>2. Len(it.buffer) = 0 /\ it.bufPos = 0
    BY <1>1, <2>1 DEF IterInv, ServedSoFar
  <2>3. Refilled(n)
    <3>1. it.done = FALSE /\ it.initialized = FALSE
      BY <1>1, <2>1
    <3>2. it' = [limit |-> it.limit, left |-> it.left, buffer |-> Iter!PageOf(n), bufPos |-> it.bufPos,
                 done |-> it.done, initialized |-> TRUE]
      BY <1>1, <2>1
    <3> QED BY <2>2, <3>1, <3>2 DEF Refilled
  <2>4. user'.result = "end" => FALSE
    BY <2>1 DEF IterInv, LeftOfLimit
  <2> QED BY <1>1, <1>7, <2>1, <2>2, <2>3, <2>4, FillKeeps
<1>9. ASSUME NEW n \in Iter!Sizes, Iter!Load(n) PROVE IterInv'
  <2>1. /\ ~it.done /\ it.initialized /\ it.bufPos >= Len(it.buffer) /\ fetched' = fetched + n
        /\ UNCHANGED <<taken, dropped>>
        /\ it' = [it EXCEPT !.buffer = Iter!PageOf(n), !.bufPos = 0, !.done = n = 0]
        /\ IF n = 0 THEN Iter!Return("end") ELSE UNCHANGED user
    BY <1>9 DEF Iter!Load, Iter!Running
  <2>2. Refilled(n)
    <3>1. it.initialized = TRUE
      BY <1>1, <2>1
    <3>2. it' = [limit |-> it.limit, left |-> it.left, buffer |-> Iter!PageOf(n), bufPos |-> 0,
                 done |-> (n = 0), initialized |-> it.initialized]
      BY <1>1, <2>1
    <3>3. (n = 0 /\ it.initialized) = (n = 0)
      BY <3>1
    <3> QED BY <3>1, <3>2, <3>3 DEF Refilled
  <2>3. it'.done = (n = 0)
    BY <1>1, <2>1
  <2>4. user' \in Users /\ (user'.result = "end" => it'.done)
    <3>1. CASE n = 0
      BY <2>1, <2>3, <3>1, ReturnTypes DEF IterInv
    <3>2. CASE n # 0
      BY <1>1, <2>1, <3>2 DEF IterInv, LeftOfLimit
    <3> QED BY <3>1, <3>2
  <2> QED BY <1>7, <2>1, <2>2, <2>4, FillKeeps
<1>10. CASE UNCHANGED iterVars
  <2>1. UNCHANGED <<it, fetched, taken, dropped>> /\ user' = user
    BY <1>10 DEF iterVars
  <2> QED BY <1>1, <2>1, CallerKeeps DEF IterInv, LeftOfLimit
<1> QED BY <1>2, <1>3, <1>4, <1>5, <1>6, <1>8, <1>9, <1>10 DEF Iter!Next

\* It begins empty.
LEMMA IterBegins == Iter!Init /\ Iter!ParametersOK => IterInv
<1> SUFFICES ASSUME Iter!Init, Iter!ParametersOK PROVE IterInv
  OBVIOUS
<1>1. PICK limit \in Caps :
        it = [limit |-> limit, left |-> IF limit <= 0 THEN -1 ELSE limit, buffer |-> << >>, bufPos |-> 0,
              done |-> FALSE, initialized |-> FALSE]
  BY DEF Iter!Init
<1>2. fetched = 0 /\ taken = << >> /\ dropped = {} /\ user = [by |-> "program", busy |-> FALSE, result |-> "none"]
  BY DEF Iter!Init
<1>3. ItemsServed = 0
  BY <1>2, FS_EmptySet DEF ItemsServed
<1>4. << >> \in Seq(1 .. Items) /\ Items \in Nat /\ limit \in Int
  BY DEF Iter!ParametersOK
<1>5. IterTypes
  BY <1>1, <1>2, <1>4 DEF IterTypes
<1>6. ServedSoFar
  <2>1. Elements(taken) = {} /\ 1 .. ItemsServed = {}
    BY <1>2, <1>3 DEF Elements
  <2> QED BY <1>1, <1>2, <1>3, <2>1 DEF ServedSoFar
<1>7. LeftOfLimit
  BY <1>1, <1>2, <1>3, <1>4 DEF LeftOfLimit
<1> QED BY <1>5, <1>6, <1>7 DEF IterInv

\* The items that were served are counted.
LEMMA ItemsAreCounted == IterInv => ItemsServed \in Nat
<1> SUFFICES ASSUME IterInv PROVE ItemsServed \in Nat
  OBVIOUS
<1>1. taken \in Seq(1 .. Items) /\ dropped \in SUBSET (1 .. Items) /\ IsFiniteSet(1 .. Items)
  BY FS_Interval, ListsAssumption DEF IterInv, IterTypes, Iter!ParametersOK
<1>2. IsFiniteSet(dropped)
  BY <1>1, FS_Subset
<1> QED BY <1>1, <1>2, FS_CardinalityType DEF ItemsServed

\* What the run checks of it.
LEMMA IterSound == IterInv => Iter!TypeOK /\ Iter!ItemsInOrder /\ Iter!EndIsTheEnd
<1> SUFFICES ASSUME IterInv PROVE Iter!TypeOK /\ Iter!ItemsInOrder /\ Iter!EndIsTheEnd
  OBVIOUS
<1>1. taken \in Seq(1 .. Items) /\ DOMAIN taken = 1 .. Len(taken)
  BY DEF IterInv, IterTypes
<1>2. Iter!TypeOK
  <2>1. it.left \in {-1} \cup 0 .. it.limit
    <3>1. it.left \in Int /\ it.limit \in Int /\ ItemsServed \in Nat
      BY ItemsAreCounted DEF IterInv, IterTypes
    <3> QED BY <3>1 DEF IterInv, LeftOfLimit
  <2>2. it.bufPos \in Nat /\ Len(it.buffer) \in Nat
    BY DEF IterInv, IterTypes
  <2> QED BY <2>1, <2>2 DEF Iter!TypeOK, IterInv, IterTypes, ServedSoFar
<1>3. Iter!ItemsInOrder
  <2>1. {taken[i] : i \in DOMAIN taken} = Elements(taken)
    BY <1>1 DEF Elements
  <2>2. it.limit > 0 => ItemsServed <= it.limit
    <3>1. it.limit \in Int
      BY DEF IterInv, IterTypes
    <3> QED BY <3>1, ItemsAreCounted DEF IterInv, LeftOfLimit
  <2> QED BY <1>1, <2>1, <2>2, CountItems DEF Iter!ItemsInOrder, IterInv, ServedSoFar
<1>4. Iter!EndIsTheEnd
  BY CountItems DEF Iter!EndIsTheEnd, IterInv, LeftOfLimit
<1> QED BY <1>2, <1>3, <1>4

-----------------------------------------------------------------------------
(* Listings.  The server lists a set by a number that each element has of its
   own, the greatest first: place i is that of the element with i - 1 above. *)

Above(S, k, p) == {q \in S : k[q] > k[p]}
Listed(S, k, L) ==
  /\ L \in [1 .. Cardinality(S) -> S]
  /\ \A p \in S : \E i \in 1 .. Cardinality(S) : L[i] = p
  /\ \A i, j \in 1 .. Cardinality(S) : i < j => k[L[i]] > k[L[j]]

\* An element with a greater number has fewer above it.
LEMMA HigherHasFewer ==
  ASSUME NEW S, IsFiniteSet(S), NEW k \in [S -> Int], NEW p \in S, NEW q \in S, k[q] > k[p]
  PROVE  /\ Cardinality(Above(S, k, q)) < Cardinality(Above(S, k, p))
         /\ Cardinality(Above(S, k, q)) \in Nat /\ Cardinality(Above(S, k, p)) \in Nat
<1> DEFINE U == Above(S, k, q)
           V == Above(S, k, p)
<1>1. U \in SUBSET V /\ q \in V /\ q \notin U /\ V \in SUBSET S
  BY DEF Above
<1> HIDE DEF U, V
<1>2. IsFiniteSet(V)
  BY <1>1, FS_Subset
<1>3. Cardinality(V) \in Nat /\ IsFiniteSet(U) /\ Cardinality(U) \in Nat
  BY <1>1, <1>2, FS_Subset, FS_CardinalityType
<1>4. Cardinality(U) <= Cardinality(V) /\ (Cardinality(V) = Cardinality(U) => V = U)
  BY <1>1, <1>2, FS_Subset
<1>5. Cardinality(U) < Cardinality(V)
  BY <1>1, <1>3, <1>4
<1> QED BY <1>3, <1>5 DEF U, V

\* Every place has an element.
LEMMA EveryPlaceTaken ==
  ASSUME NEW S, IsFiniteSet(S), NEW k \in [S -> Int], \A p, q \in S : k[p] = k[q] => p = q
  PROVE  /\ Cardinality(S) \in Nat
         /\ \A i \in 1 .. Cardinality(S) : \E p \in S : Cardinality(Above(S, k, p)) = i - 1
         /\ \A p \in S : Cardinality(Above(S, k, p)) + 1 \in 1 .. Cardinality(S)
<1> DEFINE n == Cardinality(S)
           Place(p) == Cardinality(Above(S, k, p)) + 1
           place == [p \in S |-> Place(p)]
<1>1. n \in Nat
  BY FS_CardinalityType
<1>2. ASSUME NEW p \in S PROVE Place(p) \in 1 .. n
  <2> DEFINE V == Above(S, k, p)
  <2>1. V \in SUBSET S /\ p \notin V
    BY DEF Above
  <2> HIDE DEF V
  <2>2. IsFiniteSet(V) /\ Cardinality(V) <= n /\ (n = Cardinality(V) => S = V) /\ Cardinality(V) \in Nat
    BY <2>1, FS_Subset, FS_CardinalityType
  <2>3. Cardinality(V) + 1 \in 1 .. n
    BY <1>1, <2>1, <2>2
  <2> QED BY <2>3 DEF V
<1>3. place \in [S -> 1 .. n]
  <2> HIDE DEF Place, n
  <2> QED BY <1>2
<1>4. ASSUME NEW p \in S, NEW q \in S, place[p] = place[q] PROVE p = q
  <2>1. Cardinality(Above(S, k, p)) + 1 = Cardinality(Above(S, k, q)) + 1
    BY <1>4
  <2>2. k[p] \in Int /\ k[q] \in Int
    OBVIOUS
  <2> HIDE DEF place, n, Place
  <2>3. CASE k[p] > k[q]
    <3>1. /\ Cardinality(Above(S, k, p)) < Cardinality(Above(S, k, q))
          /\ Cardinality(Above(S, k, p)) \in Nat /\ Cardinality(Above(S, k, q)) \in Nat
      BY <2>3, HigherHasFewer
    <3> QED BY <2>1, <3>1
  <2>4. CASE k[q] > k[p]
    <3>1. /\ Cardinality(Above(S, k, q)) < Cardinality(Above(S, k, p))
          /\ Cardinality(Above(S, k, p)) \in Nat /\ Cardinality(Above(S, k, q)) \in Nat
      BY <2>4, HigherHasFewer
    <3> QED BY <2>1, <3>1
  <2>5. CASE k[p] = k[q]
    BY <2>5
  <2> QED BY <2>2, <2>3, <2>4, <2>5
<1>5. place \in Injection(S, 1 .. n)
  <2> HIDE DEF place, n
  <2> QED BY <1>3, <1>4 DEF Injection, IsInjective
<1>6. place \in Surjection(S, 1 .. n)
  <2> HIDE DEF place
  <2>1. IsFiniteSet(1 .. n) /\ Cardinality(1 .. n) = n
    <3> HIDE DEF n
    <3> QED BY <1>1, FS_Interval
  <2> QED BY <1>5, <2>1, FS_Injection
<1>7. \A i \in 1 .. n : \E p \in S : place[p] = i
  <2> HIDE DEF place, n
  <2> QED BY <1>6 DEF Surjection
<1>8. ASSUME NEW i \in 1 .. n PROVE \E p \in S : Cardinality(Above(S, k, p)) = i - 1
  <2>1. PICK p \in S : place[p] = i
    BY <1>7
  <2>2. Place(p) = i /\ Cardinality(Above(S, k, p)) \in Nat
    <3>1. Above(S, k, p) \in SUBSET S
      BY DEF Above
    <3> QED BY <2>1, <3>1, FS_Subset, FS_CardinalityType
  <2> QED BY <1>1, <2>2
<1> QED BY <1>1, <1>2, <1>8

\* A sequence with such an element in every place is the whole set, sorted.
LEMMA PlacesSort ==
  ASSUME NEW S, IsFiniteSet(S), NEW k \in [S -> Int], \A p, q \in S : k[p] = k[q] => p = q,
         NEW L \in [1 .. Cardinality(S) -> S],
         \A i \in 1 .. Cardinality(S) : Cardinality(Above(S, k, L[i])) = i - 1
  PROVE  Listed(S, k, L)
<1> DEFINE n == Cardinality(S)
<1>1. n \in Nat
  BY FS_CardinalityType
<1>2. ASSUME NEW i \in 1 .. n, NEW j \in 1 .. n, i < j PROVE k[L[i]] > k[L[j]]
  <2>1. L[i] \in S /\ L[j] \in S /\ k[L[i]] \in Int /\ k[L[j]] \in Int
    OBVIOUS
  <2>2. Cardinality(Above(S, k, L[i])) = i - 1 /\ Cardinality(Above(S, k, L[j])) = j - 1 /\ i \in Int /\ j \in Int
    BY <1>1
  <2>3. CASE k[L[j]] > k[L[i]]
    <3>1. Cardinality(Above(S, k, L[j])) < Cardinality(Above(S, k, L[i]))
      BY <2>1, <2>3, HigherHasFewer
    <3> QED BY <1>2, <2>2, <3>1
  <2>4. CASE k[L[j]] = k[L[i]]
    <3>1. L[i] = L[j]
      BY <2>1, <2>4
    <3> QED BY <1>2, <2>2, <3>1
  <2> QED BY <2>1, <2>3, <2>4
<1>3. ASSUME NEW p \in S PROVE \E i \in 1 .. n : L[i] = p
  <2> DEFINE i == Cardinality(Above(S, k, p)) + 1
  <2>1. i \in 1 .. n
    BY EveryPlaceTaken
  <2>2. L[i] \in S /\ Cardinality(Above(S, k, L[i])) = Cardinality(Above(S, k, p))
    <3>1. Cardinality(Above(S, k, L[i])) = i - 1
      BY <2>1
    <3>2. Cardinality(Above(S, k, p)) \in Nat
      <4>1. Above(S, k, p) \in SUBSET S
        BY DEF Above
      <4> QED BY <4>1, FS_Subset, FS_CardinalityType
    <3> QED BY <2>1, <3>1, <3>2
  <2> HIDE DEF i
  <2>3. k[L[i]] \in Int /\ k[p] \in Int
    BY <2>2
  <2>4. ~(k[L[i]] > k[p])
    <3> SUFFICES ASSUME k[L[i]] > k[p] PROVE FALSE
      OBVIOUS
    <3>1. /\ Cardinality(Above(S, k, L[i])) < Cardinality(Above(S, k, p))
          /\ Cardinality(Above(S, k, p)) \in Nat
      BY <2>2, HigherHasFewer
    <3> QED BY <2>2, <3>1
  <2>5. ~(k[p] > k[L[i]])
    <3> SUFFICES ASSUME k[p] > k[L[i]] PROVE FALSE
      OBVIOUS
    <3>1. /\ Cardinality(Above(S, k, p)) < Cardinality(Above(S, k, L[i]))
          /\ Cardinality(Above(S, k, p)) \in Nat
      BY <2>2, HigherHasFewer
    <3> QED BY <2>2, <3>1
  <2>6. L[i] = p
    BY <2>2, <2>3, <2>4, <2>5
  <2> QED BY <2>1, <2>6
<1> QED BY <1>2, <1>3 DEF Listed

-----------------------------------------------------------------------------
(* The listings of a forum. *)

\* A set of numbers, the greatest first.
LEMMA NewestSorts ==
  ASSUME NEW S \in SUBSET Int, IsFiniteSet(S)
  PROVE  LET L == Topics!Newest(S) IN
         /\ Cardinality(S) \in Nat /\ L \in Seq(S) /\ Len(L) = Cardinality(S)
         /\ Elements(L) = S
         /\ \A i, j \in 1 .. Len(L) : i < j => L[i] > L[j]
<1> DEFINE k == [p \in S |-> p]
           n == Cardinality(S)
           L == Topics!Newest(S)
<1>1. k \in [S -> Int] /\ \A p, q \in S : k[p] = k[q] => p = q
  OBVIOUS
<1>2. \A X : Topics!Cardinality(X) = Cardinality(X)
  BY DEF Topics!Cardinality, Cardinality
<1>3. \A p \in S : Above(S, k, p) = {q \in S : q > p}
  BY DEF Above
<1>4. n \in Nat /\ \A i \in 1 .. n : \E p \in S : Topics!Cardinality({q \in S : q > p}) = i - 1
  <2> HIDE DEF k, n
  <2>1. n \in Nat /\ \A i \in 1 .. n : \E p \in S : Cardinality(Above(S, k, p)) = i - 1
    BY <1>1, EveryPlaceTaken DEF n
  <2> QED BY <1>2, <1>3, <2>1
<1>5. L = [i \in 1 .. n |-> CHOOSE p \in S : Topics!Cardinality({q \in S : q > p}) = i - 1]
  <2>1. Topics!Cardinality(S) = n
    BY <1>2
  <2> QED BY <2>1 DEF Topics!Newest
<1> HIDE DEF L, k, n
<1>6. \A i \in 1 .. n : L[i] \in S /\ Topics!Cardinality({q \in S : q > L[i]}) = i - 1
  BY <1>4, <1>5
<1>7. L \in [1 .. n -> S] /\ \A i \in 1 .. n : Cardinality(Above(S, k, L[i])) = i - 1
  <2>1. \A i \in 1 .. n : Cardinality(Above(S, k, L[i])) = i - 1
    BY <1>2, <1>3, <1>6
  <2>2. L \in [1 .. n -> S]
    BY <1>5, <1>6
  <2> QED BY <2>1, <2>2
<1>8. Listed(S, k, L)
  BY <1>1, <1>7, PlacesSort DEF n
<1>9. L \in Seq(S) /\ Len(L) = n
  BY <1>4, <1>7
<1>10. Elements(L) = S
  BY <1>7, <1>8, <1>9 DEF Elements, Listed, n
<1>11. \A i, j \in 1 .. Len(L) : i < j => L[i] > L[j]
  BY <1>7, <1>8, <1>9 DEF Listed, n, k
<1> QED BY <1>4, <1>9, <1>10, <1>11 DEF L, n

\* The beginning of a sorted sequence holds its greatest elements, each once.
LEMMA PrefixOfSorted ==
  ASSUME NEW S \in SUBSET Int, NEW L \in Seq(S), NEW m \in 0 .. Len(L),
         \A i, j \in 1 .. Len(L) : i < j => L[i] > L[j]
  PROVE  LET P == SubSeq(L, 1, m) IN
         /\ P \in Seq(S) /\ Len(P) = m /\ Elements(P) \in SUBSET Elements(L)
         /\ IsFiniteSet(Elements(P)) /\ Cardinality(Elements(P)) = m
         /\ \A p \in Elements(L) : p \in Elements(P) \/ (m < Len(L) /\ \A q \in Elements(P) : q > p)
         /\ m > 0 => P[m] \in Elements(P) /\ \A q \in Elements(P) : q >= P[m]
<1> DEFINE P == SubSeq(L, 1, m)
<1>1. /\ P \in Seq(S) /\ Len(P) = m /\ \A i \in 1 .. m : P[i] = L[i]
      /\ m \in Nat /\ Len(L) \in Nat /\ \A i \in 1 .. m : i \in 1 .. Len(L)
  OBVIOUS
<1> HIDE DEF P
<1>2. Elements(P) = {L[i] : i \in 1 .. m}
  BY <1>1 DEF Elements
<1>3. Elements(P) \in SUBSET Elements(L)
  BY <1>1, <1>2 DEF Elements
<1>4. \A i \in 1 .. Len(L) : L[i] \in Int
  <2>1. \A i \in 1 .. Len(L) : L[i] \in S
    OBVIOUS
  <2> QED BY <2>1
<1>5. P \in Bijection(1 .. m, Elements(P))
  <2>1. P \in [1 .. m -> Elements(P)]
    BY <1>1, <1>2
  <2>2. ASSUME NEW i \in 1 .. m, NEW j \in 1 .. m, P[i] = P[j] PROVE i = j
    <3>1. i \in Int /\ j \in Int /\ L[i] = L[j] /\ i \in 1 .. Len(L) /\ j \in 1 .. Len(L)
      BY <1>1, <2>2
    <3>2. ~(i < j) /\ ~(j < i)
      BY <1>4, <3>1
    <3> QED BY <3>1, <3>2
  <2>3. \A p \in Elements(P) : \E i \in 1 .. m : P[i] = p
    BY <1>1, <1>2
  <2> QED BY <2>1, <2>2, <2>3 DEF Bijection, Injection, Surjection, IsInjective
<1>6. IsFiniteSet(Elements(P)) /\ Cardinality(Elements(P)) = m
  <2>1. IsFiniteSet(1 .. m) /\ Cardinality(1 .. m) = m
    BY <1>1, FS_Interval
  <2>2. ExistsBijection(1 .. m, Elements(P))
    BY <1>5 DEF ExistsBijection
  <2> QED BY <2>1, <2>2, FS_Bijection
<1>7. ASSUME NEW p \in Elements(L), p \notin Elements(P)
      PROVE  m < Len(L) /\ \A q \in Elements(P) : q > p
  <2>1. PICK i \in 1 .. Len(L) : L[i] = p
    BY DEF Elements
  <2>2. i \in Int /\ ~(i \in 1 .. m)
    BY <1>2, <1>7, <2>1
  <2>3. m < i /\ m < Len(L)
    BY <1>1, <2>2
  <2>4. ASSUME NEW q \in Elements(P) PROVE q > p
    <3>1. PICK j \in 1 .. m : L[j] = q
      BY <1>2
    <3>2. j < i /\ j \in 1 .. Len(L)
      BY <1>1, <2>2, <2>3, <3>1
    <3> QED BY <2>1, <3>1, <3>2
  <2> QED BY <2>3, <2>4
<1>8. ASSUME m > 0 PROVE P[m] \in Elements(P) /\ \A q \in Elements(P) : q >= P[m]
  <2>1. m \in 1 .. m
    BY <1>1, <1>8
  <2>2. P[m] = L[m] /\ P[m] \in Elements(P) /\ m \in 1 .. Len(L)
    BY <1>1, <1>2, <2>1
  <2>3. ASSUME NEW q \in Elements(P) PROVE q >= P[m]
    <3>1. PICK j \in 1 .. m : L[j] = q
      BY <1>2
    <3>2. j \in 1 .. Len(L) /\ (j < m \/ j = m) /\ L[j] \in Int /\ L[m] \in Int
      BY <1>1, <1>4, <2>2, <3>1
    <3>3. CASE j < m
      BY <2>2, <3>1, <3>2, <3>3
    <3>4. CASE j = m
      BY <2>2, <3>1, <3>2, <3>4
    <3> QED BY <3>2, <3>3, <3>4
  <2> QED BY <2>2, <2>3
<1> QED BY <1>1, <1>3, <1>6, <1>7, <1>8 DEF P

\* The posts below the cursor, those on the page, and those that are given.
Lower == {i \in 1 .. Len(posts) : posts[i] # "gone" /\ (walk.offset = 0 \/ i < walk.offset)}
PageIds  == Elements(Topics!Page)
BatchIds == Elements(Topics!Batch)
Rank(s)  == \A i, j \in 1 .. Len(s) : i < j => s[i] > s[j]

\* A page holds the posts below the cursor, or as many of the newest as it can.
PageHolds ==
  /\ Topics!Page \in Seq(Lower)
  /\ PageIds \in SUBSET Lower /\ IsFiniteSet(PageIds)
  /\ Cardinality(PageIds) = Len(Topics!Page)
  /\ \A p \in Lower : p \in PageIds \/ (Cardinality(PageIds) = BatchSize /\ \A q \in PageIds : q > p)
  /\ Topics!Page # << >> =>
       LET last == Topics!Page[Len(Topics!Page)] IN last \in PageIds /\ \A q \in PageIds : q >= last
  /\ Topics!Page = << >> => PageIds = {}

\* The page that the server answers with.
LEMMA ForumPage == ForumTypes => PageHolds /\ Lower \in SUBSET Int /\ IsFiniteSet(Lower)
<1> SUFFICES ASSUME ForumTypes PROVE PageHolds /\ Lower \in SUBSET Int /\ IsFiniteSet(Lower)
  OBVIOUS
<1>1. posts \in Seq(Sorts) /\ Len(posts) \in Nat
  BY DEF ForumTypes
<1>2. Topics!There({"post", "odd"}) = {i \in 1 .. Len(posts) : posts[i] # "gone"}
  BY <1>1 DEF Topics!There, Sorts
<1>3. {i \in Topics!There({"post", "odd"}) : walk.offset = 0 \/ i < walk.offset} = Lower
  BY <1>2 DEF Lower
<1>4. IsFiniteSet(Lower) /\ Lower \in SUBSET Int
  <2>1. Lower \in SUBSET (1 .. Len(posts)) /\ IsFiniteSet(1 .. Len(posts))
    BY <1>1, FS_Interval DEF Lower
  <2>2. Lower \in SUBSET Int
    BY <2>1
  <2> QED BY <2>1, <2>2, FS_Subset
<1> DEFINE L == Topics!Below
           n == Cardinality(Lower)
           m == IF Len(L) < BatchSize THEN Len(L) ELSE BatchSize
<1>5. /\ n \in Nat /\ L \in Seq(Lower) /\ Len(L) = n /\ Elements(L) = Lower
      /\ \A i, j \in 1 .. Len(L) : i < j => L[i] > L[j]
  <2>1. L = Topics!Newest(Lower)
    BY <1>3 DEF Topics!Below
  <2> HIDE DEF L
  <2> QED BY <1>4, <2>1, NewestSorts
<1>6. m \in 0 .. Len(L) /\ (m < Len(L) => m = BatchSize) /\ Topics!Page = SubSeq(L, 1, m)
  <2>1. Topics!Page = SubSeq(L, 1, m)
    BY DEF Topics!Page
  <2> HIDE DEF L
  <2>2. BatchSize \in Nat
    BY BatchSizeAssumption
  <2> QED BY <1>5, <2>1, <2>2
<1> HIDE DEF L, n, m
<1>7. LET P == Topics!Page IN
      /\ P \in Seq(Lower) /\ Len(P) = m /\ Elements(P) \in SUBSET Elements(L)
      /\ IsFiniteSet(Elements(P)) /\ Cardinality(Elements(P)) = m
      /\ \A p \in Elements(L) : p \in Elements(P) \/ (m < Len(L) /\ \A q \in Elements(P) : q > p)
      /\ m > 0 => P[m] \in Elements(P) /\ \A q \in Elements(P) : q >= P[m]
  BY <1>4, <1>5, <1>6, PrefixOfSorted
<1>8. (Topics!Page = << >> => PageIds = {}) /\ (Topics!Page # << >> => m > 0)
  BY <1>5, <1>6, <1>7 DEF PageIds, Elements
<1> QED BY <1>4, <1>5, <1>6, <1>7, <1>8 DEF PageHolds, PageIds

\* Of a page the posts are given, in its order.
BatchHolds ==
  LET batch == Topics!Batch
      given1 == Topics!Given
  IN /\ BatchIds = {i \in PageIds : posts[i] = "post"}
     /\ batch \in Seq(1 .. Len(posts)) /\ given1 \in Seq(1 .. Len(posts))
     /\ Rank(batch) /\ Len(batch) = Cardinality(BatchIds) /\ IsFiniteSet(BatchIds)
     /\ Elements(given1) = BatchIds
     /\ batch # << >> => Topics!LastGiven \in BatchIds
     /\ ~walk.reverse => given1 = batch /\ (batch # << >> => \A q \in BatchIds : q >= Topics!LastGiven)
     /\ batch = << >> => BatchIds = {}

\* What the code keeps of that page, and the order it gives it in.
LEMMA ForumBatch == ForumTypes => BatchHolds
<1> SUFFICES ASSUME ForumTypes PROVE BatchHolds
  OBVIOUS
<1> DEFINE B == {i \in PageIds : posts[i] = "post"}
           N == 1 .. Len(posts)
           batch == Topics!Batch
           turned == Topics!Turned(batch)
           m == Len(batch)
<1>1. PageHolds /\ Lower \in SUBSET Int /\ IsFiniteSet(Lower) /\ Lower \in SUBSET N
  BY ForumPage DEF Lower
<1>2. B \in SUBSET Int /\ IsFiniteSet(B) /\ B \in SUBSET N
  <2>1. B \in SUBSET Lower
    BY <1>1 DEF PageHolds
  <2> QED BY <1>1, <2>1, FS_Subset
<1>3. batch = Topics!Newest(B)
  <2>1. DOMAIN Topics!Page = 1 .. Len(Topics!Page)
    BY <1>1 DEF PageHolds
  <2>2. Topics!Range(Topics!Page) = PageIds
    BY <2>1 DEF Topics!Range, PageIds, Elements
  <2> QED BY <2>2 DEF Topics!Batch
<1> HIDE DEF batch, B, N
<1>4. /\ Cardinality(B) \in Nat /\ batch \in Seq(B) /\ m = Cardinality(B) /\ Elements(batch) = B
      /\ \A i, j \in 1 .. m : i < j => batch[i] > batch[j]
  BY <1>2, <1>3, NewestSorts
<1>5. BatchIds = B /\ m \in Nat /\ batch \in Seq(N) /\ batch \in Seq(Int)
  <2>1. \A i \in 1 .. m : batch[i] \in B
    BY <1>4
  <2>2. \A i \in 1 .. m : batch[i] \in N /\ batch[i] \in Int
    BY <1>2, <2>1
  <2> QED BY <1>2, <1>4, <2>2, SeqDef DEF BatchIds, batch
<1>6. turned = [i \in 1 .. m |-> batch[m + 1 - i]]
  BY <1>5 DEF Topics!Turned
<1> HIDE DEF turned, m
<1>7. \A i \in 1 .. m : m + 1 - i \in 1 .. m /\ m + 1 - (m + 1 - i) = i
  BY <1>5
<1>8. turned \in Seq(N) /\ Len(turned) = m
  <2>1. \A i \in 1 .. m : turned[i] \in N
    BY <1>5, <1>6, <1>7 DEF m
  <2>2. turned \in [1 .. m -> N]
    BY <1>6, <2>1
  <2> QED BY <1>5, <2>2
<1>9. Elements(turned) = B
  <2>1. Elements(turned) = {batch[m + 1 - i] : i \in 1 .. m}
    BY <1>6, <1>8 DEF Elements
  <2>2. \A i \in 1 .. m : batch[i] = batch[m + 1 - (m + 1 - i)]
    BY <1>7
  <2>3. Elements(batch) = {batch[i] : i \in 1 .. m}
    BY DEF Elements, m
  <2>4. ASSUME NEW i \in 1 .. m PROVE batch[i] \in Elements(turned)
    <3>1. m + 1 - i \in 1 .. m /\ batch[i] = batch[m + 1 - (m + 1 - i)]
      BY <1>7, <2>2
    <3> QED BY <2>1, <3>1
  <2>5. ASSUME NEW i \in 1 .. m PROVE batch[m + 1 - i] \in Elements(batch)
    BY <1>7, <2>3
  <2>6. Elements(batch) \subseteq Elements(turned)
    BY <2>3, <2>4
  <2>7. Elements(turned) \subseteq Elements(batch)
    BY <2>1, <2>5
  <2>8. Elements(batch) = B
    BY <1>4
  <2> QED BY <2>6, <2>7, <2>8
<1>10. Topics!Given = (IF walk.reverse THEN turned ELSE batch)
  BY DEF Topics!Given, turned, batch
<1>11. Topics!Given \in Seq(N) /\ Len(Topics!Given) = m /\ Elements(Topics!Given) = B
  BY <1>4, <1>5, <1>8, <1>9, <1>10 DEF m
<1>12. batch # << >> => m > 0
  BY <1>5 DEF m
<1>13. batch # << >> => Topics!LastGiven \in B
  BY <1>5, <1>11, <1>12 DEF Topics!LastGiven, Elements
<1>14. ASSUME batch # << >>, ~walk.reverse, NEW q \in B PROVE q >= Topics!LastGiven
  <2>1. Topics!LastGiven = batch[m] /\ m \in 1 .. m
    BY <1>5, <1>10, <1>12, <1>14 DEF Topics!LastGiven, m
  <2>2. PICK i \in 1 .. m : batch[i] = q
    BY <1>4 DEF Elements, m
  <2>3. q \in Int /\ batch[m] \in Int
    BY <1>2, <1>4, <2>1, <2>2 DEF Elements, m
  <2>4. CASE i = m
    BY <2>1, <2>2, <2>3, <2>4
  <2>5. CASE i # m
    <3>1. i < m
      BY <1>5, <2>5
    <3> QED BY <1>4, <2>1, <2>2, <2>3, <3>1
  <2> QED BY <2>4, <2>5
<1>15. batch = << >> => B = {}
  <2>1. batch = << >> => 1 .. Len(batch) = {}
    BY <1>5
  <2> QED BY <1>4, <2>1 DEF Elements
<1>16. Rank(batch)
  BY <1>4 DEF Rank, m
<1> QED BY <1>2, <1>4, <1>5, <1>10, <1>11, <1>13, <1>14, <1>15, <1>16 DEF BatchHolds, batch, B, N, m

\* A post that stayed and is neither given nor on this page is further down, and
\* then the page is a full one.
LEMMA StayedBehind ==
  ASSUME ForumTypes, Histories, CursorDivides, walk.pc = "fetch",
         NEW p \in stayed, p \notin Elements(shown), p \notin BatchIds
  PROVE  /\ p \in Lower /\ p \in ever /\ p \notin PageIds /\ Cardinality(PageIds) = BatchSize
         /\ \A q \in PageIds : q > p
<1>1. p \in 1 .. Len(posts) /\ posts[p] = "post" /\ p \in ever
  BY DEF Histories
<1>2. walk.offset = 0 \/ p < walk.offset
  BY DEF CursorDivides
<1>3. p \in Lower
  BY <1>1, <1>2 DEF Lower
<1>4. p \notin PageIds
  BY <1>1, ForumBatch DEF BatchHolds
<1> QED BY <1>1, <1>3, <1>4, ForumPage DEF PageHolds

\* A page is given after those before it, in the order it is given in.
LEMMA PageShown ==
  ASSUME ForumTypes, Histories, CursorDivides, walk.pc = "fetch", shown' = shown \o Topics!Given, UNCHANGED posts
  PROVE  /\ shown' \in Seq(1 .. Len(posts))
         /\ Elements(shown') = Elements(shown) \cup BatchIds
         /\ ~walk.reverse =>
              /\ \A i, j \in 1 .. Len(shown') : i < j => shown'[i] > shown'[j]
              /\ \A i \in 1 .. Len(shown') : shown'[i] \in BatchIds \/ \A q \in Lower : shown'[i] > q
<1> DEFINE g == Topics!Given
           m == Len(shown)
           n == Len(g)
           N == 1 .. Len(posts)
<1>1. g \in Seq(N) /\ Elements(g) = BatchIds /\ BatchIds \in SUBSET PageIds
  BY ForumBatch DEF BatchHolds
<1>2. shown \in Seq(N) /\ Len(posts) \in Nat
  BY DEF ForumTypes
<1> HIDE DEF g, N
<1>3. /\ shown' \in Seq(N) /\ Len(shown') = m + n /\ m \in Nat /\ n \in Nat
      /\ \A i \in 1 .. m + n : shown'[i] = IF i <= m THEN shown[i] ELSE g[i - m]
      /\ Elements(shown') = Elements(shown) \cup Elements(g)
  <2>1. shown' = shown \o g
    BY DEF g
  <2> QED BY <1>1, <1>2, <2>1, Concatenation, JoinElements
<1>4. ASSUME NEW i \in 1 .. n PROVE g[i] \in BatchIds /\ g[i] \in Lower
  <2>1. g[i] \in BatchIds
    BY <1>1 DEF Elements
  <2> QED BY <1>1, <2>1, ForumPage DEF PageHolds
<1> HIDE DEF m, n
<1>5. ASSUME NEW i \in 1 .. m + n PROVE (i \in 1 .. m /\ shown'[i] = shown[i]) \/ (i - m \in 1 .. n /\ i > m /\ shown'[i] = g[i - m])
  BY <1>3
<1>6. Lower \in SUBSET Int /\ \A q \in Lower : q > 0 /\ (walk.offset = 0 \/ q < walk.offset)
  BY <1>2 DEF Lower
<1>7. walk.offset \in Nat /\ \A i \in 1 .. m : shown[i] \in Int
  <2>1. walk.offset \in 0 .. MaxPost
    BY DEF ForumTypes, WalkRecord
  <2>2. \A i \in 1 .. m : shown[i] \in N
    BY <1>2 DEF m
  <2> QED BY <1>2, <2>1, <2>2 DEF N
<1>8. ASSUME ~walk.reverse, NEW i \in 1 .. m, NEW q \in Lower PROVE shown[i] > q
  <2>1. shown[i] >= walk.offset /\ walk.offset > 0
    BY <1>8 DEF CursorDivides, m
  <2> QED BY <1>6, <1>7, <2>1
<1>9. ASSUME ~walk.reverse, NEW i \in 1 .. m + n, NEW j \in 1 .. m + n, i < j PROVE shown'[i] > shown'[j]
  <2>1. CASE j \in 1 .. m /\ shown'[j] = shown[j]
    <3>1. i \in 1 .. m
      BY <1>3, <1>9, <2>1
    <3>2. shown'[i] = shown[i]
      BY <1>3, <1>5, <3>1
    <3> QED BY <1>9, <2>1, <3>1, <3>2 DEF CursorDivides, m
  <2>2. CASE j - m \in 1 .. n /\ j > m /\ shown'[j] = g[j - m]
    <3>1. shown'[j] \in Lower
      BY <1>4, <2>2
    <3>2. CASE i \in 1 .. m /\ shown'[i] = shown[i]
      BY <1>8, <1>9, <3>1, <3>2
    <3>3. CASE i - m \in 1 .. n /\ i > m /\ shown'[i] = g[i - m]
      <4>1. Rank(g)
        BY <1>9, ForumBatch DEF BatchHolds, g
      <4>2. i - m < j - m
        BY <1>3, <1>9
      <4> QED BY <2>2, <3>3, <4>1, <4>2 DEF Rank, n
    <3> QED BY <1>5, <3>2, <3>3
  <2> QED BY <1>5, <2>1, <2>2
<1>10. ASSUME ~walk.reverse, NEW i \in 1 .. m + n PROVE shown'[i] \in BatchIds \/ \A q \in Lower : shown'[i] > q
  BY <1>4, <1>5, <1>8, <1>10
<1> QED BY <1>1, <1>3, <1>9, <1>10 DEF N

\* A page is given and the call goes on behind its last post, or ends.
LEMMA GivesPage ==
  ASSUME ForumInv, walk.pc = "fetch", shown' = shown \o Topics!Given, UNCHANGED <<posts, ever, stayed>>,
         NEW last \in PageIds, last = walk'.offset \/ walk'.pc = "idle",
         walk' \in WalkRecord, walk'.how = walk.how, walk'.reverse = walk.reverse,
         walk'.pc = "fetch" => /\ walk'.result = "none"
                               /\ walk.how = "IterTopics" => \A q \in PageIds : q >= last
                               /\ ~walk.reverse => \A q \in BatchIds : q >= last,
         walk'.offset = walk.offset \/ walk'.offset = last,
         walk'.result = "ok" /\ ~walk'.odd => walk.how = "IterTopics" /\ Topics!CountReached
  PROVE  ForumInv'
<1> USE DEF ForumInv
<1>1. /\ shown' \in Seq(1 .. Len(posts)) /\ Elements(shown') = Elements(shown) \cup BatchIds
      /\ ~walk.reverse =>
           /\ \A i, j \in 1 .. Len(shown') : i < j => shown'[i] > shown'[j]
           /\ \A i \in 1 .. Len(shown') : shown'[i] \in BatchIds \/ \A q \in Lower : shown'[i] > q
  BY PageShown
<1>2. last \in Lower /\ last \in 1 .. Len(posts) /\ Len(posts) \in Nat /\ Lower \in SUBSET (1 .. Len(posts))
  BY ForumPage DEF PageHolds, Lower, ForumTypes
<1>3. ForumTypes'
  <2>1. walk'.offset <= Len(posts)
    BY <1>2 DEF ForumTypes
  <2> QED BY <1>1, <2>1 DEF ForumTypes
<1>4. Histories'
  BY DEF Histories
<1>5. \A p \in stayed \ Elements(shown') :
        /\ p \in Lower /\ p \in ever /\ p \notin PageIds /\ Cardinality(PageIds) = BatchSize
        /\ \A q \in PageIds : q > p
  BY <1>1, StayedBehind
<1>6. CursorDivides'
  <2>1. ASSUME ~walk.reverse, walk'.pc = "fetch", NEW i \in 1 .. Len(shown') PROVE shown'[i] >= last /\ last > 0
    <3>1. last > 0 /\ last \in Int
      BY <1>2
    <3>2. shown'[i] \in Int
      <4>1. shown'[i] \in 1 .. Len(posts)
        BY <1>1
      <4> QED BY <1>2, <4>1
    <3>3. CASE shown'[i] \in BatchIds
      BY <2>1, <3>1, <3>3
    <3>4. CASE \A q \in Lower : shown'[i] > q
      BY <1>2, <3>1, <3>2, <3>4
    <3> QED BY <1>1, <2>1, <3>1, <3>3, <3>4
  <2>2. ASSUME walk'.pc = "fetch", NEW p \in stayed \ Elements(shown') PROVE p < last
    <3>1. last > p /\ p \in 1 .. Len(posts)
      <4>1. p \in Lower /\ \A q \in PageIds : q > p
        BY <1>5
      <4> QED BY <1>2, <4>1
    <3> QED BY <1>2, <3>1
  <2>3. walk'.pc = "fetch" => walk'.offset = last
    BY DEF WalkRecord
  <2>4. ~walk'.reverse => \A i, j \in 1 .. Len(shown') : i < j => shown'[i] > shown'[j]
    BY <1>1
  <2>5. ~walk'.reverse /\ walk'.pc = "fetch" => \A i \in 1 .. Len(shown') : shown'[i] >= walk'.offset /\ walk'.offset > 0
    BY <2>1, <2>3
  <2>6. walk'.pc = "fetch" => \A p \in stayed' \ Elements(shown') : walk'.offset = 0 \/ p < walk'.offset
    BY <2>2, <2>3
  <2> QED BY <2>4, <2>5, <2>6 DEF CursorDivides, Elements
<1>7. IsFiniteSet(ever) /\ Cardinality(ever) \in Nat /\ PageIds \in SUBSET ever /\ IsFiniteSet(PageIds)
  <2>1. IsFiniteSet(1 .. Len(posts)) /\ ever \in SUBSET (1 .. Len(posts))
    BY <1>2, FS_Interval DEF Histories
  <2>2. PageIds \in SUBSET Lower /\ IsFiniteSet(PageIds)
    BY ForumPage DEF PageHolds
  <2>3. Lower \in SUBSET ever
    BY DEF Lower, Histories
  <2> QED BY <2>1, <2>2, <2>3, FS_Subset, FS_CardinalityType
<1>8. FullPage'
  <2> SUFFICES ASSUME walk.how = "IterTopics", walk'.pc = "fetch"
               PROVE  \/ \A i \in 1 .. Len(posts) : posts[i] # "gone" => i >= last
                      \/ Cardinality({i \in ever : i >= last}) >= BatchSize
    BY DEF FullPage, WalkRecord
  <2>1. \A q \in PageIds : q >= last
    OBVIOUS
  <2>2. CASE Cardinality(PageIds) = BatchSize
    <3> DEFINE T == {i \in ever : i >= last}
    <3>1. PageIds \in SUBSET T /\ T \in SUBSET ever
      BY <1>7, <2>1
    <3> HIDE DEF T
    <3>2. IsFiniteSet(T)
      BY <1>7, <3>1, FS_Subset
    <3>3. Cardinality(T) >= BatchSize
      BY <2>2, <3>1, <3>2, FS_Subset, FS_CardinalityType, BatchSizeAssumption
    <3> QED BY <3>3 DEF T
  <2>3. CASE Cardinality(PageIds) # BatchSize
    <3>1. Lower \in SUBSET PageIds
      BY <2>3, ForumPage DEF PageHolds
    <3>2. ASSUME NEW i \in 1 .. Len(posts), posts[i] # "gone" PROVE i >= last
      <4>1. walk.offset \in Int /\ (walk.offset = 0 \/ last < walk.offset)
        BY <1>2 DEF Lower, ForumTypes, WalkRecord
      <4>2. i \in Int /\ last \in Int
        BY <1>2
      <4>3. CASE i \in Lower
        BY <2>1, <3>1, <4>3
      <4>4. CASE i \notin Lower
        <5>1. ~(walk.offset = 0 \/ i < walk.offset)
          BY <3>2, <4>4 DEF Lower
        <5> QED BY <4>1, <4>2, <5>1
      <4> QED BY <4>3, <4>4
    <3> QED BY <3>2
  <2> QED BY <2>2, <2>3
<1>9. ASSUME walk'.result = "ok", ~walk'.odd, Cardinality(ever) <= 2 * BatchSize, NEW p \in stayed, p \notin Elements(shown')
      PROVE  FALSE
  <2>1. walk.how = "IterTopics" /\ Topics!CountReached
    BY <1>9
  <2>2. /\ p \in Lower /\ p \in ever /\ p \notin PageIds /\ Cardinality(PageIds) = BatchSize
        /\ \A q \in PageIds : q > p
    BY <1>5, <1>9
  <2>3. CASE walk.offset = 0
    <3>1. Topics!There({"post", "odd"}) = Lower
      BY <2>3 DEF Topics!There, Lower, ForumTypes, Sorts
    <3>2. \A X : Topics!Cardinality(X) = Cardinality(X)
      BY DEF Topics!Cardinality, Cardinality
    <3>3. Len(Topics!Batch) = Cardinality(BatchIds) /\ BatchIds \in SUBSET PageIds /\ IsFiniteSet(BatchIds)
      BY ForumBatch DEF BatchHolds
    <3>4. IsFiniteSet(Lower) /\ BatchIds \in SUBSET Lower /\ p \notin BatchIds
      BY <2>2, <3>3, ForumPage DEF PageHolds
    <3>5. Cardinality(Lower) <= Cardinality(BatchIds)
      <4>1. Topics!Cardinality(Lower) <= 0 + Len(Topics!Batch)
        BY <2>1, <2>3, <3>1 DEF Topics!CountReached
      <4>2. Cardinality(BatchIds) \in Nat
        BY <3>3, FS_CardinalityType
      <4> QED BY <3>2, <3>3, <4>1, <4>2
    <3>6. Cardinality(BatchIds) <= Cardinality(Lower) /\ (Cardinality(Lower) = Cardinality(BatchIds) => Lower = BatchIds)
      BY <3>4, FS_Subset
    <3>7. Cardinality(Lower) \in Nat /\ Cardinality(BatchIds) \in Nat
      BY <3>3, <3>4, FS_CardinalityType
    <3> QED BY <2>2, <3>4, <3>5, <3>6, <3>7
  <2>4. CASE walk.offset # 0
    <3>1. \A q \in Lower : q < walk.offset /\ posts[q] # "gone" /\ q \in 1 .. Len(posts)
      BY <2>4 DEF Lower
    <3>2. walk.offset \in Int /\ p \in Int
      BY <1>2, <2>2 DEF ForumTypes, WalkRecord
    <3> DEFINE T == {i \in ever : i >= walk.offset}
               U == PageIds \cup {p}
    <3>3. Cardinality(T) >= BatchSize
      <4>1. ~(p >= walk.offset)
        BY <2>2, <3>1, <3>2
      <4> QED BY <2>1, <2>2, <2>4, <3>1, <4>1 DEF FullPage
    <3>4. IsFiniteSet(U) /\ Cardinality(U) = BatchSize + 1 /\ U \in SUBSET ever
      BY <1>7, <2>2, FS_AddElement
    <3>5. T \in SUBSET ever /\ IsFiniteSet(T) /\ Cardinality(T) \in Nat
      BY <1>7, FS_Subset, FS_CardinalityType
    <3>6. T \cap U = {}
      <4>1. U \in SUBSET Lower
        BY <2>2, ForumPage DEF PageHolds
      <4>2. ASSUME NEW q \in T, q \in U PROVE FALSE
        <5>1. q \in Lower /\ q \in Int
          BY <1>2, <4>1, <4>2
        <5> QED BY <3>1, <3>2, <4>2, <5>1
      <4> QED BY <4>2
    <3> HIDE DEF T, U
    <3>7. IsFiniteSet(T \cup U) /\ Cardinality(T \cup U) = Cardinality(T) + Cardinality(U)
      <4>1. Cardinality(T \cap U) = 0
        BY <3>6, FS_EmptySet
      <4>2. Cardinality(T \cup U) = Cardinality(T) + Cardinality(U) - Cardinality(T \cap U)
        BY <3>4, <3>5, FS_Union
      <4>3. IsFiniteSet(T \cup U)
        BY <3>4, <3>5, FS_Union
      <4>4. Cardinality(U) \in Nat
        BY <3>4, FS_CardinalityType
      <4> QED BY <3>5, <4>1, <4>2, <4>3, <4>4
    <3>8. Cardinality(T \cup U) <= Cardinality(ever)
      <4>1. T \cup U \in SUBSET ever
        BY <3>4, <3>5
      <4> QED BY <1>7, <4>1, FS_Subset
    <3> QED BY <1>7, <1>9, <3>3, <3>4, <3>5, <3>7, <3>8, BatchSizeAssumption
  <2> QED BY <2>3, <2>4
<1>10. walk'.result = "ok" /\ ~walk'.odd /\ (walk'.how = "IterTopics" => Cardinality(ever) <= 2 * BatchSize)
         => stayed \subseteq Elements(shown')
  BY <1>9
<1> QED BY <1>3, <1>4, <1>6, <1>8, <1>10 DEF Elements

\* A forum that nothing has happened to.
LEMMA ForumBegins == Topics!Init => ForumInv
<1> SUFFICES ASSUME Topics!Init PROVE ForumInv
  OBVIOUS
<1>1. MaxPost \in Nat \ {0}
  BY ListsAssumption DEF Topics!ParametersOK
<1>2. posts \in [1 .. MaxPost - 1 -> Sorts] /\ shown = << >>
  BY DEF Topics!Init, Sorts
<1>3. posts \in Seq(Sorts) /\ Len(posts) = MaxPost - 1 /\ DOMAIN posts = 1 .. Len(posts)
  BY <1>1, <1>2
<1>4. /\ walk.pc = "fetch" /\ walk.offset = 0 /\ walk.result = "none" /\ walk \in WalkRecord
      /\ walk.how = "IterTopics" => ~walk.reverse
  BY <1>1 DEF Topics!Init, WalkRecord
<1>5. ForumTypes
  BY <1>1, <1>2, <1>3, <1>4 DEF ForumTypes
<1>6. Histories
  BY <1>2, <1>3 DEF Topics!Init, Topics!There, Histories, Sorts
<1>7. CursorDivides /\ FullPage
  BY <1>2, <1>4 DEF CursorDivides, FullPage
<1> QED BY <1>4, <1>5, <1>6, <1>7 DEF ForumInv

\* Every step of a listing and of its forum keeps the invariant.
LEMMA ForumKeeps == ForumInv /\ [Topics!Next]_topicVars => ForumInv'
<1> SUFFICES ASSUME ForumInv, [Topics!Next]_topicVars PROVE ForumInv'
  OBVIOUS
<1>1. /\ posts \in Seq(Sorts) /\ Len(posts) \in Nat /\ DOMAIN posts = 1 .. Len(posts)
      /\ ever \in SUBSET (1 .. Len(posts)) /\ stayed \in SUBSET ever
      /\ walk \in WalkRecord /\ walk.offset \in Nat /\ walk.offset <= Len(posts) /\ shown \in Seq(1 .. Len(posts))
  BY DEF ForumInv, ForumTypes, Histories, WalkRecord
<1>2. CASE Topics!GetNothing
  <2>1. /\ walk.pc = "fetch" /\ UNCHANGED <<posts, shown, ever, stayed>>
        /\ walk' = [walk EXCEPT !.pc = "idle", !.result = "ok", !.odd = @ \/ Topics!Page # << >>]
        /\ Topics!Batch = << >>
    BY <1>2 DEF Topics!GetNothing
  <2>2. walk' \in WalkRecord /\ walk'.pc = "idle" /\ walk'.offset = walk.offset /\ walk'.how = walk.how /\ walk'.reverse = walk.reverse
    BY <1>1, <2>1, Zenon DEF WalkRecord
  <2>3. ForumTypes' /\ Histories' /\ CursorDivides' /\ FullPage'
    BY <2>1, <2>2 DEF ForumInv, ForumTypes, Histories, CursorDivides, FullPage, Elements
  <2>4. ASSUME ~walk'.odd, NEW p \in stayed, p \notin Elements(shown) PROVE FALSE
    <3>1. Topics!Page = << >> /\ PageIds = {} /\ BatchIds = {}
      BY <1>1, <2>1, <2>4, ForumPage, ForumBatch DEF ForumInv, WalkRecord, PageHolds, BatchHolds
    <3>2. Cardinality(PageIds) = BatchSize
      BY <2>1, <2>4, <3>1, StayedBehind DEF ForumInv
    <3> QED BY <3>1, <3>2, FS_EmptySet, BatchSizeAssumption
  <2> QED BY <2>1, <2>3, <2>4 DEF ForumInv, Elements
<1>3. CASE Topics!GetFails
  <2>1. /\ UNCHANGED <<posts, shown, ever, stayed>>
        /\ walk' = [walk EXCEPT !.pc = "idle", !.result = "error"]
    BY <1>3 DEF Topics!GetFails, Topics!Return
  <2>2. walk' \in WalkRecord /\ walk'.pc = "idle" /\ walk'.offset = walk.offset /\ walk'.how = walk.how /\ walk'.reverse = walk.reverse /\ walk'.result = "error"
    BY <1>1, <2>1 DEF WalkRecord
  <2> QED BY <2>1, <2>2 DEF ForumInv, ForumTypes, Histories, CursorDivides, FullPage, Elements
<1>4. ASSUME NEW more \in BOOLEAN, Topics!IterTopics(more) PROVE ForumInv'
  <2> DEFINE last == Topics!Page[Len(Topics!Page)]
  <2>1. /\ walk.pc = "fetch" /\ walk.how = "IterTopics" /\ Topics!Batch # << >> /\ shown' = shown \o Topics!Batch
        /\ UNCHANGED <<posts, ever, stayed>>
        /\ \/ walk' = [walk EXCEPT !.pc = "idle", !.result = "stopped"]
           \/ walk' = [walk EXCEPT !.pc = "idle", !.result = "ok"] /\ Topics!CountReached
           \/ walk' = [walk EXCEPT !.pc = "idle", !.result = "ok", !.odd = TRUE]
           \/ walk' = [walk EXCEPT !.offset = last]
    BY <1>4 DEF Topics!IterTopics, Topics!Return
  <2>2. ~walk.reverse /\ walk.result = "none" /\ PageHolds /\ BatchHolds
    BY <2>1, ForumPage, ForumBatch DEF ForumInv, ForumTypes
  <2>3. shown' = shown \o Topics!Given /\ BatchIds \in SUBSET PageIds
    BY <2>1, <2>2 DEF BatchHolds
  <2>4. Topics!Page # << >>
    <3>1. Topics!Page = << >> => PageIds = {} /\ BatchIds = {}
      BY <2>2, <2>3 DEF PageHolds
    <3>2. Topics!Batch \in Seq(1 .. Len(posts)) /\ Len(Topics!Batch) = Cardinality(BatchIds)
      BY <2>2 DEF BatchHolds
    <3>3. Topics!Page = << >> => Len(Topics!Batch) = 0
      BY <3>1, <3>2, FS_EmptySet
    <3> QED BY <2>1, <3>2, <3>3
  <2>5. last \in PageIds /\ (\A q \in PageIds : q >= last) /\ \A q \in BatchIds : q >= last
    BY <2>2, <2>3, <2>4 DEF PageHolds
  <2>6. last \in 0 .. MaxPost
    <3>1. last \in 1 .. Len(posts)
      BY <2>2, <2>5 DEF PageHolds, Lower
    <3> QED BY <1>1, <3>1, ListsAssumption DEF ForumInv, ForumTypes, Topics!ParametersOK
  <2> HIDE DEF last
  <2>7. /\ walk' \in WalkRecord /\ walk'.how = walk.how /\ walk'.reverse = walk.reverse
        /\ last = walk'.offset \/ walk'.pc = "idle"
        /\ walk'.pc = "fetch" => walk'.result = "none"
        /\ walk'.offset = walk.offset \/ walk'.offset = last
        /\ walk'.result = "ok" /\ ~walk'.odd => Topics!CountReached
    BY <1>1, <2>1, <2>2, <2>6 DEF WalkRecord
  <2> QED BY <2>1, <2>3, <2>5, <2>7, GivesPage
<1>5. ASSUME NEW more \in BOOLEAN, Topics!IterTopicMessages(more) PROVE ForumInv'
  <2> DEFINE last == Topics!LastGiven
  <2>1. /\ walk.pc = "fetch" /\ walk.how = "IterTopicMessages" /\ Topics!Batch # << >> /\ shown' = shown \o Topics!Given
        /\ UNCHANGED <<posts, ever, stayed>>
        /\ \/ walk' = [walk EXCEPT !.pc = "idle", !.result = "stopped"]
           \/ walk' = [walk EXCEPT !.offset = last]
    BY <1>5 DEF Topics!IterTopicMessages, Topics!Return
  <2>2. walk.result = "none" /\ PageHolds /\ BatchHolds
    BY <2>1, ForumPage, ForumBatch DEF ForumInv, ForumTypes
  <2> HIDE DEF last
  <2>3. last \in PageIds /\ (~walk.reverse => \A q \in BatchIds : q >= last)
    BY <2>1, <2>2 DEF BatchHolds, last
  <2>4. last \in 0 .. MaxPost
    <3>1. last \in 1 .. Len(posts)
      BY <2>2, <2>3 DEF PageHolds, Lower
    <3> QED BY <1>1, <3>1, ListsAssumption DEF ForumInv, ForumTypes, Topics!ParametersOK
  <2>5. /\ walk' \in WalkRecord /\ walk'.how = walk.how /\ walk'.reverse = walk.reverse
        /\ last = walk'.offset \/ walk'.pc = "idle"
        /\ walk'.pc = "fetch" => walk'.result = "none"
        /\ walk'.offset = walk.offset \/ walk'.offset = last
        /\ walk'.result # "ok"
    BY <1>1, <2>1, <2>2, <2>4 DEF WalkRecord
  <2> QED BY <2>1, <2>3, <2>5, GivesPage
<1>6. ASSUME NEW sort \in {"post", "odd"}, Topics!NewPost(sort) PROVE ForumInv'
  <2> DEFINE n == Len(posts)
  <2>1. /\ walk.pc = "fetch" /\ n < MaxPost /\ posts' = Append(posts, sort) /\ UNCHANGED <<walk, shown, stayed>>
        /\ ever' = ever \cup {Len(posts')}
    BY <1>1, <1>6 DEF Topics!NewPost, WalkRecord
  <2>2. /\ posts' \in Seq(Sorts) /\ Len(posts') = n + 1 /\ posts'[n + 1] # "gone"
        /\ \A i \in 1 .. n : posts'[i] = posts[i]
    BY <1>1, <1>6, <2>1 DEF Sorts
  <2> HIDE DEF n
  <2>3. n \in Nat /\ \A i \in 1 .. n + 1 : i \in 1 .. n \/ i = n + 1
    BY <1>1 DEF n
  <2>4. 1 .. n \in SUBSET (1 .. n + 1) /\ n + 1 \in 1 .. n + 1
    BY <2>3
  <2>5. ForumTypes'
    <3>1. shown' \in Seq(1 .. n + 1)
      <4>1. \A i \in 1 .. Len(shown) : shown[i] \in 1 .. n
        BY <1>1 DEF n
      <4>2. \A i \in 1 .. Len(shown) : shown[i] \in 1 .. n + 1
        BY <2>4, <4>1
      <4>3. shown \in [1 .. Len(shown) -> 1 .. n + 1] /\ Len(shown) \in Nat
        BY <1>1, <4>2
      <4> QED BY <2>1, <4>3, SeqDef
    <3>2. Len(posts') <= MaxPost /\ walk'.offset <= Len(posts')
      <4>1. MaxPost \in Nat
        BY ListsAssumption DEF Topics!ParametersOK
      <4> QED BY <1>1, <2>1, <2>2, <2>3, <4>1 DEF n
    <3> QED BY <2>1, <2>2, <3>1, <3>2 DEF ForumInv, ForumTypes
  <2>6. ever' = ever \cup {n + 1} /\ ever \in SUBSET (1 .. n)
    BY <1>1, <2>1, <2>2 DEF n
  <2>7. Histories'
    <3>1. ever' \in SUBSET (1 .. Len(posts')) /\ stayed' \in SUBSET ever'
      BY <1>1, <2>1, <2>2, <2>4, <2>6
    <3>2. \A i \in 1 .. Len(posts') : posts'[i] # "gone" => i \in ever'
      BY <2>2, <2>3, <2>6 DEF ForumInv, Histories, n
    <3>3. \A i \in stayed' : posts'[i] = "post"
      BY <1>1, <2>1, <2>2, <2>6 DEF ForumInv, Histories
    <3> QED BY <3>1, <3>2, <3>3 DEF Histories
  <2>8. CursorDivides'
    BY <2>1 DEF ForumInv, CursorDivides, Elements
  <2>9. FullPage'
    <3> SUFFICES ASSUME walk.how = "IterTopics", walk.offset # 0
                 PROVE  \/ \A i \in 1 .. Len(posts') : posts'[i] # "gone" => i >= walk.offset
                        \/ Cardinality({i \in ever' : i >= walk.offset}) >= BatchSize
      BY <2>1 DEF FullPage
    <3>1. CASE \A i \in 1 .. Len(posts) : posts[i] # "gone" => i >= walk.offset
      <4>1. n + 1 >= walk.offset
        BY <1>1, <2>3 DEF n
      <4> QED BY <2>2, <2>3, <3>1, <4>1 DEF n
    <3>2. CASE Cardinality({i \in ever : i >= walk.offset}) >= BatchSize
      <4> DEFINE T == {i \in ever : i >= walk.offset}
                 U == {i \in ever' : i >= walk.offset}
      <4>1. T \in SUBSET U /\ U \in SUBSET (1 .. n + 1)
        BY <2>4, <2>6
      <4> HIDE DEF T, U
      <4>2. IsFiniteSet(U)
        <5>1. IsFiniteSet(1 .. n + 1)
          BY <2>3, FS_Interval
        <5> QED BY <4>1, <5>1, FS_Subset
      <4>3. Cardinality(T) <= Cardinality(U) /\ Cardinality(T) \in Nat /\ Cardinality(U) \in Nat
        BY <4>1, <4>2, FS_Subset, FS_CardinalityType
      <4>4. Cardinality(T) >= BatchSize
        BY <3>2 DEF T
      <4>5. Cardinality(U) >= BatchSize
        BY <4>3, <4>4, BatchSizeAssumption
      <4> QED BY <4>5 DEF U
    <3> QED BY <2>1, <3>1, <3>2 DEF ForumInv, FullPage
  <2> QED BY <2>1, <2>5, <2>7, <2>8, <2>9 DEF ForumInv, ForumTypes
<1>7. ASSUME NEW d \in DOMAIN posts, Topics!Delete(d) PROVE ForumInv'
  <2>1. /\ walk.pc = "fetch" /\ posts' = [posts EXCEPT ![d] = "gone"] /\ UNCHANGED <<walk, shown, ever>>
        /\ stayed' = stayed \ {d}
    BY <1>1, <1>7 DEF Topics!Delete, WalkRecord
  <2>2. /\ posts' \in Seq(Sorts) /\ Len(posts') = Len(posts)
        /\ \A i \in 1 .. Len(posts) : posts'[i] = IF i = d THEN "gone" ELSE posts[i]
    BY <1>1, <2>1 DEF Sorts
  <2>3. ForumTypes'
    BY <2>1, <2>2 DEF ForumInv, ForumTypes
  <2>4. Histories'
    BY <1>1, <2>1, <2>2 DEF ForumInv, Histories
  <2>5. CursorDivides'
    BY <2>1 DEF ForumInv, CursorDivides, Elements
  <2>6. FullPage'
    BY <2>1, <2>2 DEF ForumInv, FullPage
  <2> QED BY <2>1, <2>3, <2>4, <2>5, <2>6 DEF ForumInv, ForumTypes
<1>8. CASE UNCHANGED topicVars
  BY <1>8 DEF topicVars, ForumInv, ForumTypes, Histories, CursorDivides, FullPage, Elements
<1> QED BY <1>2, <1>3, <1>4, <1>5, <1>6, <1>7, <1>8 DEF Topics!Next, Topics!Step

\* What the invariant says of the listings.
LEMMA ForumSound == ForumInv => Topics!TypeOK /\ Topics!ShownOnce /\ Topics!MessagesWhole /\ Topics!TopicsWhole
<1> SUFFICES ASSUME ForumInv PROVE Topics!TypeOK /\ Topics!ShownOnce /\ Topics!MessagesWhole /\ Topics!TopicsWhole
  OBVIOUS
<1>1. shown \in Seq(1 .. Len(posts)) /\ Len(posts) \in Nat /\ Len(posts) <= MaxPost /\ MaxPost \in Nat
  BY ListsAssumption DEF ForumInv, ForumTypes, Topics!ParametersOK
<1>2. Topics!Range(shown) = Elements(shown) /\ DOMAIN shown = 1 .. Len(shown)
  BY <1>1 DEF Topics!Range, Elements
<1>3. Topics!Range(shown) \subseteq 1 .. MaxPost
  <2>1. \A i \in 1 .. Len(shown) : shown[i] \in 1 .. Len(posts)
    BY <1>1
  <2>2. 1 .. Len(posts) \subseteq 1 .. MaxPost
    BY <1>1
  <2> QED BY <1>2, <2>1, <2>2 DEF Elements
<1>4. Topics!TypeOK
  BY <1>3 DEF Topics!TypeOK, ForumInv, ForumTypes, WalkRecord, Sorts
<1>5. Topics!ShownOnce
  BY <1>2 DEF Topics!ShownOnce, ForumInv, CursorDivides
<1>6. Topics!MessagesWhole
  BY <1>2 DEF Topics!MessagesWhole, ForumInv
<1>7. Topics!TopicsWhole
  <2>1. Topics!Cardinality(ever) = Cardinality(ever)
    BY DEF Topics!Cardinality, Cardinality
  <2> QED BY <1>2, <2>1 DEF Topics!TopicsWhole, ForumInv
<1> QED BY <1>4, <1>5, <1>6, <1>7

-----------------------------------------------------------------------------
(* The pages of dialogs. *)

\* Two sets that share nothing.
LEMMA TwoParts ==
  ASSUME NEW S, NEW T, IsFiniteSet(S), IsFiniteSet(T), S \cap T = {}
  PROVE  IsFiniteSet(S \cup T) /\ Cardinality(S \cup T) = Cardinality(S) + Cardinality(T)
<1>1. Cardinality(S \cap T) = 0
  BY FS_EmptySet
<1>2. IsFiniteSet(S \cup T) /\ Cardinality(S \cup T) = Cardinality(S) + Cardinality(T) - Cardinality(S \cap T)
  BY FS_Union
<1>3. Cardinality(S) \in Nat /\ Cardinality(T) \in Nat
  BY FS_CardinalityType
<1> QED BY <1>1, <1>2, <1>3

\* A listing by date: those that are there have dates of their own.
LEMMA ByDateSorts ==
  ASSUME Account, Dialogs!ParametersOK, NEW S \in SUBSET Peers, \A p \in S : dialogs[p].date # 0
  PROVE  LET L == Dialogs!ByDate(S) IN
         /\ IsFiniteSet(S) /\ Cardinality(S) \in Nat /\ L \in Seq(S) /\ Len(L) = Cardinality(S)
         /\ Elements(L) = S
         /\ \A i, j \in 1 .. Len(L) : i < j => dialogs[L[i]].date > dialogs[L[j]].date
<1> DEFINE k == [p \in S |-> dialogs[p].date]
           n == Cardinality(S)
           L == Dialogs!ByDate(S)
<1>1. k \in [S -> Int] /\ \A p, q \in S : k[p] = k[q] => p = q
  <2>1. \A p \in S : dialogs[p].date \in Int
    BY DEF Account, DialogRecord
  <2>2. \A p, q \in S : dialogs[p].date = dialogs[q].date => p = q
    BY DEF Account
  <2> QED BY <2>1, <2>2
<1>2. \A X : Dialogs!Cardinality(X) = Cardinality(X) /\ (Dialogs!IsFiniteSet(X) <=> IsFiniteSet(X))
  BY DEF Dialogs!Cardinality, Cardinality, Dialogs!IsFiniteSet, IsFiniteSet
<1>3. \A p \in S : Above(S, k, p) = {q \in S : dialogs[q].date > dialogs[p].date}
  BY DEF Above
<1>4. IsFiniteSet(S)
  BY <1>2, FS_Subset DEF Dialogs!ParametersOK
<1>5. n \in Nat /\ \A i \in 1 .. n : \E p \in S : Dialogs!Cardinality({q \in S : dialogs[q].date > dialogs[p].date}) = i - 1
  <2> HIDE DEF k, n
  <2>1. n \in Nat /\ \A i \in 1 .. n : \E p \in S : Cardinality(Above(S, k, p)) = i - 1
    BY <1>1, <1>4, EveryPlaceTaken DEF n
  <2> QED BY <1>2, <1>3, <2>1
<1>6. L = [i \in 1 .. n |-> CHOOSE p \in S : Dialogs!Cardinality({q \in S : dialogs[q].date > dialogs[p].date}) = i - 1]
  <2>1. Dialogs!Cardinality(S) = n
    BY <1>2
  <2> QED BY <2>1 DEF Dialogs!ByDate
<1> HIDE DEF L, k, n
<1>7. \A i \in 1 .. n : L[i] \in S /\ Dialogs!Cardinality({q \in S : dialogs[q].date > dialogs[L[i]].date}) = i - 1
  BY <1>5, <1>6
<1>8. L \in [1 .. n -> S] /\ \A i \in 1 .. n : Cardinality(Above(S, k, L[i])) = i - 1
  <2>1. \A i \in 1 .. n : Cardinality(Above(S, k, L[i])) = i - 1
    BY <1>2, <1>3, <1>7
  <2>2. L \in [1 .. n -> S]
    BY <1>6, <1>7
  <2> QED BY <2>1, <2>2
<1>9. Listed(S, k, L)
  BY <1>1, <1>4, <1>8, PlacesSort DEF n
<1>10. L \in Seq(S) /\ Len(L) = n
  BY <1>5, <1>8
<1>11. Elements(L) = S
  BY <1>8, <1>9, <1>10 DEF Elements, Listed, n
<1>12. \A i, j \in 1 .. Len(L) : i < j => dialogs[L[i]].date > dialogs[L[j]].date
  <2>1. \A i \in 1 .. n : k[L[i]] = dialogs[L[i]].date
    BY <1>7 DEF k
  <2> QED BY <1>9, <1>10, <2>1 DEF Listed, n
<1> QED BY <1>4, <1>5, <1>10, <1>11, <1>12 DEF L, n

\* What the server may list of the account.
ListingHolds(s) ==
  /\ s \in Seq(Peers) /\ \A i \in 1 .. Len(s) : dialogs[s[i]].date # 0
  /\ \A i, j \in 1 .. Len(s) : i < j /\ ~OutOfPlace(dialogs[s[i]]) => dialogs[s[i]].date > dialogs[s[j]].date
  /\ \A p \in Peers : dialogs[p].date # 0 /\ BehindCursor(p) => p \in Elements(s)
  /\ \A i \in 1 .. Len(s) : OutOfPlace(dialogs[s[i]]) => i <= BatchSize
  /\ Len(s) <= Cardinality({p \in Peers : dialogs[p].date # 0})

\* Every listing that the server may answer with is of that kind.
LEMMA ListingsHold ==
  ASSUME Account, Dialogs!ParametersOK, NEW s \in Dialogs!Listings
  PROVE  ListingHolds(s) /\ Cardinality({p \in Peers : dialogs[p].date # 0}) \in Nat
<1> DEFINE E == {p \in Peers : dialogs[p].date # 0}
           P == Dialogs!Pinned
           R == Dialogs!Before(0) \ P
<1>1. Dialogs!Before(0) = E /\ P = {p \in E : dialogs[p].pinned}
  BY DEF Dialogs!Before, Dialogs!Exists, Dialogs!Pinned
<1>2. IsFiniteSet(E) /\ Cardinality(E) \in Nat
  <2>1. IsFiniteSet(Peers)
    BY DEF Dialogs!ParametersOK, Dialogs!IsFiniteSet, IsFiniteSet
  <2> QED BY <2>1, FS_Subset, FS_CardinalityType
<1>3. ASSUME iter.offset = 0 PROVE ListingHolds(s)
  <2> DEFINE a == Dialogs!ByDate(P)
             b == Dialogs!ByDate(R)
  <2>1. s = a \o b
    BY <1>3 DEF Dialogs!Listings
  <2>2. P \in SUBSET E /\ R \in SUBSET E /\ P \cup R = E /\ P \cap R = {} /\ E \in SUBSET Peers
    BY <1>1
  <2>3. /\ Cardinality(P) \in Nat /\ a \in Seq(P) /\ Len(a) = Cardinality(P) /\ Elements(a) = P /\ IsFiniteSet(P)
    <3> HIDE DEF P, R
    <3> QED BY <2>2, ByDateSorts
  <2>4. /\ Cardinality(R) \in Nat /\ b \in Seq(R) /\ Len(b) = Cardinality(R) /\ Elements(b) = R /\ IsFiniteSet(R)
        /\ \A i, j \in 1 .. Len(b) : i < j => dialogs[b[i]].date > dialogs[b[j]].date
    <3> HIDE DEF P, R
    <3> QED BY <2>2, ByDateSorts
  <2>5. Cardinality(P) <= BatchSize
    <3>1. P \in SUBSET {p \in Peers : dialogs[p].pinned} /\ IsFiniteSet({p \in Peers : dialogs[p].pinned})
      <4>1. IsFiniteSet(Peers)
        BY DEF Dialogs!ParametersOK, Dialogs!IsFiniteSet, IsFiniteSet
      <4> QED BY <1>1, <4>1, FS_Subset
    <3>2. Cardinality({p \in Peers : dialogs[p].pinned}) <= BatchSize
      BY DEF Account
    <3> HIDE DEF P
    <3>3. Cardinality(P) <= Cardinality({p \in Peers : dialogs[p].pinned})
      BY <3>1, FS_Subset
    <3>4. Cardinality({p \in Peers : dialogs[p].pinned}) \in Nat
      BY <3>1, FS_CardinalityType
    <3> QED BY <2>3, <3>2, <3>3, <3>4, BatchSizeAssumption
  <2>6. Cardinality(E) = Cardinality(P) + Cardinality(R)
    <3> HIDE DEF P, R, E
    <3>1. Cardinality(P \cup R) = Cardinality(P) + Cardinality(R)
      BY <2>2, <2>3, <2>4, TwoParts
    <3> QED BY <2>2, <3>1, Zenon
  <2>7. a \in Seq(E) /\ b \in Seq(E) /\ a \in Seq(Peers) /\ b \in Seq(Peers)
    <3> HIDE DEF P, R, a, b
    <3>1. (\A i \in 1 .. Len(a) : a[i] \in E /\ a[i] \in Peers) /\ \A i \in 1 .. Len(b) : b[i] \in E /\ b[i] \in Peers
      BY <2>2, <2>3, <2>4
    <3> QED BY <2>3, <2>4, <3>1, SeqDef
  <2> DEFINE m == Len(a)
             n == Len(b)
  <2> HIDE DEF a, b, m, n, P, R, E
  <2>8. /\ s \in Seq(Peers) /\ Len(s) = m + n /\ m \in Nat /\ n \in Nat
        /\ \A i \in 1 .. m : s[i] = a[i]
        /\ \A i \in m + 1 .. m + n : s[i] = b[i - m]
        /\ Elements(s) = E
    <3>1. m \in Nat /\ n \in Nat
      BY <2>3, <2>4 DEF m, n
    <3>2. /\ s \in Seq(Peers) /\ Len(s) = m + n
          /\ \A i \in 1 .. m : s[i] = a[i]
          /\ \A i \in m + 1 .. m + n : s[i] = b[i - m]
      BY <2>1, <2>7, Concatenation DEF m, n
    <3>3. Elements(s) = Elements(a) \cup Elements(b)
      BY <2>1, <2>7, JoinElements
    <3> QED BY <2>2, <2>3, <2>4, <3>1, <3>2, <3>3
  <2>9. ASSUME NEW i \in 1 .. m + n
        PROVE  \/ i \in 1 .. m /\ s[i] \in P
               \/ i - m \in 1 .. n /\ i > m /\ s[i] = b[i - m] /\ s[i] \in R
    <3>1. CASE i <= m
      <4>1. i \in 1 .. m
        BY <2>8, <3>1
      <4> QED BY <2>3, <2>8, <4>1 DEF m
    <3>2. CASE i > m
      <4>1. i \in m + 1 .. m + n /\ i - m \in 1 .. n
        BY <2>8, <3>2
      <4> QED BY <2>4, <2>8, <3>2, <4>1 DEF n
    <3> QED BY <2>8, <3>1, <3>2
  <2>10. ASSUME NEW i \in 1 .. Len(s) PROVE dialogs[s[i]].date # 0
    BY <2>2, <2>8, <2>9 DEF E
  <2>11. ASSUME NEW i \in 1 .. Len(s), ~OutOfPlace(dialogs[s[i]]) PROVE i - m \in 1 .. n /\ i > m /\ s[i] = b[i - m]
    BY <1>1, <1>3, <2>8, <2>9, <2>11 DEF OutOfPlace, P
  <2>12. ASSUME NEW i \in 1 .. Len(s), NEW j \in 1 .. Len(s), i < j, ~OutOfPlace(dialogs[s[i]])
         PROVE  dialogs[s[i]].date > dialogs[s[j]].date
    <3>1. i - m \in 1 .. n /\ i > m /\ s[i] = b[i - m]
      BY <2>11, <2>12
    <3>2. j > m /\ i - m < j - m
      BY <2>8, <2>12, <3>1
    <3>3. j - m \in 1 .. n /\ s[j] = b[j - m]
      <4>1. ~(j \in 1 .. m)
        BY <2>8, <3>2
      <4> QED BY <2>8, <2>9, <4>1
    <3> QED BY <2>4, <3>1, <3>2, <3>3 DEF n
  <2>13. ASSUME NEW i \in 1 .. Len(s), OutOfPlace(dialogs[s[i]]) PROVE i <= BatchSize
    <3>1. dialogs[s[i]].pinned
      BY <2>13 DEF OutOfPlace
    <3>2. i \in 1 .. m
      BY <1>1, <2>8, <2>9, <3>1 DEF R, P, E
    <3> QED BY <2>3, <2>5, <2>8, <3>2, BatchSizeAssumption DEF m
  <2>14. \A p \in Peers : dialogs[p].date # 0 /\ BehindCursor(p) => p \in Elements(s)
    BY <2>8 DEF E
  <2>15. Len(s) <= Cardinality(E)
    BY <1>2, <2>3, <2>4, <2>6, <2>8 DEF m, n
  <2> QED BY <2>8, <2>10, <2>12, <2>13, <2>14, <2>15 DEF ListingHolds, E
<1>4. ASSUME iter.offset # 0 PROVE ListingHolds(s)
  <2>1. PICK S \in {Dialogs!Before(iter.offset), Dialogs!Before(iter.offset) \ P, Dialogs!Before(0)} : s = Dialogs!ByDate(S)
    BY <1>4 DEF Dialogs!Listings
  <2>2. S \in SUBSET E /\ E \in SUBSET Peers
    BY <1>1, <2>1 DEF Dialogs!Before, Dialogs!Exists
  <2>3. \A p \in E : BehindCursor(p) => p \in S
    BY <1>1, <1>4, <2>1 DEF Dialogs!Before, Dialogs!Exists, BehindCursor
  <2> HIDE DEF P, R
  <2>4. /\ IsFiniteSet(S) /\ Cardinality(S) \in Nat /\ s \in Seq(S) /\ Len(s) = Cardinality(S) /\ Elements(s) = S
        /\ \A i, j \in 1 .. Len(s) : i < j => dialogs[s[i]].date > dialogs[s[j]].date
    <3>1. S \in SUBSET Peers /\ \A p \in S : dialogs[p].date # 0
      BY <2>2
    <3> HIDE DEF E
    <3> QED BY <2>1, <3>1, ByDateSorts
  <2>5. \A i \in 1 .. Len(s) : s[i] \in S
    BY <2>4
  <2>6. s \in Seq(Peers) /\ \A i \in 1 .. Len(s) : dialogs[s[i]].date # 0
    <3>1. \A i \in 1 .. Len(s) : s[i] \in Peers /\ dialogs[s[i]].date # 0
      BY <2>2, <2>5
    <3> QED BY <2>4, <3>1, SeqDef
  <2>7. Cardinality(S) <= Cardinality(E)
    BY <1>2, <2>2, FS_Subset
  <2> QED BY <1>4, <2>3, <2>4, <2>6, <2>7 DEF ListingHolds, OutOfPlace, E
<1> QED BY <1>2, <1>3, <1>4

\* A call or its account that has just begun.
LEMMA DialogsBegin == Dialogs!Init /\ Dialogs!ParametersOK => DialogsInv
<1> SUFFICES ASSUME Dialogs!Init, Dialogs!ParametersOK PROVE DialogsInv
  OBVIOUS
<1>1. Account
  <2>1. dialogs \in Accounts /\ steady = Peers
    BY DEF Dialogs!Init
  <2>2. Dialogs!Cardinality({p \in Peers : dialogs[p].pinned}) = Cardinality({p \in Peers : dialogs[p].pinned})
    BY DEF Dialogs!Cardinality, Cardinality
  <2> QED BY <2>1, <2>2 DEF Dialogs!ParametersOK, Account, DialogRecord
<1>2. PICK params \in Params :
        iter = [pc |-> "fetch", params |-> params, offset |-> params.OffsetDate, seen |-> {}, page |-> << >>,
                more |-> TRUE, last |-> Dialogs!NoDialog, result |-> "none", stuck |-> FALSE, misled |-> FALSE]
  BY DEF Dialogs!Init
<1>3. params.Limit \in Int /\ params.OffsetDate \in 0 .. MaxDate /\ MaxDate \in Nat
  BY DEF Dialogs!ParametersOK
<1>4. given = << >> /\ Len(given) = 0 /\ given \in Seq(Peers) /\ Len(iter.page) = 0 /\ iter.page = << >>
  BY <1>2 DEF Dialogs!Init
<1>5. Dialogs!NoDialog \in DialogRecord
  BY <1>3 DEF Dialogs!NoDialog, DialogRecord
<1>6. DialogsTypes
  <2>1. iter \in IterRecord
    BY <1>2, <1>3, <1>5 DEF IterRecord
  <2> QED BY <1>4, <2>1, BatchSizeAssumption DEF DialogsTypes
<1>7. GivenSeen
  BY <1>2, <1>3, <1>4 DEF GivenSeen
<1>8. PageAsShown
  BY <1>4 DEF PageAsShown
<1>9. StillToCome
  BY <1>2 DEF StillToCome, BehindCursor, Owed, Dialogs!AskedFor
<1> QED BY <1>1, <1>6, <1>7, <1>8, <1>9 DEF DialogsInv

\* The greatest date is one of them.
LEMMA GreatestDate ==
  ASSUME Account, Dialogs!ParametersOK, Peers # {}
  PROVE  /\ Dialogs!Max(Dialogs!Dates) \in 0 .. MaxDate
         /\ \A p \in Peers : Dialogs!Max(Dialogs!Dates) >= dialogs[p].date
<1> DEFINE D == Dialogs!Dates
           k == [d \in D |-> d]
<1>1. MaxDate \in Nat /\ D \in SUBSET (0 .. MaxDate) /\ D # {} /\ \A p \in Peers : dialogs[p].date \in D
  BY DEF Account, DialogRecord, Dialogs!ParametersOK, Dialogs!Dates
<1> HIDE DEF D
<1>2. IsFiniteSet(D) /\ D \in SUBSET Int
  <2>1. IsFiniteSet(0 .. MaxDate)
    BY <1>1, FS_Interval
  <2>2. D \in SUBSET Int
    BY <1>1
  <2> QED BY <1>1, <2>1, <2>2, FS_Subset
<1>3. \E d \in D : \A e \in D : d >= e
  <2>1. k \in [D -> Int] /\ \A p, q \in D : k[p] = k[q] => p = q
    BY <1>2
  <2>2. \A d \in D : Above(D, k, d) = {e \in D : e > d}
    BY DEF Above
  <2>3. Cardinality(D) \in Nat /\ 1 \in 1 .. Cardinality(D)
    <3>1. Cardinality(D) \in Nat /\ Cardinality(D) # 0
      BY <1>1, <1>2, FS_CardinalityType, FS_EmptySet
    <3> QED BY <3>1
  <2> HIDE DEF k
  <2>4. PICK d \in D : Cardinality(Above(D, k, d)) = 1 - 1
    BY <1>2, <2>1, <2>3, EveryPlaceTaken
  <2>5. Above(D, k, d) = {}
    <3>1. Above(D, k, d) \in SUBSET D
      BY DEF Above
    <3> QED BY <1>2, <2>4, <3>1, FS_Subset, FS_EmptySet
  <2>6. \A e \in D : ~(e > d) /\ e \in Int /\ d \in Int
    BY <1>2, <2>2, <2>5
  <2> QED BY <2>6
<1>4. Dialogs!Max(D) \in D /\ \A e \in D : Dialogs!Max(D) >= e
  BY <1>3 DEF Dialogs!Max
<1> QED BY <1>1, <1>4 DEF D

\* A dialog moves and is steady no longer: nothing is owed for it.
LEMMA MoveKeeps ==
  ASSUME DialogsInv, UNCHANGED <<iter, given>>, NEW p \in Peers, steady' = steady \ {p},
         NEW d \in DialogRecord, dialogs' = [dialogs EXCEPT ![p] = d], d.pinned = dialogs[p].pinned,
         d.date = 0 \/ \A q \in Peers : dialogs[q].date # d.date
  PROVE  DialogsInv'
<1>1. Account
  BY DEF DialogsInv
<1>2. dialogs' \in [Peers -> DialogRecord] /\ \A q \in Peers : dialogs'[q] = IF q = p THEN d ELSE dialogs[q]
  BY <1>1 DEF Account
<1>3. Account'
  <2>1. {q \in Peers : dialogs'[q].pinned} = {q \in Peers : dialogs[q].pinned}
    BY <1>2
  <2>2. \A r, q \in Peers : dialogs'[r].date = dialogs'[q].date => r = q \/ dialogs'[r].date = 0
    BY <1>1, <1>2 DEF Account
  <2> QED BY <1>1, <1>2, <2>1, <2>2 DEF Account
<1>4. \A q \in steady' : q \in steady /\ q \in Peers /\ dialogs'[q] = dialogs[q]
  BY <1>1, <1>2 DEF Account
<1>5. DialogsTypes' /\ GivenSeen'
  BY DEF DialogsInv, DialogsTypes, GivenSeen
<1>6. PageAsShown'
  BY <1>4 DEF DialogsInv, PageAsShown, OutOfPlace
<1>7. StillToCome'
  <2> SUFFICES ASSUME NEW q \in Peers, Owed(q)'
               PROVE  /\ q \notin iter.seen
                      /\ Complete =>
                           /\ iter.pc # "idle" => BehindCursor(q)'
                           /\ iter.pc = "page" => BehindLast(q)' /\ (OnPage(q) \/ BehindPage(q)')
                           /\ iter.result # "ok"
    BY DEF StillToCome, Complete, OnPage
  <2>1. Owed(q) /\ dialogs'[q] = dialogs[q]
    BY <1>4 DEF Owed, Dialogs!AskedFor, Dialogs!Exists
  <2>2. BehindCursor(q)' = BehindCursor(q) /\ BehindLast(q)' = BehindLast(q) /\ BehindPage(q)' = BehindPage(q)
    BY <2>1 DEF BehindCursor, BehindLast, BehindPage, OutOfPlace, Dialogs!NoDialog
  <2> QED BY <2>1, <2>2 DEF DialogsInv, StillToCome
<1> QED BY <1>3, <1>5, <1>6, <1>7 DEF DialogsInv

\* Where the steps of the goroutine find the call.
LEMMA DialogsFacts ==
  ASSUME DialogsInv, Dialogs!ParametersOK
  PROVE  /\ iter \in IterRecord /\ iter.page \in Seq(Entry) /\ Len(iter.page) \in Nat /\ Len(iter.page) <= BatchSize
         /\ given \in Seq(Peers) /\ Len(given) \in Nat /\ iter.params.Limit \in Int
         /\ iter.params.IgnoreMigrated \in BOOLEAN /\ iter.params.OffsetDate \in 0 .. MaxDate
         /\ iter.offset \in Nat /\ iter.misled \in BOOLEAN /\ iter.more \in BOOLEAN
         /\ dialogs \in [Peers -> DialogRecord] /\ \A p \in Peers : dialogs[p].date \in Nat
         /\ \A i \in 1 .. Len(iter.page) : iter.page[i].peer \in Peers /\ iter.page[i].dialog \in DialogRecord
         /\ MaxDate \in Nat
<1>1. iter \in IterRecord /\ iter.page \in Seq(Entry) /\ given \in Seq(Peers) /\ Len(iter.page) <= BatchSize
  BY DEF DialogsInv, DialogsTypes, IterRecord
<1>2. dialogs \in [Peers -> DialogRecord] /\ MaxDate \in Nat /\ iter.params \in Params
  BY <1>1 DEF DialogsInv, Account, Dialogs!ParametersOK, IterRecord
<1>3. \A p \in Peers : dialogs[p].date \in Nat
  BY <1>2 DEF DialogRecord
<1>4. \A i \in 1 .. Len(iter.page) : iter.page[i].peer \in Peers /\ iter.page[i].dialog \in DialogRecord
  <2>1. \A i \in 1 .. Len(iter.page) : iter.page[i] \in Entry
    BY <1>1
  <2> QED BY <2>1 DEF Entry
<1>5. iter.params.Limit \in Int /\ iter.params.IgnoreMigrated \in BOOLEAN /\ iter.params.OffsetDate \in 0 .. MaxDate
  BY <1>2 DEF Dialogs!ParametersOK
<1>6. iter.offset \in Nat /\ iter.misled \in BOOLEAN /\ iter.more \in BOOLEAN
  BY <1>1, <1>2 DEF IterRecord
<1> QED BY <1>1, <1>2, <1>3, <1>4, <1>5, <1>6

\* A call that ends without success, or stays as it is.
LEMMA CallFails ==
  ASSUME DialogsInv, iter' = [iter EXCEPT !.pc = "idle", !.result = "error"], UNCHANGED <<dialogs, given, steady>>
  PROVE  DialogsInv'
<1>1. iter \in IterRecord
  BY DEF DialogsInv, DialogsTypes
<1>2. /\ iter' \in IterRecord /\ iter'.pc = "idle" /\ iter'.result = "error" /\ iter'.params = iter.params
      /\ iter'.page = iter.page /\ iter'.seen = iter.seen /\ iter'.offset = iter.offset /\ iter'.misled = iter.misled
  BY <1>1 DEF IterRecord
<1>3. Account' /\ DialogsTypes' /\ GivenSeen'
  BY <1>2 DEF DialogsInv, Account, DialogsTypes, GivenSeen
<1>4. PageAsShown'
  BY <1>2 DEF DialogsInv, PageAsShown, OutOfPlace
<1>5. StillToCome'
  BY <1>2 DEF DialogsInv, StillToCome, Owed, Complete, Dialogs!AskedFor, Dialogs!Exists
<1> QED BY <1>3, <1>4, <1>5 DEF DialogsInv

\* A page that shows dialogs as they are.
LEMMA ShowsPage ==
  ASSUME NEW page, iter'.page = page, iter'.offset = iter.offset, dialogs' = dialogs,
         \A i \in 1 .. Len(page) : page[i].dialog = dialogs[page[i].peer],
         \A i, j \in 1 .. Len(page) :
           i < j /\ ~(iter.offset = 0 /\ page[i].dialog.pinned) => page[i].dialog.date > page[j].dialog.date
  PROVE  PageAsShown'
BY DEF PageAsShown, OutOfPlace

\* A page is shown: the beginning of a listing.
LEMMA PageComes ==
  ASSUME DialogsInv, Dialogs!ParametersOK, iter.pc = "fetch", UNCHANGED <<dialogs, given, steady>>,
         NEW s \in Dialogs!Listings, NEW m \in Nat, m = IF Len(s) < Dialogs!Limit THEN Len(s) ELSE Dialogs!Limit,
         NEW page, page \in Seq(Entry), Len(page) = m,
         \A i \in 1 .. m : page[i].peer = s[i] /\ page[i].dialog = dialogs[s[i]],
         iter' \in IterRecord, iter'.pc = "page", iter'.page = page, iter'.last = Dialogs!NoDialog,
         m >= Dialogs!Limit /\ Cardinality({p \in Peers : dialogs[p].date # 0}) > Dialogs!Limit => iter'.more,
         iter'.params = iter.params, iter'.seen = iter.seen, iter'.offset = iter.offset, iter'.misled = iter.misled,
         iter'.result = iter.result
  PROVE  DialogsInv'
<1> DEFINE n == Len(s)
           E == {p \in Peers : dialogs[p].date # 0}
<1>1. ListingHolds(s) /\ Cardinality(E) \in Nat /\ s \in Seq(Peers) /\ n \in Nat /\ n <= Cardinality(E)
  <2>1. ListingHolds(s) /\ Cardinality(E) \in Nat
    BY ListingsHold DEF DialogsInv
  <2> QED BY <2>1 DEF ListingHolds
<1>2. Dialogs!Limit \in 1 .. BatchSize /\ (Complete => Dialogs!Limit = BatchSize)
  <2>1. iter.params.Limit > 0 => Len(given) < iter.params.Limit
    BY DEF DialogsInv, GivenSeen
  <2> QED BY <2>1, DialogsFacts, BatchSizeAssumption DEF Dialogs!Limit, Complete
<1>3. \A i \in 1 .. n : s[i] \in Peers /\ dialogs[s[i]] \in DialogRecord
  BY <1>1, DialogsFacts
<1> HIDE DEF n, E
<1>4. m \in 0 .. n /\ m <= BatchSize /\ (m < n => m = Dialogs!Limit) /\ \A i \in 1 .. m : i \in 1 .. n
  BY <1>1, <1>2, BatchSizeAssumption DEF n
<1>5. Account' /\ DialogsTypes' /\ GivenSeen'
  BY <1>4 DEF DialogsInv, Account, DialogsTypes, GivenSeen
<1>6. PageAsShown'
  <2>1. \A i, j \in 1 .. m : i < j /\ ~OutOfPlace(dialogs[s[i]]) => dialogs[s[i]].date > dialogs[s[j]].date
    BY <1>1, <1>4 DEF ListingHolds, n
  <2>2. \A i, j \in 1 .. m : i < j /\ ~(iter.offset = 0 /\ page[i].dialog.pinned) => page[i].dialog.date > page[j].dialog.date
    BY <2>1 DEF OutOfPlace
  <2>3. \A i \in 1 .. Len(page) : page[i].dialog = dialogs[page[i].peer]
    OBVIOUS
  <2>4. \A i, j \in 1 .. Len(page) :
          i < j /\ ~(iter.offset = 0 /\ page[i].dialog.pinned) => page[i].dialog.date > page[j].dialog.date
    BY <2>2
  <2> QED BY <2>3, <2>4, ShowsPage
<1>7. ASSUME NEW p \in Peers, Owed(p), Complete
       PROVE  (\E i \in 1 .. m : s[i] = p) \/ BehindPage(p)'
  <2>1. dialogs[p].date # 0 /\ BehindCursor(p)
    BY <1>7 DEF Owed, Dialogs!AskedFor, Dialogs!Exists, DialogsInv, StillToCome
  <2>2. PICK k \in 1 .. n : s[k] = p
    BY <1>1, <2>1 DEF ListingHolds, Elements, n
  <2>3. CASE k <= m
    BY <1>4, <2>2, <2>3
  <2>4. CASE k > m
    <3>1. m < n /\ m = BatchSize /\ k > BatchSize /\ k \in Nat
      BY <1>1, <1>2, <1>4, <1>7, <2>2, <2>4
    <3>2. iter'.more
      <4>1. m >= Dialogs!Limit /\ Cardinality(E) > Dialogs!Limit
        BY <1>1, <1>2, <1>7, <3>1, BatchSizeAssumption
      <4> QED BY <4>1 DEF E
    <3>3. ~OutOfPlace(dialogs[p])
      <4>1. OutOfPlace(dialogs[s[k]]) => k <= BatchSize
        BY <1>1, <2>2 DEF ListingHolds, n
      <4> QED BY <2>2, <3>1, <4>1, BatchSizeAssumption
    <3>4. ASSUME NEW i \in 1 .. m, ~(iter.offset = 0 /\ page[i].dialog.pinned) PROVE dialogs[p].date < page[i].dialog.date
      <4>1. i < k /\ i \in 1 .. n
        BY <1>4, <2>2, <2>4
      <4>2. dialogs[s[i]].date > dialogs[s[k]].date
        BY <1>1, <2>2, <3>4, <4>1 DEF ListingHolds, OutOfPlace, n
      <4>3. dialogs[s[i]].date \in Nat /\ dialogs[s[k]].date \in Nat
        BY <1>3, <2>2, <4>1, DialogsFacts
      <4> QED BY <2>2, <4>2, <4>3
    <3> QED BY <3>2, <3>3, <3>4 DEF BehindPage, OutOfPlace
  <2> QED BY <1>1, <1>4, <2>2, <2>3, <2>4
<1>8. StillToCome'
  <2> SUFFICES ASSUME NEW p \in Peers, Owed(p)'
               PROVE  /\ p \notin iter.seen
                      /\ Complete => BehindCursor(p)' /\ BehindLast(p)' /\ (OnPage(p)' \/ BehindPage(p)') /\ iter.result # "ok"
    BY DEF StillToCome, Complete
  <2>1. Owed(p)
    BY DEF Owed, Dialogs!AskedFor, Dialogs!Exists
  <2>2. p \notin iter.seen /\ (Complete => BehindCursor(p)' /\ iter.result # "ok")
    BY <2>1 DEF DialogsInv, StillToCome, BehindCursor
  <2>3. BehindLast(p)'
    BY DEF BehindLast, Dialogs!NoDialog
  <2>4. (\E i \in 1 .. m : s[i] = p) => OnPage(p)'
    <3> SUFFICES ASSUME NEW i \in 1 .. m, s[i] = p PROVE OnPage(p)'
      OBVIOUS
    <3>1. i \in 1 .. Len(iter'.page) /\ iter'.page[i].peer = p
      OBVIOUS
    <3> QED BY <3>1 DEF OnPage
  <2> QED BY <1>7, <2>1, <2>2, <2>3, <2>4
<1> QED BY <1>5, <1>6, <1>8 DEF DialogsInv

\* What is left of a page when its first dialog is taken off.
LEMMA PageGoesOn ==
  ASSUME DialogsInv, Dialogs!ParametersOK, iter.page # << >>, iter'.page = Tail(iter.page),
         iter'.offset = iter.offset, iter'.more = iter.more, UNCHANGED <<dialogs, steady>>
  PROVE  /\ iter'.page \in Seq(Entry) /\ Len(iter'.page) <= BatchSize /\ PageAsShown'
         /\ Head(iter.page) = iter.page[1] /\ 1 \in 1 .. Len(iter.page)
         /\ Head(iter.page).peer \in Peers /\ Head(iter.page).dialog \in DialogRecord
         /\ \A p \in Peers : BehindPage(p) => BehindPage(p)'
         /\ \A p \in Peers : OnPage(p) => p = Head(iter.page).peer \/ OnPage(p)'
<1> DEFINE n == Len(iter.page)
<1>1. iter.page \in Seq(Entry) /\ n \in Nat /\ n > 0 /\ n <= BatchSize
  BY DialogsFacts
<1>2. iter'.page \in Seq(Entry) /\ Len(iter'.page) = n - 1 /\ \A i \in 1 .. n - 1 : iter'.page[i] = iter.page[i + 1]
  BY <1>1
<1>3. \A i \in 1 .. n - 1 : i + 1 \in 1 .. n /\ 1 \in 1 .. n
  BY <1>1
<1> HIDE DEF n
<1>4. PageAsShown'
  <2>1. \A i \in 1 .. n - 1 : iter'.page[i].peer \in steady => iter'.page[i].dialog = dialogs[iter'.page[i].peer]
    BY <1>2, <1>3 DEF DialogsInv, PageAsShown, n
  <2>2. ASSUME NEW i \in 1 .. n - 1, NEW j \in 1 .. n - 1, i < j, ~OutOfPlace(iter'.page[i].dialog)
        PROVE  iter'.page[i].dialog.date > iter'.page[j].dialog.date
    <3>1. i + 1 < j + 1
      BY <1>1, <2>2
    <3> QED BY <1>2, <1>3, <2>2, <3>1 DEF DialogsInv, PageAsShown, n
  <2> QED BY <1>2, <2>1, <2>2 DEF PageAsShown, OutOfPlace
<1>5. ASSUME NEW p \in Peers, BehindPage(p) PROVE BehindPage(p)'
  <2>1. \A i \in 1 .. n - 1 : ~OutOfPlace(iter'.page[i].dialog) => dialogs[p].date < iter'.page[i].dialog.date
    BY <1>2, <1>3, <1>5 DEF BehindPage, n
  <2> QED BY <1>2, <1>5, <2>1 DEF BehindPage, OutOfPlace
<1>6. ASSUME NEW p \in Peers, OnPage(p), p # Head(iter.page).peer PROVE OnPage(p)'
  <2>1. PICK i \in 1 .. n : iter.page[i].peer = p
    BY <1>6 DEF OnPage, n
  <2>2. i # 1
    BY <1>1, <1>6, <2>1
  <2>3. i - 1 \in 1 .. n - 1 /\ i - 1 + 1 = i
    BY <1>1, <2>1, <2>2
  <2> QED BY <1>2, <2>1, <2>3 DEF OnPage
<1>7. Head(iter.page) = iter.page[1] /\ 1 \in 1 .. n
  BY <1>1
<1>8. Head(iter.page).peer \in Peers /\ Head(iter.page).dialog \in DialogRecord
  BY <1>7, DialogsFacts DEF n
<1>9. iter'.page \in Seq(Entry) /\ Len(iter'.page) <= BatchSize
  BY <1>1, <1>2, BatchSizeAssumption
<1>10. (\A p \in Peers : BehindPage(p) => BehindPage(p)')
       /\ \A p \in Peers : OnPage(p) => p = Head(iter.page).peer \/ OnPage(p)'
  BY <1>5, <1>6
<1> HIDE DEF PageAsShown
<1> QED BY <1>4, <1>7, <1>8, <1>9, <1>10 DEF n

\* A page arrives.
LEMMA GetPageKeeps ==
  ASSUME DialogsInv, Dialogs!ParametersOK, Dialogs!GetPage
  PROVE  DialogsInv'
<1>1. PICK s \in Dialogs!Listings :
        LET page == [i \in 1 .. (IF Len(s) < Dialogs!Limit THEN Len(s) ELSE Dialogs!Limit) |-> Dialogs!Shown(s[i])]
        IN  iter' = [iter EXCEPT !.pc = "page", !.page = page, !.last = Dialogs!NoDialog,
                                 !.more = Len(page) >= Dialogs!Limit /\ Dialogs!Cardinality(Dialogs!Before(0)) > Dialogs!Limit]
  BY DEF Dialogs!GetPage
<1>2. iter.pc = "fetch" /\ UNCHANGED <<dialogs, given, steady>>
  BY DEF Dialogs!GetPage
<1>3. ListingHolds(s) /\ s \in Seq(Peers)
  BY ListingsHold DEF DialogsInv, ListingHolds
<1> DEFINE m == IF Len(s) < Dialogs!Limit THEN Len(s) ELSE Dialogs!Limit
           page == [i \in 1 .. m |-> Dialogs!Shown(s[i])]
           more == Len(page) >= Dialogs!Limit /\ Dialogs!Cardinality(Dialogs!Before(0)) > Dialogs!Limit
<1>4. iter' = [iter EXCEPT !.pc = "page", !.page = page, !.last = Dialogs!NoDialog, !.more = more]
  BY <1>1
<1>5. m \in Nat /\ m <= Len(s)
  <2>1. Dialogs!Limit \in Nat
    <3>1. iter.params.Limit > 0 => Len(given) < iter.params.Limit
      BY <1>2 DEF DialogsInv, GivenSeen
    <3> QED BY <3>1, DialogsFacts, BatchSizeAssumption DEF Dialogs!Limit
  <2> QED BY <1>3, <2>1
<1>6. \A i \in 1 .. m : s[i] \in Peers /\ dialogs[s[i]] \in DialogRecord
  <2>1. \A i \in 1 .. m : i \in 1 .. Len(s)
    BY <1>3, <1>5
  <2> QED BY <1>3, <2>1, DialogsFacts
<1> HIDE DEF m
<1>7. /\ page \in Seq(Entry) /\ Len(page) = m
      /\ \A i \in 1 .. m : page[i].peer = s[i] /\ page[i].dialog = dialogs[s[i]]
  <2>1. \A i \in 1 .. m : /\ Dialogs!Shown(s[i]) \in Entry
                          /\ Dialogs!Shown(s[i]).peer = s[i] /\ Dialogs!Shown(s[i]).dialog = dialogs[s[i]]
    BY <1>6 DEF Dialogs!Shown, Entry
  <2>2. page \in [1 .. m -> Entry]
    BY <2>1
  <2>3. \A i \in 1 .. m : page[i].peer = s[i] /\ page[i].dialog = dialogs[s[i]]
    BY <2>1
  <2> HIDE DEF page
  <2> QED BY <1>5, <2>2, <2>3, SeqDef
<1>8. m >= Dialogs!Limit /\ Cardinality({p \in Peers : dialogs[p].date # 0}) > Dialogs!Limit => more
  <2>1. Dialogs!Before(0) = {p \in Peers : dialogs[p].date # 0}
    BY DEF Dialogs!Before, Dialogs!Exists
  <2>2. \A X : Dialogs!Cardinality(X) = Cardinality(X)
    BY DEF Dialogs!Cardinality, Cardinality
  <2> QED BY <1>7, <2>1, <2>2
<1> HIDE DEF page, more
<1>9. /\ iter' \in IterRecord /\ iter'.pc = "page" /\ iter'.page = page /\ iter'.last = Dialogs!NoDialog /\ iter'.more = more
      /\ iter'.params = iter.params /\ iter'.seen = iter.seen /\ iter'.offset = iter.offset /\ iter'.misled = iter.misled
      /\ iter'.result = iter.result
  <2>1. Dialogs!NoDialog \in DialogRecord
    BY DialogsFacts DEF DialogRecord, Dialogs!NoDialog
  <2>2. more \in BOOLEAN /\ iter \in IterRecord
    BY DialogsFacts DEF more
  <2> HIDE DEF DialogRecord
  <2> QED BY <1>4, <1>7, <2>1, <2>2 DEF IterRecord
<1>10. m = IF Len(s) < Dialogs!Limit THEN Len(s) ELSE Dialogs!Limit
  BY DEF m
<1> QED BY <1>2, <1>5, <1>7, <1>8, <1>9, <1>10, PageComes

\* A dialog is taken off the page: one is owed no longer, or never was.
LEMMA SkipKeeps ==
  ASSUME DialogsInv, Dialogs!ParametersOK, Dialogs!Skip
  PROVE  DialogsInv'
<1> DEFINE e == Head(iter.page)
<1>1. /\ iter.pc = "page" /\ iter.page # << >> /\ Dialogs!Skips(e) /\ UNCHANGED <<dialogs, given, steady>>
      /\ iter' = [iter EXCEPT !.page = Tail(iter.page), !.seen = iter.seen \cup {e.peer}]
  BY DEF Dialogs!Skip
<1>2. iter \in IterRecord
  BY DialogsFacts
<1> HIDE DEF e
<1>3. /\ iter'.page = Tail(iter.page) /\ iter'.seen = iter.seen \cup {e.peer} /\ iter'.pc = iter.pc /\ iter'.params = iter.params
      /\ iter'.offset = iter.offset /\ iter'.more = iter.more /\ iter'.last = iter.last /\ iter'.result = iter.result
      /\ iter'.misled = iter.misled
  BY <1>1, <1>2 DEF IterRecord
<1>4. /\ iter'.page \in Seq(Entry) /\ Len(iter'.page) <= BatchSize /\ PageAsShown'
      /\ e = iter.page[1] /\ 1 \in 1 .. Len(iter.page) /\ e.peer \in Peers /\ e.dialog \in DialogRecord
      /\ \A p \in Peers : BehindPage(p) => BehindPage(p)'
      /\ \A p \in Peers : OnPage(p) => p = e.peer \/ OnPage(p)'
  BY <1>1, <1>3, PageGoesOn DEF e
<1>5. DialogsTypes'
  <2>1. iter' \in IterRecord
    BY <1>1, <1>2, <1>3, <1>4 DEF IterRecord
  <2> QED BY <1>1, <1>4, <2>1 DEF DialogsInv, DialogsTypes
<1>6. Account' /\ GivenSeen'
  BY <1>1, <1>3 DEF DialogsInv, Account, GivenSeen
<1>7. ASSUME NEW p \in Peers, Owed(p) PROVE p # e.peer
  <2> SUFFICES ASSUME p = e.peer PROVE FALSE
    OBVIOUS
  <2>1. p \notin iter.seen /\ p \in steady
    BY <1>7 DEF DialogsInv, StillToCome, Owed
  <2>2. e.dialog = dialogs[p]
    BY <1>4, <2>1 DEF DialogsInv, PageAsShown
  <2>3. Dialogs!Refused(e)
    BY <1>1, <2>1 DEF Dialogs!Skips
  <2>4. dialogs[p].date \in Nat /\ iter.params.OffsetDate \in Nat
    BY DialogsFacts
  <2> QED BY <1>7, <2>2, <2>3, <2>4 DEF Dialogs!Refused, Owed, Dialogs!AskedFor
<1>8. StillToCome'
  <2> SUFFICES ASSUME NEW p \in Peers, Owed(p)'
               PROVE  /\ p \notin iter.seen \cup {e.peer}
                      /\ Complete => BehindCursor(p)' /\ BehindLast(p)' /\ (OnPage(p)' \/ BehindPage(p)') /\ iter.result # "ok"
    BY <1>3 DEF StillToCome, Complete
  <2>1. Owed(p)
    BY <1>1, <1>3 DEF Owed, Dialogs!AskedFor, Dialogs!Exists
  <2>2. /\ p \notin iter.seen
        /\ Complete => BehindCursor(p) /\ BehindLast(p) /\ (OnPage(p) \/ BehindPage(p)) /\ iter.result # "ok"
    BY <1>1, <2>1 DEF DialogsInv, StillToCome
  <2>3. BehindCursor(p)' = BehindCursor(p) /\ BehindLast(p)' = BehindLast(p)
    BY <1>1, <1>3 DEF BehindCursor, BehindLast, OutOfPlace, Dialogs!NoDialog
  <2> QED BY <1>4, <1>7, <2>1, <2>2, <2>3
<1> QED BY <1>4, <1>5, <1>6, <1>8 DEF DialogsInv

\* A dialog is given, and the next ones lie behind it.
LEMMA GiveKeeps ==
  ASSUME DialogsInv, Dialogs!ParametersOK, Dialogs!Give
  PROVE  DialogsInv'
<1> DEFINE e == Head(iter.page)
           shownLast == IF e.dialog.message THEN e.dialog ELSE Dialogs!NoDialog
           full == iter.params.Limit > 0 /\ Len(given') >= iter.params.Limit
<1>1. /\ iter.pc = "page" /\ iter.page # << >> /\ ~Dialogs!Skips(e) /\ UNCHANGED <<dialogs, steady>>
      /\ given' = Append(given, e.peer)
      /\ LET left == [iter EXCEPT !.page = Tail(iter.page), !.seen = iter.seen \cup {e.peer}, !.last = shownLast]
         IN  iter' = IF full THEN [left EXCEPT !.pc = "idle", !.result = "ok"] ELSE left
  BY DEF Dialogs!Give
<1>2. iter \in IterRecord
  BY DialogsFacts
<1> HIDE DEF e, shownLast, full
<1>3. /\ iter'.page = Tail(iter.page) /\ iter'.seen = iter.seen \cup {e.peer} /\ iter'.params = iter.params
      /\ iter'.offset = iter.offset /\ iter'.more = iter.more /\ iter'.last = shownLast /\ iter'.misled = iter.misled
      /\ iter'.stuck = iter.stuck
      /\ iter'.pc = IF full THEN "idle" ELSE iter.pc
      /\ iter'.result = IF full THEN "ok" ELSE iter.result
  <2>1. CASE full
    BY <1>1, <1>2, <2>1 DEF IterRecord
  <2>2. CASE ~full
    BY <1>1, <1>2, <2>2 DEF IterRecord
  <2> QED BY <2>1, <2>2
<1>4. /\ iter'.page \in Seq(Entry) /\ Len(iter'.page) <= BatchSize /\ PageAsShown'
      /\ e = iter.page[1] /\ 1 \in 1 .. Len(iter.page) /\ e.peer \in Peers /\ e.dialog \in DialogRecord
      /\ \A p \in Peers : BehindPage(p) => BehindPage(p)'
      /\ \A p \in Peers : OnPage(p) => p = e.peer \/ OnPage(p)'
  BY <1>1, <1>3, PageGoesOn DEF e
<1>5. /\ given \in Seq(Peers) /\ Len(given) \in Nat /\ given' \in Seq(Peers) /\ Len(given') = Len(given) + 1
      /\ \A i \in 1 .. Len(given) : given'[i] = given[i]
      /\ given'[Len(given) + 1] = e.peer
  BY <1>1, <1>4, DialogsFacts, AppendElements
<1>6. DialogsTypes'
  <2>1. shownLast \in DialogRecord
    <3>1. Dialogs!NoDialog \in DialogRecord
      BY DialogsFacts DEF DialogRecord, Dialogs!NoDialog
    <3> QED BY <1>4, <3>1 DEF shownLast
  <2>2. iter' \in IterRecord
    <3>1. iter' = [pc |-> iter'.pc, params |-> iter'.params, offset |-> iter'.offset, seen |-> iter'.seen,
                   page |-> iter'.page, more |-> iter'.more, last |-> iter'.last, result |-> iter'.result,
                   stuck |-> iter'.stuck, misled |-> iter'.misled]
      <4>1. CASE full
        BY <1>1, <1>2, <4>1 DEF IterRecord
      <4>2. CASE ~full
        BY <1>1, <1>2, <4>2 DEF IterRecord
      <4> QED BY <4>1, <4>2
    <3>2. /\ iter'.pc \in {"fetch", "page", "idle"} /\ iter'.params \in Params /\ iter'.offset \in 0 .. MaxDate
          /\ iter'.seen \in SUBSET Peers /\ iter'.page \in Seq(Entry) /\ iter'.more \in BOOLEAN
          /\ iter'.last \in DialogRecord /\ iter'.result \in {"none", "ok", "error"} /\ iter'.stuck \in BOOLEAN
          /\ iter'.misled \in BOOLEAN
      <4> HIDE DEF DialogRecord
      <4> QED BY <1>2, <1>3, <1>4, <2>1 DEF IterRecord
    <3> HIDE DEF DialogRecord
    <3> QED BY <3>1, <3>2 DEF IterRecord
  <2> QED BY <1>4, <1>5, <2>2 DEF DialogsTypes
<1>7. Account'
  BY <1>1 DEF DialogsInv, Account
<1>8. e.peer \notin iter.seen
  BY <1>1 DEF Dialogs!Skips
<1> DEFINE n == Len(given)
<1> HIDE DEF n
<1>9. GivenSeen'
  <2>1. n \in Nat /\ \A i \in 1 .. n + 1 : i \in 1 .. n \/ i = n + 1
    BY <1>5 DEF n
  <2>2. (\A i \in 1 .. n : given[i] \in iter.seen) /\ \A i, j \in 1 .. n : given[i] = given[j] => i = j
    BY DEF DialogsInv, GivenSeen, n
  <2>3. \A i \in 1 .. n + 1 : given'[i] \in iter'.seen
    BY <1>3, <1>5, <2>1, <2>2 DEF n
  <2>4. \A i, j \in 1 .. n + 1 : given'[i] = given'[j] => i = j
    BY <1>5, <1>8, <2>1, <2>2 DEF n
  <2>5. iter.params.Limit > 0 => n < iter.params.Limit
    BY <1>1 DEF DialogsInv, GivenSeen, n
  <2>6. iter'.params.Limit > 0 => Len(given') <= iter'.params.Limit /\ (iter'.pc # "idle" => Len(given') < iter'.params.Limit)
    BY <1>3, <1>5, <2>1, <2>5, DialogsFacts DEF n, full
  <2>7. iter'.pc # "idle" => iter'.result = "none"
    BY <1>1, <1>3 DEF DialogsInv, GivenSeen
  <2> QED BY <1>5, <2>3, <2>4, <2>6, <2>7 DEF GivenSeen, n
<1>10. StillToCome'
  <2> SUFFICES ASSUME NEW p \in Peers, Owed(p)'
               PROVE  /\ p \notin iter.seen \cup {e.peer}
                      /\ Complete => BehindCursor(p)' /\ BehindLast(p)' /\ (OnPage(p)' \/ BehindPage(p)') /\ iter'.result # "ok"
    BY <1>3 DEF StillToCome, Complete
  <2>1. Owed(p) /\ p # e.peer
    <3>1. p # e.peer
      <4>1. n + 1 \in 1 .. n + 1 /\ Len(given') = n + 1
        BY <1>5 DEF n
      <4> QED BY <1>5, <4>1 DEF Owed, n
    <3>2. \A i \in 1 .. n : i \in 1 .. Len(given') /\ given'[i] = given[i]
      BY <1>5 DEF n
    <3> QED BY <1>1, <1>3, <3>1, <3>2 DEF Owed, Dialogs!AskedFor, Dialogs!Exists, n
  <2>2. /\ p \notin iter.seen
        /\ Complete => BehindCursor(p) /\ BehindLast(p) /\ (OnPage(p) \/ BehindPage(p)) /\ iter.result # "ok"
    BY <1>1, <2>1 DEF DialogsInv, StillToCome
  <2>3. BehindCursor(p)' = BehindCursor(p)
    BY <1>1, <1>3 DEF BehindCursor
  <2>4. Complete => ~full
    BY DialogsFacts DEF Complete, full
  <2>5. ASSUME Complete, shownLast # Dialogs!NoDialog, ~OutOfPlace(shownLast) PROVE dialogs[p].date < shownLast.date
    <3>1. shownLast = iter.page[1].dialog
      BY <1>4, <2>5 DEF shownLast
    <3>2. CASE OnPage(p)
      <4>1. PICK i \in 1 .. Len(iter.page) : iter.page[i].peer = p
        BY <3>2 DEF OnPage
      <4>2. 1 < i
        <5>1. i # 1
          BY <1>4, <2>1, <4>1
        <5> QED BY <4>1, <5>1, DialogsFacts
      <4>3. iter.page[i].dialog = dialogs[p]
        BY <2>1, <4>1 DEF DialogsInv, PageAsShown, Owed
      <4>4. iter.page[1].dialog.date > iter.page[i].dialog.date
        BY <1>4, <2>5, <3>1, <4>1, <4>2 DEF DialogsInv, PageAsShown
      <4>5. iter.page[1].dialog.date \in 0 .. MaxDate /\ dialogs[p].date \in 0 .. MaxDate
        <5>1. iter.page[1].dialog \in DialogRecord /\ dialogs[p] \in DialogRecord
          BY <1>4, DialogsFacts
        <5> QED BY <5>1 DEF DialogRecord
      <4> QED BY <3>1, <4>3, <4>4, <4>5, DialogsFacts
    <3>3. CASE BehindPage(p)
      BY <1>4, <2>5, <3>1, <3>3 DEF BehindPage
    <3> QED BY <2>2, <2>5, <3>2, <3>3
  <2>6. Complete => BehindLast(p)'
    BY <1>1, <1>3, <2>5 DEF BehindLast, OutOfPlace, Dialogs!NoDialog
  <2> QED BY <1>3, <1>4, <2>1, <2>2, <2>3, <2>4, <2>6
<1> QED BY <1>4, <1>6, <1>7, <1>9, <1>10 DEF DialogsInv

\* The next page begins where the last dialog given stands.
LEMMA NextPageKeeps ==
  ASSUME DialogsInv, Dialogs!ParametersOK, Dialogs!NextPage
  PROVE  DialogsInv'
<1> DEFINE offset == Dialogs!NextOffset
           misled == iter.misled \/ (iter.offset = 0 /\ iter.last.pinned)
           stuck  == iter.stuck \/ iter.last = Dialogs!NoDialog
<1>1. /\ iter.pc = "page" /\ iter.page = << >> /\ UNCHANGED <<dialogs, given, steady>>
      /\ iter \in IterRecord /\ Len(iter.page) = 0 /\ iter.result = "none"
  BY DialogsFacts DEF Dialogs!NextPage, DialogsInv, GivenSeen
<1>2. Account' /\ PageAsShown
  BY <1>1 DEF DialogsInv, Account
<1>3. CASE ~iter.more
  <2>1. iter' = [iter EXCEPT !.pc = "idle", !.result = "ok"]
    BY <1>3 DEF Dialogs!NextPage, Dialogs!Return
  <2>2. /\ iter' \in IterRecord /\ iter'.pc = "idle" /\ iter'.result = "ok" /\ iter'.params = iter.params
        /\ iter'.page = iter.page /\ iter'.seen = iter.seen /\ iter'.offset = iter.offset /\ iter'.misled = iter.misled
    BY <1>1, <2>1 DEF IterRecord
  <2>3. DialogsTypes' /\ GivenSeen' /\ PageAsShown'
    BY <1>1, <2>2 DEF DialogsInv, DialogsTypes, GivenSeen, PageAsShown, OutOfPlace
  <2>4. StillToCome'
    <3> SUFFICES ASSUME NEW p \in Peers, Owed(p)' PROVE p \notin iter.seen /\ ~Complete
      BY <2>2 DEF StillToCome, Complete
    <3>1. Owed(p)
      BY <1>1, <2>2 DEF Owed, Dialogs!AskedFor, Dialogs!Exists
    <3>2. p \notin iter.seen /\ (Complete => OnPage(p) \/ BehindPage(p))
      BY <1>1, <3>1 DEF DialogsInv, StillToCome
    <3>3. ~OnPage(p) /\ ~BehindPage(p)
      BY <1>1, <1>3 DEF OnPage, BehindPage
    <3> QED BY <3>2, <3>3
  <2> QED BY <1>2, <2>3, <2>4 DEF DialogsInv
<1>4. CASE iter.more
  <2>1. iter' = [iter EXCEPT !.pc = "fetch", !.offset = offset, !.stuck = stuck, !.misled = misled]
    BY <1>4 DEF Dialogs!NextPage
  <2>2. offset \in 0 .. MaxDate
    BY <1>1 DEF IterRecord, DialogRecord, Dialogs!NextOffset
  <2> HIDE DEF offset
  <2>3. /\ iter' \in IterRecord /\ iter'.pc = "fetch" /\ iter'.result = iter.result /\ iter'.params = iter.params
        /\ iter'.page = iter.page /\ iter'.seen = iter.seen /\ iter'.offset = offset /\ iter'.misled = misled
    BY <1>1, <2>1, <2>2 DEF IterRecord
  <2> HIDE DEF misled, stuck
  <2>4. DialogsTypes' /\ GivenSeen' /\ PageAsShown'
    BY <1>1, <2>3 DEF DialogsInv, DialogsTypes, GivenSeen, PageAsShown, OutOfPlace
  <2>5. StillToCome'
    <3> SUFFICES ASSUME NEW p \in Peers, Owed(p)'
                 PROVE  p \notin iter.seen /\ (iter.params.Limit <= 0 /\ ~misled => BehindCursor(p)' /\ iter.result # "ok")
      BY <2>3 DEF StillToCome, Complete
    <3>1. Owed(p)
      BY <1>1, <2>3 DEF Owed, Dialogs!AskedFor, Dialogs!Exists
    <3>2. p \notin iter.seen /\ (Complete => BehindCursor(p) /\ BehindLast(p) /\ (OnPage(p) \/ BehindPage(p)))
      BY <1>1, <3>1 DEF DialogsInv, StillToCome
    <3>3. ~OnPage(p)
      BY <1>1 DEF OnPage
    <3>4. ASSUME iter.params.Limit <= 0, ~misled, offset # 0 PROVE dialogs[p].date < offset /\ ~dialogs[p].pinned
      <4>1. Complete /\ ~(iter.offset = 0 /\ iter.last.pinned)
        BY <3>4 DEF Complete, misled
      <4>2. ~dialogs[p].pinned
        BY <3>2, <3>3, <4>1 DEF BehindPage, BehindCursor
      <4>3. CASE iter.last = Dialogs!NoDialog
        BY <3>2, <3>4, <4>1, <4>2, <4>3 DEF Dialogs!NextOffset, offset, BehindCursor
      <4>4. CASE iter.last # Dialogs!NoDialog
        BY <3>2, <4>1, <4>2, <4>4 DEF Dialogs!NextOffset, offset, BehindLast, OutOfPlace
      <4> QED BY <4>3, <4>4
    <3>5. iter.params.Limit <= 0 /\ ~misled => BehindCursor(p)'
      BY <1>1, <2>3, <3>4 DEF BehindCursor
    <3> QED BY <1>1, <3>2, <3>5
  <2> QED BY <1>2, <2>4, <2>5 DEF DialogsInv
<1> QED BY <1>3, <1>4

\* Every step of the goroutine and of the account keeps the invariant.
LEMMA DialogsKeep == DialogsInv /\ Dialogs!ParametersOK /\ [Dialogs!Next]_dialogVars => DialogsInv'
<1> SUFFICES ASSUME DialogsInv, Dialogs!ParametersOK, [Dialogs!Next]_dialogVars PROVE DialogsInv'
  OBVIOUS
<1>1. CASE Dialogs!GetPageFails \/ Dialogs!Cancelled
  BY <1>1, CallFails DEF Dialogs!GetPageFails, Dialogs!Cancelled, Dialogs!Return
<1>2. ASSUME NEW p \in Peers, NEW message \in BOOLEAN, Dialogs!MessageArrives(p, message) PROVE DialogsInv'
  <2> DEFINE d == [dialogs[p] EXCEPT !.date = Dialogs!Max(Dialogs!Dates) + 1, !.message = message]
             top == Dialogs!Max(Dialogs!Dates)
  <2>1. top \in Nat /\ MaxDate \in Nat /\ \A q \in Peers : top >= dialogs[q].date /\ dialogs[q].date \in Nat
    BY <1>2, GreatestDate, DialogsFacts DEF DialogsInv
  <2>2. top < MaxDate /\ steady' = steady \ {p} /\ UNCHANGED <<iter, given>>
    BY <1>2 DEF Dialogs!MessageArrives, Dialogs!Moves
  <2>3. dialogs' = [dialogs EXCEPT ![p] = d]
    BY <1>2, DialogsFacts DEF Dialogs!MessageArrives, DialogRecord
  <2> HIDE DEF top
  <2>4. d \in DialogRecord /\ d.pinned = dialogs[p].pinned /\ d.date = top + 1
    <3>1. dialogs[p] \in DialogRecord
      BY DialogsFacts
    <3>2. top + 1 \in 0 .. MaxDate
      BY <2>1, <2>2
    <3> QED BY <3>1, <3>2 DEF DialogRecord, top
  <2> HIDE DEF d
  <2>5. \A q \in Peers : dialogs[q].date # d.date
    BY <2>1, <2>4
  <2> QED BY <2>2, <2>3, <2>4, <2>5, MoveKeeps
<1>3. ASSUME NEW p \in Peers, Dialogs!MessagesDeleted(p) PROVE DialogsInv'
  <2>1. PICK date \in 0 .. dialogs[p].date - 1 :
          date \notin Dialogs!Dates \ {0} /\ dialogs' = [dialogs EXCEPT ![p].date = date]
    BY <1>3 DEF Dialogs!MessagesDeleted
  <2>2. steady' = steady \ {p} /\ UNCHANGED <<iter, given>>
    BY <1>3 DEF Dialogs!MessagesDeleted, Dialogs!Moves
  <2> DEFINE d == [dialogs[p] EXCEPT !.date = date]
  <2>3. dialogs' = [dialogs EXCEPT ![p] = d]
    BY <2>1, DialogsFacts DEF DialogRecord
  <2>4. d \in DialogRecord /\ d.pinned = dialogs[p].pinned /\ d.date = date
    <3>1. dialogs[p] \in DialogRecord
      BY DialogsFacts
    <3>2. date \in 0 .. MaxDate
      BY <2>1, <3>1, DialogsFacts DEF DialogRecord
    <3> QED BY <3>1, <3>2 DEF DialogRecord
  <2> HIDE DEF d
  <2>5. d.date = 0 \/ \A q \in Peers : dialogs[q].date # d.date
    BY <2>1, <2>4 DEF Dialogs!Dates
  <2> QED BY <2>2, <2>3, <2>4, <2>5, MoveKeeps
<1>4. CASE UNCHANGED dialogVars
  BY <1>4 DEF dialogVars, DialogsInv, Account, DialogsTypes, GivenSeen, PageAsShown, OutOfPlace, StillToCome, Owed,
              Complete, BehindCursor, BehindLast, OnPage, BehindPage, Dialogs!AskedFor, Dialogs!Exists, Dialogs!NoDialog
<1> QED BY <1>1, <1>2, <1>3, <1>4, GetPageKeeps, SkipKeeps, GiveKeeps, NextPageKeeps DEF Dialogs!Next, Dialogs!Step

\* What the invariant says of the dialogs.
LEMMA DialogsSound ==
  DialogsInv /\ Dialogs!ParametersOK => Dialogs!TypeOK /\ Dialogs!GivenOnce /\ Dialogs!GivenAll
<1> SUFFICES ASSUME DialogsInv, Dialogs!ParametersOK PROVE Dialogs!TypeOK /\ Dialogs!GivenOnce /\ Dialogs!GivenAll
  OBVIOUS
<1>1. Dialogs!TypeOK
  BY DEF Dialogs!TypeOK, DialogsInv, DialogsTypes, IterRecord
<1>2. given \in Seq(Peers) /\ DOMAIN given = 1 .. Len(given)
  BY DialogsFacts
<1>3. Dialogs!GivenOnce
  BY <1>2 DEF Dialogs!GivenOnce, Dialogs!IsInjective, DialogsInv, GivenSeen
<1>4. Dialogs!GivenAll
  <2> SUFFICES ASSUME iter.result = "ok", iter.params.Limit <= 0, ~iter.misled,
                      NEW p \in steady, Dialogs!AskedFor(p), p \notin Dialogs!Range(given)
               PROVE  FALSE
    BY DEF Dialogs!GivenAll
  <2>1. p \in Peers /\ Owed(p) /\ Complete
    BY <1>2 DEF Owed, Complete, DialogsInv, Account, Dialogs!Range
  <2> QED BY <2>1 DEF DialogsInv, StillToCome
<1> QED BY <1>1, <1>3, <1>4

-----------------------------------------------------------------------------
\* Each part keeps its own invariant, whichever runs, and the others stay.
LEMMA ListsInvariant == AllSpec => [](DialogsInv /\ ForumInv /\ IterInv)
<1> DEFINE Lists == DialogsInv /\ ForumInv /\ IterInv
<1>1. AllInit => Lists
  <2> SUFFICES ASSUME AllInit PROVE Lists
    OBVIOUS
  <2>1. Dialogs!Init /\ Topics!Init /\ Iter!Init
    BY DEF AllInit
  <2> QED BY <2>1, ListsAssumption, DialogsBegin, ForumBegins, IterBegins
<1>2. Lists /\ [AllNext]_allVars => Lists'
  <2> SUFFICES ASSUME Lists, [AllNext]_allVars PROVE Lists'
    OBVIOUS
  <2>1. [Dialogs!Next]_dialogVars /\ [Topics!Next]_topicVars /\ [Iter!Next]_iterVars
    BY DEF AllNext, allVars, HistoryOnly, DialogsOnly, TopicsOnly
  <2> QED BY <2>1, ListsAssumption, DialogsKeep, ForumKeeps, IterKeeps
<1> QED BY <1>1, <1>2, PTL DEF AllSpec

\* Whatever comes and goes between two pages, no listing gives anything twice or
\* leaves out what stayed (dialogs.go:353-356, topics.go:178-186), and the
\* iterator gives the items in order and no more than its limit (requestiter.go).
THEOREM ListingsSoundHolds == AllSpec => []ListingsSound
<1>1. DialogsInv /\ ForumInv /\ IterInv => ListingsSound
  BY ListsAssumption, DialogsSound, ForumSound, IterSound DEF ListingsSound
<1> QED BY <1>1, ListsInvariant, PTL

===============================================================================
